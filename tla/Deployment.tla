----------------------------- MODULE Deployment -----------------------------
(***************************************************************************)
(* The Master and the node containers, joined by the message bus: from an  *)
(* uploaded work config to the first task at each sink, with stops and     *)
(* resets at any moment.                                                   *)
(***************************************************************************)
EXTENDS Master, NodeContainer

vars == <<busVars, masterVars, containerVars>>

TypeOK == BusTypeOK /\ MasterTypeOK /\ ContainerTypeOK

Init == BusInit /\ MasterInit /\ ContainerInit

MasterStep == MasterNext /\ UNCHANGED containerVars
ContainerStep == ContainerNext /\ UNCHANGED masterVars

Next == MasterStep \/ ContainerStep

Spec == Init /\ [][Next]_vars

(***************************************************************************)
(* What goes on by itself: the bus delivers, and every handler and every   *)
(* createNode call that has begun goes on.  Nothing obliges the user to    *)
(* upload, stop or reset.  Each step uses up a message or a call, so it is *)
(* enough that some step is taken as long as there is one.                 *)
(***************************************************************************)
MasterProgress ==
    \/ \E c \in Containers : RegisterNodeContainer(c) \/ PutNodeContainer(c)
    \/ \E n \in Nodes, c \in Containers : RegisterNode(n, c)

ContainerProgress ==
    \/ \E c \in Containers : BeginReset(c)
    \/ \E p \in Place : CheckNode(p) \/ AnnounceNode(p) \/ PutNode(p) \/ ResetNode(p)
    \/ \E o \in FlowObject, c \in Host, b \in BOOLEAN : ExecuteSinkTask(o, c, b)

Progress ==
    \/ MasterProgress /\ UNCHANGED containerVars
    \/ ContainerProgress /\ UNCHANGED masterVars
-----------------------------------------------------------------------------
(* Every Flow object the Master still holds carries exactly the URIs of its
   nodes that are registered: no upload, registration or reset, in whatever
   order, leaves a flow behind the Master's node table
   (Master.startWorkConfig, registerNode, resetSimulation). *)
UrisFollowTable ==
    \A o \in loaded : uris[o] = FlowNodes[o[1]] \cap Registered

(* No lost wake-up: a Flow object that misses the URI of a node waits in the
   list of that node, the node has been asked for, and it has not registered
   (Master.registerNode only ever looks into that list). *)
WaitersAreListed ==
    \A o \in loaded : \A n \in FlowNodes[o[1]] \ uris[o] :
        /\ o \in nodeToFlows[n]
        /\ n \in nodesToInstantiate
        /\ n \notin Registered

(* A flow id that was uploaded since the last reset is in exactly one of
   flowMap and runningFlowMap, and it is in runningFlowMap exactly if all its
   nodes have registered (Master.runFlow moves it over). *)
FlowIsWaitingOrRunning ==
    \A f \in StartedIn(loaded) :
        /\ (flowMap[f] = 0) # (runningFlowMap[f] = 0)
        /\ (runningFlowMap[f] # 0) <=> (FlowNodes[f] \subseteq Registered)

(* A task reaches a sink, and a stop request a sink, with the URI of every node
   on the path: the stream that is sent holds the Flow object of the FIRST
   upload of the id while the Master tests the object of the latest one
   (Master.runFlow, Stream.containsFlowID). *)
OnlyCompleteFlowsAreSent ==
    \A m \in Message : m.type \in {"start", "stop"} /\ InFlight(m) =>
        m.complete

(* No request for a node is forgotten: a node that was asked for and has not
   registered was asked of a container that is not there, or its container is
   still to look the request up, is creating the node, or has sent the
   registration, also when several requests for one node overlap and when the
   label of the node changes hands.  It holds until somebody resets the
   simulation (Master.startWorkConfig, NodeContainer.createNode, registerNode). *)
NoRequestIsForgotten ==
    resets = 0 => \A n \in nodesToInstantiate :
        \/ CreateMsg(n, NoURI) \in deadLetters
        \/ \E c \in Containers : \/ InFlight(CreateMsg(n, c))
                                 \/ checked[<<c, n>>] > 0
                                 \/ InFlight(RegisterMsg(n, c))
-----------------------------------------------------------------------------
(* A flow that was uploaded is started, whether it waits for nodes or not, unless
   a node of it was asked of a container that had not registered, or the
   simulation is reset (Master.startWorkConfig, registerNode, runFlow). *)
UploadedFlowIsStarted ==
    loaded # {} ~>
        \/ resets > 0
        \/ \A f \in StartedIn(loaded) :
              \/ sinkTasks[f] > 0
              \/ \E n \in FlowNodes[f] : CreateMsg(n, NoURI) \in deadLetters

(* A node that is in the map of a container which is told to delete its nodes
   is gone from it some time later, even if it is created anew. *)
ResetDeletesNodes ==
    \A p \in Place :
        (p \in nodeMap /\ InFlight(DeleteNodesMsg(p[1]))) ~> p \notin nodeMap
=============================================================================
