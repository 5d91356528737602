------------------------------- MODULE Master -------------------------------
(***************************************************************************)
(* The Master: it turns an uploaded work config into node creation         *)
(* requests, waits for the nodes to register, starts each flow when all of *)
(* its nodes are known, stops flows and resets the simulation.             *)
(*                                                                         *)
(* startWorkConfig, registerNode and resetSimulation are synchronized on   *)
(* the Master, so each is one action.  Two are not: stopWorkConfig is a    *)
(* thread that looks one flow up at a time, and registerNodeContainer      *)
(* looks its label up in one step and puts the container in another.       *)
(***************************************************************************)
EXTENDS MessageBus

CONSTANTS
    WorkConfigs,  \* the work configs the user may upload or stop, as sets of flows
    MaxResets,    \* bound on the resets
    MaxStops      \* bound on the stop requests

ASSUME RequestAssumption ==
    /\ WorkConfigs \subseteq SUBSET Flows
    /\ MaxResets \in Nat
    /\ MaxStops \in Nat

VARIABLES
    nodeContainerTbl,    \* [Labels -> Host]
    labelChecked,        \* containers that found their label free and will take it
    nodeNameToURITbl,    \* [Nodes -> Host]: where a registered node lives
    streamMap,           \* flow id -> upload whose Flow object its Stream holds, or 0
    flowMap,             \* flow id -> upload of the flow that waits for nodes, or 0
    runningFlowMap,      \* flow id -> upload of the flow started last, or 0
    nodeToFlows,         \* node -> Flow objects waiting for the node
    nodesToInstantiate,  \* nodes asked for that have not registered
    loaded,              \* the Flow objects made since the last reset
    uris,                \* Flow object -> nodes of it that carry a URI
    stopTodo,            \* flows a running stopWorkConfig has still to stop
    uploads, resets, stops

masterVars == <<nodeContainerTbl, labelChecked, nodeNameToURITbl, streamMap, flowMap,
                runningFlowMap, nodeToFlows, nodesToInstantiate, loaded, uris,
                stopTodo, uploads, resets, stops>>

MasterTypeOK ==
    /\ nodeContainerTbl \in [Labels -> Host]
    /\ labelChecked \subseteq Containers
    /\ nodeNameToURITbl \in [Nodes -> Host]
    /\ streamMap \in [Flows -> Gen \cup {0}]
    /\ flowMap \in [Flows -> Gen \cup {0}]
    /\ runningFlowMap \in [Flows -> Gen \cup {0}]
    /\ nodeToFlows \in [Nodes -> SUBSET FlowObject]
    /\ nodesToInstantiate \subseteq Nodes
    /\ loaded \subseteq FlowObject
    /\ uris \in [FlowObject -> SUBSET Nodes]
    /\ stopTodo \subseteq Flows
    /\ uploads \in 0 .. MaxUploads
    /\ resets \in 0 .. MaxResets
    /\ stops \in 0 .. MaxStops

MasterInit ==
    /\ nodeContainerTbl = [l \in Labels |-> NoURI]
    /\ labelChecked = {}
    /\ nodeNameToURITbl = [n \in Nodes |-> NoURI]
    /\ streamMap = [f \in Flows |-> 0]
    /\ flowMap = [f \in Flows |-> 0]
    /\ runningFlowMap = [f \in Flows |-> 0]
    /\ nodeToFlows = [n \in Nodes |-> {}]
    /\ nodesToInstantiate = {}
    /\ loaded = {}
    /\ uris = [o \in FlowObject |-> {}]
    /\ stopTodo = {}
    /\ uploads = 0
    /\ resets = 0
    /\ stops = 0
-----------------------------------------------------------------------------
Registered == {n \in Nodes : nodeNameToURITbl[n] # NoURI}

\* Variants of the definitions below are faulty programs: each shows that one of
\* the properties depends on what the definition says.

\* Variant: the sink is not looked at.
CanRunWithoutSink(o, view) == FlowNodes[o[1]] \ {FlowSink[o[1]]} \subseteq view[o]

\* Flow.canRun: every node of the flow has its URI, given the URIs in view.
CanRun(o, view) == FlowNodes[o[1]] \subseteq view[o]

\* The start message of a flow: the stream that is sent holds, under the
\* flow's id, the object in the stream map.
StartOf(o, streams, view, table) ==
    StartMsg(o, table[FlowSink[o[1]]],
             CanRun(<<o[1], streams[o[1]]>>, view))

\* Variant: the flow as the user submitted it, which carries no URIs.
StopOfSubmitted(f) == StopMsg(f, nodeNameToURITbl[FlowSink[f]], FALSE)

\* The stop message of a flow carries the object in runningFlowMap.
StopOf(f) ==
    StopMsg(f, nodeNameToURITbl[FlowSink[f]], CanRun(<<f, runningFlowMap[f]>>, uris))

\* The upload of the last of the objects in S made for f: the lists in
\* nodeToFlows are in the order of the uploads.
LatestUpload(f, S) ==
    CHOOSE u \in Gen : /\ <<f, u>> \in S
                       /\ \A v \in Gen : <<f, v>> \in S => v <= u

StartedIn(S) == {f \in Flows : \E u \in Gen : <<f, u>> \in S}

\* Variant: the URI replaces the ones learnt before.
LearnUriReplacing(n, S) ==
    [o \in FlowObject |-> IF o \in S THEN {n} ELSE uris[o]]

\* Flow.updateFlowWithNodeUri, for the Flow objects of S.
LearnUri(n, S) ==
    [o \in FlowObject |-> IF o \in S THEN uris[o] \cup {n} ELSE uris[o]]

\* Variant: the new waiters of a node displace the old ones.
WaitForReplacing(S) ==
    [n \in Nodes |-> LET new == {o \in S : n \in FlowNodes[o[1]] \ Registered}
                     IN IF new # {} THEN new ELSE nodeToFlows[n]]

\* The Flow objects of S wait for those of their nodes that are not registered.
WaitFor(S) ==
    [n \in Nodes |-> nodeToFlows[n]
                        \cup {o \in S : n \in FlowNodes[o[1]] \ Registered}]

\* Variant: a node that registers stays on the list of those to be created.
StillToInstantiateAll(n) == nodesToInstantiate

\* A node that registers is no longer waited for.
StillToInstantiate(n) == nodesToInstantiate \ {n}

\* The creation request of a node goes to the container with the node's label.
CreateRequest(n) == CreateMsg(n, nodeContainerTbl[NodeLabel[n]])
-----------------------------------------------------------------------------

\* registerNodeContainer, the lookup: a label that is taken stays as it is.
RegisterNodeContainer(c) ==
    /\ InFlight(RegisterContainerMsg(c))
    /\ Exchange({RegisterContainerMsg(c)}, {})
    /\ labelChecked' = IF nodeContainerTbl[NcLabel[c]] # NoURI THEN labelChecked
                       ELSE labelChecked \cup {c}
    /\ UNCHANGED <<nodeContainerTbl, nodeNameToURITbl, streamMap, flowMap,
                   runningFlowMap, nodeToFlows, nodesToInstantiate, loaded, uris,
                   stopTodo, uploads, resets, stops>>

\* registerNodeContainer, the put: of two containers that found one label free
\* the later displaces the earlier.
PutNodeContainer(c) ==
    /\ c \in labelChecked
    /\ labelChecked' = labelChecked \ {c}
    /\ nodeContainerTbl' = [nodeContainerTbl EXCEPT ![NcLabel[c]] = c]
    /\ UNCHANGED <<busVars, nodeNameToURITbl, streamMap, flowMap, runningFlowMap,
                   nodeToFlows, nodesToInstantiate, loaded, uris, stopTodo,
                   uploads, resets, stops>>

\* A work config that passed the validations is taken in: its flows learn the
\* URIs of the nodes that are registered and wait for the others, the flows
\* that are complete are started, and every missing node is asked for (again).
StartWorkConfig(W) ==
    LET u == uploads + 1
        fresh == W \X {u}
        missing(f) == FlowNodes[f] \ Registered
        runnable == {f \in W : missing(f) = {}}
    IN
    /\ uploads < MaxUploads
    /\ uploads' = u
    /\ loaded' = loaded \cup fresh
    /\ uris' = [o \in FlowObject |->
                  IF o \in fresh THEN FlowNodes[o[1]] \cap Registered ELSE uris[o]]
    /\ nodeToFlows' = WaitFor(fresh)
    /\ nodesToInstantiate' = nodesToInstantiate \cup UNION {missing(f) : f \in W}
    /\ streamMap' = [f \in Flows |->
                       IF f \in W /\ streamMap[f] = 0 THEN u ELSE streamMap[f]]
    /\ flowMap' = [f \in Flows |->
                     IF f \in runnable THEN 0
                     ELSE IF f \in W /\ flowMap[f] = 0 THEN u ELSE flowMap[f]]
    /\ runningFlowMap' = [f \in Flows |->
                            IF f \in runnable THEN u ELSE runningFlowMap[f]]
    /\ Exchange({}, {StartOf(<<f, u>>, streamMap', uris', nodeNameToURITbl)
                       : f \in runnable}
                    \cup {CreateRequest(n) : n \in nodesToInstantiate'})
    /\ UNCHANGED <<nodeContainerTbl, labelChecked, nodeNameToURITbl, stopTodo, resets, stops>>

\* A node announces itself: the flows that wait for it learn its URI, those
\* that are now complete are started and leave the list of this node.
RegisterNode(n, c) ==
    LET waiting == nodeToFlows[n]
        runnable == {o \in waiting : CanRun(o, uris')}
    IN
    /\ InFlight(RegisterMsg(n, c))
    /\ nodeNameToURITbl' = [nodeNameToURITbl EXCEPT ![n] = c]
    /\ nodesToInstantiate' = StillToInstantiate(n)
    /\ uris' = LearnUri(n, waiting)
    /\ nodeToFlows' = [nodeToFlows EXCEPT ![n] = waiting \ runnable]
    /\ flowMap' = [f \in Flows |->
                     IF f \in StartedIn(runnable) THEN 0 ELSE flowMap[f]]
    /\ runningFlowMap' = [f \in Flows |->
                            IF f \in StartedIn(runnable)
                            THEN LatestUpload(f, runnable) ELSE runningFlowMap[f]]
    /\ Exchange({RegisterMsg(n, c)},
                {StartOf(o, streamMap, uris', nodeNameToURITbl') : o \in runnable})
    /\ UNCHANGED <<nodeContainerTbl, labelChecked, streamMap, loaded, stopTodo,
                   uploads, resets, stops>>

\* Everything but the containers is forgotten, after every container was told
\* to delete its nodes.
ResetSimulation ==
    /\ resets < MaxResets
    /\ resets' = resets + 1
    /\ Exchange({}, {DeleteNodesMsg(c) : c \in {nodeContainerTbl[l] : l \in Labels} \ {NoURI}})
    /\ nodeNameToURITbl' = [n \in Nodes |-> NoURI]
    /\ streamMap' = [f \in Flows |-> 0]
    /\ flowMap' = [f \in Flows |-> 0]
    /\ runningFlowMap' = [f \in Flows |-> 0]
    /\ nodeToFlows' = [n \in Nodes |-> {}]
    /\ nodesToInstantiate' = {}
    /\ loaded' = {}
    /\ uris' = [o \in FlowObject |-> {}]
    /\ UNCHANGED <<nodeContainerTbl, labelChecked, stopTodo, uploads, stops>>

StopWorkConfig(W) ==
    /\ stops < MaxStops
    /\ stopTodo = {}
    /\ stops' = stops + 1
    /\ stopTodo' = W
    /\ UNCHANGED <<busVars, nodeContainerTbl, labelChecked, nodeNameToURITbl, streamMap, flowMap,
                   runningFlowMap, nodeToFlows, nodesToInstantiate, loaded, uris,
                   uploads, resets>>

\* stopFlow sends the object in runningFlowMap to the sink named in it.  A flow
\* that is not running is null: the exception ends the whole request.
StopFlow(f) ==
    /\ f \in stopTodo
    /\ \/ /\ runningFlowMap[f] = 0
          /\ stopTodo' = {}
          /\ UNCHANGED busVars
       \/ /\ runningFlowMap[f] # 0
          /\ stopTodo' = stopTodo \ {f}
          /\ Exchange({}, {StopOf(f)})
    /\ UNCHANGED <<nodeContainerTbl, labelChecked, nodeNameToURITbl, streamMap, flowMap,
                   runningFlowMap, nodeToFlows, nodesToInstantiate, loaded, uris,
                   uploads, resets, stops>>

MasterNext ==
    \/ \E c \in Containers : RegisterNodeContainer(c) \/ PutNodeContainer(c)
    \/ \E W \in WorkConfigs : StartWorkConfig(W)
    \/ \E n \in Nodes, c \in Containers : RegisterNode(n, c)
    \/ ResetSimulation
    \/ \E W \in WorkConfigs : StopWorkConfig(W)
    \/ \E f \in Flows : StopFlow(f)
=============================================================================
