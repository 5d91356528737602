---------------------------- MODULE NodeContainer ----------------------------
(***************************************************************************)
(* The node containers: each creates the nodes it is asked for, registers  *)
(* them with the Master, and deletes all of them on a reset.               *)
(*                                                                         *)
(* createNode is not synchronized, so it is three steps: the lookup in     *)
(* nodeMap; the new node installing its listeners and registering; and     *)
(* the insertion into nodeMap.  reset walks the map node by node.          *)
(* A node id is paired with the container that hosts it: a Place.          *)
(***************************************************************************)
EXTENDS MessageBus

Place == Containers \X Nodes

VARIABLES
    connected,  \* containers that have announced themselves to the Master
    nodeMap,    \* the places whose node is in the nodeMap of its container
    checked,    \* [Place -> Nat]: createNode calls that found no node in the map
    announced,  \* [Place -> Nat]: createNode calls whose node has registered
    listening,  \* places whose node has its listeners on the bus
    resetTodo,  \* places a running reset has still to visit
    sinkTasks   \* [Flows -> Nat]: SinkRunnables started since the sink was created

containerVars == <<connected, nodeMap, checked, announced, listening, resetTodo,
                   sinkTasks>>

ContainerTypeOK ==
    /\ connected \subseteq Containers
    /\ nodeMap \subseteq Place
    /\ checked \in [Place -> Nat]
    /\ announced \in [Place -> Nat]
    /\ listening \subseteq Place
    /\ resetTodo \subseteq Place
    /\ sinkTasks \in [Flows -> Nat]

ContainerInit ==
    /\ connected = {}
    /\ nodeMap = {}
    /\ checked = [p \in Place |-> 0]
    /\ announced = [p \in Place |-> 0]
    /\ listening = {}
    /\ resetTodo = {}
    /\ sinkTasks = [f \in Flows |-> 0]
-----------------------------------------------------------------------------
\* The container comes up and registers its label and URI.
Connect(c) ==
    /\ c \notin connected
    /\ connected' = connected \cup {c}
    /\ Exchange({}, {RegisterContainerMsg(c)})
    /\ UNCHANGED <<nodeMap, checked, announced, listening, resetTodo, sinkTasks>>

\* createNode, up to the lookup: a node that exists is not created, and not
\* registered, again.
CheckNode(p) ==
    LET request == CreateMsg(p[2], p[1])
    IN
    /\ InFlight(request)
    /\ Exchange({request}, {})
    /\ checked' = IF p \in nodeMap THEN checked
                  ELSE [checked EXCEPT ![p] = @ + 1]
    /\ UNCHANGED <<connected, nodeMap, announced, listening, resetTodo, sinkTasks>>

\* createNode, config and register of the new node.
AnnounceNode(p) ==
    /\ checked[p] > 0
    /\ checked' = [checked EXCEPT ![p] = @ - 1]
    /\ announced' = [announced EXCEPT ![p] = @ + 1]
    /\ listening' = listening \cup {p}
    /\ Exchange({}, {RegisterMsg(p[2], p[1])})
    /\ UNCHANGED <<connected, nodeMap, resetTodo, sinkTasks>>

\* createNode, the insertion.  The iterator of a reset that is under way may or
\* may not see the new entry.
PutNode(p) ==
    /\ announced[p] > 0
    /\ announced' = [announced EXCEPT ![p] = @ - 1]
    /\ nodeMap' = nodeMap \cup {p}
    /\ \/ UNCHANGED resetTodo
       \/ /\ \E n \in Nodes : <<p[1], n>> \in resetTodo
          /\ resetTodo' = resetTodo \cup {p}
    /\ UNCHANGED <<busVars, connected, checked, listening, sinkTasks>>

\* Variant: a container that is creating a node ignores the request.
BeginResetWhenIdle(c) ==
    /\ InFlight(DeleteNodesMsg(c))
    /\ Exchange({DeleteNodesMsg(c)}, {})
    /\ resetTodo' = IF \E n \in Nodes : checked[<<c, n>>] + announced[<<c, n>>] > 0
                    THEN resetTodo ELSE resetTodo \cup {p \in nodeMap : p[1] = c}
    /\ UNCHANGED <<connected, nodeMap, checked, announced, listening, sinkTasks>>

\* reset: the iteration over the nodes of the map begins.
BeginReset(c) ==
    /\ InFlight(DeleteNodesMsg(c))
    /\ Exchange({DeleteNodesMsg(c)}, {})
    /\ resetTodo' = resetTodo \cup {p \in nodeMap : p[1] = c}
    /\ UNCHANGED <<connected, nodeMap, checked, announced, listening, sinkTasks>>

\* reset of one node: its runnables are killed and waited for, its listeners
\* removed, and the node taken out of the map.
ResetNode(p) ==
    /\ p \in resetTodo
    /\ resetTodo' = resetTodo \ {p}
    /\ nodeMap' = nodeMap \ {p}
    /\ listening' = listening \ {p}
    /\ sinkTasks' = [f \in Flows |-> IF FlowSink[f] = p[2] THEN 0 ELSE sinkTasks[f]]
    /\ UNCHANGED <<busVars, connected, checked, announced>>
-----------------------------------------------------------------------------
\* SinkNode.executeTask: a runnable is started, whether or not the flow has one.
ExecuteSinkTask(o, c, complete) ==
    LET m == StartMsg(o, c, complete)
        f == o[1]
    IN
    /\ InFlight(m)
    /\ Exchange({m}, {})
    /\ sinkTasks' = IF <<c, FlowSink[f]>> \in listening
                    THEN [sinkTasks EXCEPT ![f] = @ + 1] ELSE sinkTasks
    /\ UNCHANGED <<connected, nodeMap, checked, announced, listening, resetTodo>>

\* SinkNode.terminateTask: what it does to the runnables of the chain is the
\* subject of module StreamChain; here the request is only taken from the bus.
TerminateSinkTask(f, c, complete) ==
    LET m == StopMsg(f, c, complete)
    IN
    /\ InFlight(m)
    /\ Exchange({m}, {})
    /\ UNCHANGED <<connected, nodeMap, checked, announced, listening, resetTodo, sinkTasks>>

ContainerNext ==
    \/ \E c \in Containers : Connect(c)
    \/ \E p \in Place : CheckNode(p)
    \/ \E p \in Place : AnnounceNode(p)
    \/ \E p \in Place : PutNode(p)
    \/ \E c \in Containers : BeginReset(c)
    \/ \E p \in Place : ResetNode(p)
    \/ \E o \in FlowObject, c \in Host, b \in BOOLEAN : ExecuteSinkTask(o, c, b)
    \/ \E f \in Flows, c \in Host, b \in BOOLEAN : TerminateSinkTask(f, c, b)
=============================================================================
