-------------------------- MODULE UploadedWorkProofs --------------------------
(***************************************************************************)
(* Proofs about Deployment, for all topologies, labels, work configs and   *)
(* bounds: the Master's tables stay consistent, no flow that waits for a   *)
(* node is forgotten, and no task or stop request leaves the Master for a  *)
(* flow whose nodes are not all known.                                     *)
(*                                                                         *)
(* Then about UploadedWork: the deployment of an accepted work config is a *)
(* deployment, so that all of this, proved for every order of uploads,     *)
(* stops and resets, holds of the program that begins with the making of   *)
(* the work config; and the random stream is accepted.                     *)
(***************************************************************************)
EXTENDS UploadedWork, FiniteSetTheorems, SequenceTheorems,
        WellFoundedInduction, TLAPS

-----------------------------------------------------------------------------
(* Messages and the bus. *)

(* What the constructors build are messages of the type they say. *)
LEMMA MessageTypes ==
    /\ \A c \in Containers : /\ RegisterContainerMsg(c) \in Message
                             /\ RegisterContainerMsg(c).type = "registerContainer"
    /\ \A n \in Nodes, c \in Host : /\ CreateMsg(n, c) \in Message
                                    /\ CreateMsg(n, c).type = "create"
    /\ \A n \in Nodes, c \in Containers : /\ RegisterMsg(n, c) \in Message
                                          /\ RegisterMsg(n, c).type = "register"
    /\ \A c \in Containers : /\ DeleteNodesMsg(c) \in Message
                             /\ DeleteNodesMsg(c).type = "deleteNodes"
<1>1. \A c \in Containers : /\ RegisterContainerMsg(c) \in Message
                            /\ RegisterContainerMsg(c).type = "registerContainer"
  BY DEF RegisterContainerMsg, Message
<1>2. \A n \in Nodes, c \in Host : /\ CreateMsg(n, c) \in Message
                                   /\ CreateMsg(n, c).type = "create"
  BY DEF CreateMsg, Message
<1>3. \A n \in Nodes, c \in Containers : /\ RegisterMsg(n, c) \in Message
                                         /\ RegisterMsg(n, c).type = "register"
  BY DEF RegisterMsg, Message
<1>4. \A c \in Containers : /\ DeleteNodesMsg(c) \in Message
                            /\ DeleteNodesMsg(c).type = "deleteNodes"
  BY DEF DeleteNodesMsg, Message
<1> QED
  BY <1>1, <1>2, <1>3, <1>4

(* The two messages that carry flows. *)
LEMMA FlowMessageTypes ==
    /\ \A o \in FlowObject, c \in Host, b \in BOOLEAN :
          StartMsg(o, c, b) \in Message /\ StartMsg(o, c, b).complete = b
    /\ \A f \in Flows, c \in Host, b \in BOOLEAN :
          StopMsg(f, c, b) \in Message /\ StopMsg(f, c, b).complete = b
<1>1. \A o \in FlowObject, c \in Host, b \in BOOLEAN :
          StartMsg(o, c, b) \in Message /\ StartMsg(o, c, b).complete = b
  BY DEF StartMsg, Message
<1>2. \A f \in Flows, c \in Host, b \in BOOLEAN :
          StopMsg(f, c, b) \in Message /\ StopMsg(f, c, b).complete = b
  BY DEF StopMsg, Message
<1> QED
  BY <1>1, <1>2

(* A handler that consumes what is in flight leaves a bus, and a message that is
   in flight afterwards was so before or has just been sent. *)
LEMMA ExchangeBus ==
    ASSUME BusTypeOK,
           NEW In \in SUBSET Message, \A m \in In : InFlight(m),
           NEW Out \in SUBSET Message,
           Exchange(In, Out)
    PROVE  /\ BusTypeOK'
           /\ \A m \in Message : InFlight(m)' => InFlight(m) \/ m \in Out
<1>1. bus \in [Message -> Nat] /\ deadLetters \subseteq Message
  BY DEF BusTypeOK
<1>2. ASSUME NEW m \in Message
      PROVE  /\ bus'[m] \in Nat
             /\ bus'[m] > 0 => bus[m] > 0 \/ m \in Out
  <2>1. bus'[m] = (bus[m] + (IF m \in Out \ Undeliverable(Out) THEN 1 ELSE 0))
                      - (IF m \in In THEN 1 ELSE 0)
    BY DEF Exchange
  <2>2. bus[m] \in Nat /\ (m \in In => bus[m] > 0)
    BY <1>1 DEF InFlight
  <2> QED
    BY <2>1, <2>2
<1>3. bus' \in [Message -> Nat]
  BY <1>2 DEF Exchange
<1>4. deadLetters' \subseteq Message
  BY <1>1 DEF Exchange, Undeliverable
<1> QED
  BY <1>2, <1>3, <1>4 DEF BusTypeOK, InFlight

(* If all flows in what is sent are complete, all flows in flight are. *)
LEMMA ExchangeComplete ==
    ASSUME BusTypeOK, OnlyCompleteFlowsAreSent,
           NEW In \in SUBSET Message, \A m \in In : InFlight(m),
           NEW Out \in SUBSET Message,
           \A m \in Out : m.type \in {"start", "stop"} => m.complete,
           Exchange(In, Out)
    PROVE  BusTypeOK' /\ OnlyCompleteFlowsAreSent'
BY ExchangeBus DEF OnlyCompleteFlowsAreSent
-----------------------------------------------------------------------------
(* Uploads. *)

(* A set of uploads that is not empty has a latest one. *)
LEMMA LatestExists ==
    ASSUME NEW S \in SUBSET Gen, S # {}
    PROVE  \E u \in S : \A v \in S : v <= u
<1> USE TopologyAssumption
<1> DEFINE T == {MaxUploads - u : u \in S}
<1>1. T \subseteq Nat /\ T # {}
  <2>1. T \subseteq Nat
    BY DEF Gen
  <2>2. PICK u \in S : TRUE
    OBVIOUS
  <2>3. MaxUploads - u \in T
    OBVIOUS
  <2> QED
    BY <2>1, <2>3
<1>2. PICK x \in T : \A y \in T : ~ (<<y, x>> \in OpToRel(<, Nat))
  <2> DEFINE R == OpToRel(<, Nat)
  <2>1. IsWellFoundedOn(R, Nat)
    BY NatLessThanWellFounded
  <2> HIDE DEF T, R
  <2>2. \E x \in T : \A y \in T : ~ (<<y, x>> \in R)
    BY <1>1, <2>1, WFMin
  <2> QED
    BY <2>2 DEF R
<1>3. \A y \in T : ~ (y < x)
  BY <1>1, <1>2 DEF OpToRel
<1>4. PICK u \in S : x = MaxUploads - u
  OBVIOUS
<1>5. ASSUME NEW v \in S
      PROVE  v <= u
  <2>1. ~ (MaxUploads - v < MaxUploads - u)
    BY <1>3, <1>4
  <2> QED
    BY <2>1 DEF Gen
<1> QED
  BY <1>5

(* LatestUpload picks an upload of the flow. *)
LEMMA LatestUploadIsOne ==
    ASSUME NEW S \in SUBSET FlowObject, NEW f \in StartedIn(S)
    PROVE  LatestUpload(f, S) \in Gen /\ <<f, LatestUpload(f, S)>> \in S
<1> DEFINE U == {u \in Gen : <<f, u>> \in S}
<1>1. U \in SUBSET Gen /\ U # {}
  BY DEF StartedIn
<1>2. \E u \in U : \A v \in U : v <= u
  <2> HIDE DEF U
  <2> QED
    BY <1>1, LatestExists
<1>3. \E u \in Gen : /\ <<f, u>> \in S
                     /\ \A v \in Gen : <<f, v>> \in S => v <= u
  BY <1>2
<1> QED
  BY <1>3 DEF LatestUpload
-----------------------------------------------------------------------------
(* The inductive invariant.  OnlyCompleteFlowsAreSent needs to know that the  *)
(* stream map holds an object the Master still updates (MapsHoldLoaded), that *)
(* its URIs follow the node table, and that the flow is started only when the *)
(* table has all its nodes; that a flow is started at all when the last node  *)
(* registers needs the object to be in the list of the node.                  *)

\* The maps hold, under a flow id, an object made for it since the last reset,
\* and the stream map has one for every flow that was uploaded.
MapsHoldLoaded ==
    \A f \in Flows :
        /\ streamMap[f] # 0 => <<f, streamMap[f]>> \in loaded
        /\ flowMap[f] # 0 => <<f, flowMap[f]>> \in loaded
        /\ runningFlowMap[f] # 0 => <<f, runningFlowMap[f]>> \in loaded
        /\ f \in StartedIn(loaded) => streamMap[f] # 0

\* Only objects of this simulation wait, and only for nodes of theirs.
ListsHoldLoaded ==
    \A n \in Nodes : \A o \in nodeToFlows[n] :
        o \in loaded /\ n \in FlowNodes[o[1]]

LoadedByUploads == \A o \in loaded : o[2] <= uploads

TablesOK ==
    /\ UrisFollowTable
    /\ WaitersAreListed
    /\ FlowIsWaitingOrRunning
    /\ MapsHoldLoaded
    /\ ListsHoldLoaded
    /\ LoadedByUploads

IInv == TypeOK /\ TablesOK /\ OnlyCompleteFlowsAreSent

tables == <<nodeNameToURITbl, streamMap, flowMap, runningFlowMap, nodeToFlows,
            nodesToInstantiate, loaded, uris, uploads>>

(* The invariant holds before the first upload. *)
LEMMA InitIInv == Init => IInv
<1> SUFFICES ASSUME Init
             PROVE  IInv
  OBVIOUS
<1> USE TopologyAssumption, RequestAssumption DEF Init, BusInit, MasterInit, ContainerInit
<1>1. TypeOK
  BY DEF TypeOK, BusTypeOK, MasterTypeOK, ContainerTypeOK, Host
<1>2. TablesOK
  BY DEF TablesOK, UrisFollowTable, WaitersAreListed, FlowIsWaitingOrRunning,
         MapsHoldLoaded, ListsHoldLoaded, LoadedByUploads, StartedIn
<1>3. OnlyCompleteFlowsAreSent
  BY DEF OnlyCompleteFlowsAreSent, InFlight
<1> QED
  BY <1>1, <1>2, <1>3 DEF IInv

(* The consistency of the tables depends on them alone. *)
LEMMA TablesUnchanged == TablesOK /\ UNCHANGED tables => TablesOK'
<1> SUFFICES ASSUME TablesOK, UNCHANGED tables
             PROVE  TablesOK'
  OBVIOUS
<1>1. /\ nodeNameToURITbl' = nodeNameToURITbl /\ streamMap' = streamMap
      /\ flowMap' = flowMap /\ runningFlowMap' = runningFlowMap
      /\ nodeToFlows' = nodeToFlows /\ nodesToInstantiate' = nodesToInstantiate
      /\ loaded' = loaded /\ uris' = uris /\ uploads' = uploads
  BY DEF tables
<1>2. UrisFollowTable' /\ WaitersAreListed'
  BY <1>1 DEF TablesOK, UrisFollowTable, WaitersAreListed, Registered
<1>3. FlowIsWaitingOrRunning' /\ MapsHoldLoaded'
  BY <1>1 DEF TablesOK, FlowIsWaitingOrRunning, MapsHoldLoaded, StartedIn, Registered
<1>4. ListsHoldLoaded' /\ LoadedByUploads'
  BY <1>1 DEF TablesOK, ListsHoldLoaded, LoadedByUploads
<1> QED
  BY <1>2, <1>3, <1>4 DEF TablesOK

(* A flow that runs has been given the URI of each of its nodes, whichever of
   its objects is looked at. *)
LEMMA RunningIsComplete ==
    ASSUME IInv, NEW o \in loaded, runningFlowMap[o[1]] # 0
    PROVE  CanRun(o, uris)
<1>1. o \in FlowObject /\ o[1] \in Flows /\ o[2] \in Gen /\ o = <<o[1], o[2]>>
  BY DEF IInv, TypeOK, MasterTypeOK, FlowObject
<1>2. o[1] \in StartedIn(loaded)
  BY <1>1 DEF StartedIn
<1>3. FlowNodes[o[1]] \subseteq Registered
  BY <1>2 DEF IInv, TablesOK, FlowIsWaitingOrRunning
<1> QED
  BY <1>3 DEF IInv, TablesOK, UrisFollowTable, CanRun
-----------------------------------------------------------------------------
(* The steps of the containers. *)

(* A container step changes no table of the Master and sends no flow. *)
LEMMA ContainerIInv == IInv /\ ContainerStep => IInv'
<1> SUFFICES ASSUME IInv, ContainerStep
             PROVE  IInv'
  OBVIOUS
<1> USE TopologyAssumption
<1>1. BusTypeOK /\ MasterTypeOK /\ ContainerTypeOK /\ OnlyCompleteFlowsAreSent
  BY DEF IInv, TypeOK
<1>2. TablesOK' /\ MasterTypeOK'
  <2>1. UNCHANGED masterVars
    BY DEF ContainerStep
  <2>2. UNCHANGED tables
    BY <2>1 DEF masterVars, tables
  <2> QED
    BY <1>1, <2>1, <2>2, TablesUnchanged DEF IInv, MasterTypeOK, masterVars
<1> SUFFICES BusTypeOK' /\ ContainerTypeOK' /\ OnlyCompleteFlowsAreSent'
  BY <1>2 DEF IInv, TypeOK
<1>3. ASSUME UNCHANGED busVars
      PROVE  BusTypeOK' /\ OnlyCompleteFlowsAreSent'
  BY <1>1, <1>3 DEF busVars, BusTypeOK, OnlyCompleteFlowsAreSent, InFlight
<1>4. ASSUME NEW c \in Containers, Connect(c)
      PROVE  BusTypeOK' /\ ContainerTypeOK' /\ OnlyCompleteFlowsAreSent'
  <2>1. ContainerTypeOK'
    BY <1>1, <1>4 DEF ContainerTypeOK, Connect
  <2>2. Exchange({}, {RegisterContainerMsg(c)})
    BY <1>4 DEF Connect
  <2>3. BusTypeOK' /\ OnlyCompleteFlowsAreSent'
    BY <1>1, <2>2, MessageTypes, ExchangeComplete
  <2> QED
    BY <2>1, <2>3
<1>5. ASSUME NEW p \in Place, CheckNode(p)
      PROVE  BusTypeOK' /\ ContainerTypeOK' /\ OnlyCompleteFlowsAreSent'
  <2>1. p[1] \in Host /\ p[2] \in Nodes
    BY DEF Place, Host
  <2>2. ContainerTypeOK'
    BY <1>1, <1>5 DEF ContainerTypeOK, CheckNode
  <2>3. InFlight(CreateMsg(p[2], p[1])) /\ Exchange({CreateMsg(p[2], p[1])}, {})
    BY <1>5 DEF CheckNode
  <2>4. BusTypeOK' /\ OnlyCompleteFlowsAreSent'
    BY <1>1, <2>1, <2>3, MessageTypes, ExchangeComplete
  <2> QED
    BY <2>2, <2>4
<1>6. ASSUME NEW p \in Place, AnnounceNode(p)
      PROVE  BusTypeOK' /\ ContainerTypeOK' /\ OnlyCompleteFlowsAreSent'
  <2>1. p[1] \in Containers /\ p[2] \in Nodes
    BY DEF Place
  <2>2. ContainerTypeOK'
    BY <1>1, <1>6 DEF ContainerTypeOK, AnnounceNode
  <2>3. Exchange({}, {RegisterMsg(p[2], p[1])})
    BY <1>6 DEF AnnounceNode
  <2>4. BusTypeOK' /\ OnlyCompleteFlowsAreSent'
    BY <1>1, <2>1, <2>3, MessageTypes, ExchangeComplete
  <2> QED
    BY <2>2, <2>4
<1>7. ASSUME NEW p \in Place, PutNode(p)
      PROVE  BusTypeOK' /\ ContainerTypeOK' /\ OnlyCompleteFlowsAreSent'
  <2>1. ContainerTypeOK'
    BY <1>1, <1>7 DEF ContainerTypeOK, PutNode
  <2> QED
    BY <1>3, <1>7, <2>1 DEF PutNode
<1>8. ASSUME NEW c \in Containers, BeginReset(c)
      PROVE  BusTypeOK' /\ ContainerTypeOK' /\ OnlyCompleteFlowsAreSent'
  <2>1. ContainerTypeOK'
    BY <1>1, <1>8 DEF ContainerTypeOK, BeginReset
  <2>2. InFlight(DeleteNodesMsg(c)) /\ Exchange({DeleteNodesMsg(c)}, {})
    BY <1>8 DEF BeginReset
  <2>3. BusTypeOK' /\ OnlyCompleteFlowsAreSent'
    BY <1>1, <2>2, MessageTypes, ExchangeComplete
  <2> QED
    BY <2>1, <2>3
<1>9. ASSUME NEW p \in Place, ResetNode(p)
      PROVE  BusTypeOK' /\ ContainerTypeOK' /\ OnlyCompleteFlowsAreSent'
  <2>1. ContainerTypeOK'
    BY <1>1, <1>9 DEF ContainerTypeOK, ResetNode
  <2> QED
    BY <1>3, <1>9, <2>1 DEF ResetNode
<1>10. ASSUME NEW o \in FlowObject, NEW c \in Host, NEW b \in BOOLEAN,
              ExecuteSinkTask(o, c, b)
       PROVE  BusTypeOK' /\ ContainerTypeOK' /\ OnlyCompleteFlowsAreSent'
  <2>1. ContainerTypeOK'
    <3>1. sinkTasks \in [Flows -> Nat]
      BY <1>1 DEF ContainerTypeOK
    <3>2. \A f \in Flows : sinkTasks[f] + 1 \in Nat
      BY <3>1
    <3>3. sinkTasks' \in [Flows -> Nat]
      BY <1>10, <3>1, <3>2 DEF ExecuteSinkTask
    <3> QED
      BY <1>1, <1>10, <3>3 DEF ContainerTypeOK, ExecuteSinkTask
  <2>2. InFlight(StartMsg(o, c, b)) /\ Exchange({StartMsg(o, c, b)}, {})
    BY <1>10 DEF ExecuteSinkTask
  <2>3. BusTypeOK' /\ OnlyCompleteFlowsAreSent'
    BY <1>1, <2>2, FlowMessageTypes, ExchangeComplete
  <2> QED
    BY <2>1, <2>3
<1>11. ASSUME NEW f \in Flows, NEW c \in Host, NEW b \in BOOLEAN,
              TerminateSinkTask(f, c, b)
       PROVE  BusTypeOK' /\ ContainerTypeOK' /\ OnlyCompleteFlowsAreSent'
  <2>1. ContainerTypeOK'
    BY <1>1, <1>11 DEF ContainerTypeOK, TerminateSinkTask
  <2>2. InFlight(StopMsg(f, c, b)) /\ Exchange({StopMsg(f, c, b)}, {})
    BY <1>11 DEF TerminateSinkTask
  <2>3. BusTypeOK' /\ OnlyCompleteFlowsAreSent'
    BY <1>1, <2>2, FlowMessageTypes, ExchangeComplete
  <2> QED
    BY <2>1, <2>3
<1> QED
  BY <1>4, <1>5, <1>6, <1>7, <1>8, <1>9, <1>10, <1>11
     DEF ContainerStep, ContainerNext
-----------------------------------------------------------------------------
(* The steps of the Master. *)

(* A container that registers, and the begin of a stop request, change no table
   that flows depend on. *)
LEMMA RegisterNodeContainerIInv ==
    ASSUME IInv, NEW c \in Containers, RegisterNodeContainer(c), UNCHANGED containerVars
    PROVE  IInv'
<1>1. MasterTypeOK'
  BY DEF IInv, TypeOK, MasterTypeOK, RegisterNodeContainer
<1>2. ContainerTypeOK'
  BY DEF IInv, TypeOK, ContainerTypeOK, containerVars
<1>3. TablesOK'
  BY TablesUnchanged DEF IInv, RegisterNodeContainer, tables
<1>4. InFlight(RegisterContainerMsg(c)) /\ Exchange({RegisterContainerMsg(c)}, {})
  BY DEF RegisterNodeContainer
<1>5. BusTypeOK' /\ OnlyCompleteFlowsAreSent'
  BY <1>4, MessageTypes, ExchangeComplete DEF IInv, TypeOK
<1> QED
  BY <1>1, <1>2, <1>3, <1>5 DEF IInv, TypeOK

LEMMA PutNodeContainerIInv ==
    ASSUME IInv, NEW c \in Containers, PutNodeContainer(c), UNCHANGED containerVars
    PROVE  IInv'
<1> USE TopologyAssumption
<1>1. MasterTypeOK'
  <2>1. c \in Host
    BY DEF Host
  <2> QED
    BY <2>1 DEF IInv, TypeOK, MasterTypeOK, PutNodeContainer
<1>2. ContainerTypeOK'
  BY DEF IInv, TypeOK, ContainerTypeOK, containerVars
<1>3. TablesOK'
  BY TablesUnchanged DEF IInv, PutNodeContainer, tables
<1>4. BusTypeOK' /\ OnlyCompleteFlowsAreSent'
  BY DEF IInv, TypeOK, PutNodeContainer, busVars, BusTypeOK, OnlyCompleteFlowsAreSent, InFlight
<1> QED
  BY <1>1, <1>2, <1>3, <1>4 DEF IInv, TypeOK

LEMMA StopWorkConfigIInv ==
    ASSUME IInv, NEW W \in WorkConfigs, StopWorkConfig(W), UNCHANGED containerVars
    PROVE  IInv'
<1> USE RequestAssumption
<1>1. MasterTypeOK'
  BY DEF IInv, TypeOK, MasterTypeOK, StopWorkConfig
<1>2. ContainerTypeOK'
  BY DEF IInv, TypeOK, ContainerTypeOK, containerVars
<1>3. TablesOK'
  BY TablesUnchanged DEF IInv, StopWorkConfig, tables
<1>4. BusTypeOK' /\ OnlyCompleteFlowsAreSent'
  BY DEF IInv, TypeOK, StopWorkConfig, busVars, BusTypeOK, OnlyCompleteFlowsAreSent,
         InFlight
<1> QED
  BY <1>1, <1>2, <1>3, <1>4 DEF IInv, TypeOK

(* A stop request is sent for a flow that runs, and that flow is complete. *)
LEMMA StopFlowIInv ==
    ASSUME IInv, NEW f \in Flows, StopFlow(f), UNCHANGED containerVars
    PROVE  IInv'
<1> USE TopologyAssumption
<1>1. MasterTypeOK'
  BY DEF IInv, TypeOK, MasterTypeOK, StopFlow
<1>2. ContainerTypeOK'
  BY DEF IInv, TypeOK, ContainerTypeOK, containerVars
<1>3. TablesOK'
  BY TablesUnchanged DEF IInv, StopFlow, tables
<1>4. BusTypeOK' /\ OnlyCompleteFlowsAreSent'
  <2>1. CASE runningFlowMap[f] = 0
    BY <2>1 DEF IInv, TypeOK, StopFlow, busVars, BusTypeOK, OnlyCompleteFlowsAreSent,
                InFlight
  <2>2. CASE runningFlowMap[f] # 0
    <3> DEFINE o == <<f, runningFlowMap[f]>>
               m == StopMsg(f, nodeNameToURITbl[FlowSink[f]], CanRun(o, uris))
    <3>1. CanRun(o, uris)
      <4>1. o \in loaded /\ o[1] = f
        BY <2>2 DEF IInv, TablesOK, MapsHoldLoaded
      <4> QED
        BY <2>2, <4>1, RunningIsComplete
    <3>2. nodeNameToURITbl[FlowSink[f]] \in Host
      BY DEF IInv, TypeOK, MasterTypeOK
    <3>3. m \in Message /\ m.complete
      BY <3>1, <3>2, FlowMessageTypes
    <3>4. Exchange({}, {m})
      BY <2>2 DEF StopFlow, StopOf
    <3> HIDE DEF m
    <3> QED
      BY <3>3, <3>4, ExchangeComplete DEF IInv, TypeOK
  <2> QED
    BY <2>1, <2>2
<1> QED
  BY <1>1, <1>2, <1>3, <1>4 DEF IInv, TypeOK

(* After a reset there is nothing to be inconsistent. *)
LEMMA ResetSimulationIInv ==
    ASSUME IInv, ResetSimulation, UNCHANGED containerVars
    PROVE  IInv'
<1> USE TopologyAssumption, RequestAssumption
<1>1. MasterTypeOK'
  BY DEF IInv, TypeOK, MasterTypeOK, ResetSimulation, Host
<1>2. ContainerTypeOK'
  BY DEF IInv, TypeOK, ContainerTypeOK, containerVars
<1>3. TablesOK'
  BY DEF TablesOK, ResetSimulation, UrisFollowTable, WaitersAreListed,
         FlowIsWaitingOrRunning, MapsHoldLoaded, ListsHoldLoaded, LoadedByUploads,
         StartedIn
<1>4. BusTypeOK' /\ OnlyCompleteFlowsAreSent'
  <2> DEFINE Out == {DeleteNodesMsg(c) :
                       c \in {nodeContainerTbl[l] : l \in Labels} \ {NoURI}}
  <2>1. {nodeContainerTbl[l] : l \in Labels} \ {NoURI} \subseteq Containers
    BY DEF IInv, TypeOK, MasterTypeOK, Host
  <2>2. Out \in SUBSET Message /\ \A m \in Out : m.type = "deleteNodes"
    BY <2>1, MessageTypes
  <2>3. Exchange({}, Out)
    BY DEF ResetSimulation
  <2> HIDE DEF Out
  <2> QED
    BY <2>2, <2>3, ExchangeComplete DEF IInv, TypeOK
<1> QED
  BY <1>1, <1>2, <1>3, <1>4 DEF IInv, TypeOK

(* What a registration does to the tables, apart from the bus: the lists of the
   other nodes are not looked at, and need not be. *)
LEMMA RegisterNodeTables ==
    ASSUME IInv, NEW n \in Nodes, NEW c \in Containers, RegisterNode(n, c)
    PROVE  /\ MasterTypeOK'
           /\ TablesOK'
           /\ \A o \in nodeToFlows[n] : CanRun(o, uris') =>
                 CanRun(<<o[1], streamMap[o[1]]>>, uris')
<1> USE TopologyAssumption
<1> DEFINE waiting == nodeToFlows[n]
           runnable == {o \in waiting : CanRun(o, uris')}
<1>1. /\ MasterTypeOK /\ TablesOK
      /\ waiting \in SUBSET FlowObject /\ waiting \subseteq loaded
      /\ loaded \subseteq FlowObject
      /\ c # NoURI /\ c \in Host
  BY DEF IInv, TypeOK, MasterTypeOK, TablesOK, ListsHoldLoaded, Host
<1>2. /\ nodeNameToURITbl' = [nodeNameToURITbl EXCEPT ![n] = c]
      /\ nodesToInstantiate' = nodesToInstantiate \ {n}
      /\ uris' = LearnUri(n, waiting)
      /\ nodeToFlows' = [nodeToFlows EXCEPT ![n] = waiting \ runnable]
      /\ flowMap' = [f \in Flows |->
                       IF f \in StartedIn(runnable) THEN 0 ELSE flowMap[f]]
      /\ runningFlowMap' = [f \in Flows |->
                              IF f \in StartedIn(runnable)
                              THEN LatestUpload(f, runnable) ELSE runningFlowMap[f]]
      /\ streamMap' = streamMap /\ loaded' = loaded /\ uploads' = uploads
      /\ UNCHANGED <<nodeContainerTbl, labelChecked, stopTodo, resets, stops>>
  BY DEF RegisterNode, StillToInstantiate
<1>3. Registered' = Registered \cup {n}
  BY <1>1, <1>2 DEF Registered, MasterTypeOK
<1>4. \A o \in FlowObject :
          uris'[o] = IF o \in waiting THEN uris[o] \cup {n} ELSE uris[o]
  BY <1>2 DEF LearnUri
<1>5. \A f \in StartedIn(runnable) :
          /\ f \in Flows
          /\ LatestUpload(f, runnable) \in Gen
          /\ <<f, LatestUpload(f, runnable)>> \in runnable
  <2>1. runnable \in SUBSET FlowObject
    BY <1>1
  <2>2. StartedIn(runnable) \subseteq Flows
    BY DEF StartedIn
  <2> HIDE DEF runnable
  <2> QED
    BY <2>1, <2>2, LatestUploadIsOne
<1>6. UrisFollowTable'
  <2> SUFFICES ASSUME NEW o \in loaded
               PROVE  uris'[o] = FlowNodes[o[1]] \cap Registered'
    BY <1>2 DEF UrisFollowTable
  <2>1. o \in FlowObject /\ uris[o] = FlowNodes[o[1]] \cap Registered
    BY <1>1 DEF TablesOK, UrisFollowTable
  <2>2. CASE o \in waiting
    <3>1. n \in FlowNodes[o[1]]
      BY <2>2, <1>1 DEF TablesOK, ListsHoldLoaded
    <3> QED
      BY <2>1, <2>2, <3>1, <1>3, <1>4
  <2>3. CASE o \notin waiting
    <3>1. n \in FlowNodes[o[1]] => n \in uris[o]
      BY <2>3, <1>1 DEF TablesOK, WaitersAreListed
    <3> QED
      BY <2>1, <2>3, <3>1, <1>3, <1>4
  <2> QED
    BY <2>2, <2>3
<1>7. WaitersAreListed'
  <2> SUFFICES ASSUME NEW o \in loaded, NEW q \in FlowNodes[o[1]], q \notin uris'[o]
               PROVE  /\ o \in nodeToFlows'[q]
                      /\ q \in nodesToInstantiate'
                      /\ q \notin Registered'
    BY <1>2 DEF WaitersAreListed
  <2>1. o \in FlowObject /\ q \in Nodes
    BY <1>1 DEF FlowObject
  <2>2. q \notin Registered'
    BY <1>6, <1>2 DEF UrisFollowTable
  <2>3. q # n
    BY <2>2, <1>3
  <2>4. q \notin uris[o]
    BY <2>1, <1>4
  <2>5. o \in nodeToFlows[q] /\ q \in nodesToInstantiate
    BY <2>4, <1>1 DEF TablesOK, WaitersAreListed
  <2>6. nodeToFlows'[q] = nodeToFlows[q]
    BY <2>1, <2>3, <1>1, <1>2 DEF MasterTypeOK
  <2> QED
    BY <2>2, <2>3, <2>5, <2>6, <1>2
<1>8. \A o \in loaded : CanRun(o, uris') <=> FlowNodes[o[1]] \subseteq Registered'
  BY <1>2, <1>6 DEF UrisFollowTable, CanRun
<1>9. FlowIsWaitingOrRunning'
  <2> SUFFICES ASSUME NEW f \in StartedIn(loaded)
               PROVE  /\ (flowMap'[f] = 0) # (runningFlowMap'[f] = 0)
                      /\ (runningFlowMap'[f] # 0) <=> (FlowNodes[f] \subseteq Registered')
    BY <1>2 DEF FlowIsWaitingOrRunning, StartedIn
  <2>1. PICK u \in Gen : <<f, u>> \in loaded
    BY DEF StartedIn
  <2>2. f \in Flows
    BY DEF StartedIn
  <2>3. CASE f \in StartedIn(runnable)
    <3>1. FlowNodes[f] \subseteq Registered'
      <4>1. PICK v \in Gen : <<f, v>> \in runnable
        BY <2>3 DEF StartedIn
      <4> QED
        BY <4>1, <1>1, <1>8
    <3>2. flowMap'[f] = 0 /\ runningFlowMap'[f] = LatestUpload(f, runnable)
      BY <2>2, <2>3, <1>2
    <3>3. LatestUpload(f, runnable) # 0
      <4>1. LatestUpload(f, runnable) \in Gen
        BY <2>3, <1>5
      <4> HIDE DEF runnable
      <4> QED
        BY <4>1 DEF Gen
    <3> QED
      BY <3>1, <3>2, <3>3
  <2>4. CASE f \notin StartedIn(runnable)
    <3>1. flowMap'[f] = flowMap[f] /\ runningFlowMap'[f] = runningFlowMap[f]
      BY <2>2, <2>4, <1>2
    <3>2. (FlowNodes[f] \subseteq Registered') <=> (FlowNodes[f] \subseteq Registered)
      <4>1. SUFFICES ASSUME FlowNodes[f] \subseteq Registered',
                            ~ (FlowNodes[f] \subseteq Registered)
                     PROVE  FALSE
        BY <1>3
      <4>2. n \in FlowNodes[f] /\ n \notin Registered
        BY <4>1, <1>3
      <4>3. n \notin uris[<<f, u>>]
        BY <4>2, <2>1, <1>1 DEF TablesOK, UrisFollowTable
      <4>4. <<f, u>> \in waiting
        BY <4>2, <4>3, <2>1, <1>1 DEF TablesOK, WaitersAreListed
      <4>5. <<f, u>> \in runnable
        BY <4>1, <4>4, <2>1, <1>8
      <4> QED
        BY <4>5, <2>2, <2>4 DEF StartedIn
    <3> QED
      BY <3>1, <3>2, <1>1 DEF TablesOK, FlowIsWaitingOrRunning
  <2> QED
    BY <2>3, <2>4
<1>10. MapsHoldLoaded'
  <2> SUFFICES ASSUME NEW f \in Flows
               PROVE  /\ flowMap'[f] # 0 => <<f, flowMap'[f]>> \in loaded
                      /\ runningFlowMap'[f] # 0 => <<f, runningFlowMap'[f]>> \in loaded
    BY <1>1, <1>2 DEF TablesOK, MapsHoldLoaded, StartedIn
  <2>1. CASE f \in StartedIn(runnable)
    <3>1. <<f, LatestUpload(f, runnable)>> \in runnable
      BY <2>1, <1>5
    <3>2. flowMap'[f] = 0 /\ runningFlowMap'[f] = LatestUpload(f, runnable)
      BY <2>1, <1>2
    <3> QED
      BY <3>1, <3>2, <1>1
  <2>2. CASE f \notin StartedIn(runnable)
    BY <2>2, <1>1, <1>2 DEF TablesOK, MapsHoldLoaded
  <2> QED
    BY <2>1, <2>2
<1>11. ListsHoldLoaded'
  <2>1. \A q \in Nodes : nodeToFlows'[q] \subseteq nodeToFlows[q]
    BY <1>1, <1>2 DEF MasterTypeOK
  <2> QED
    BY <2>1, <1>1, <1>2 DEF TablesOK, ListsHoldLoaded
<1>12. LoadedByUploads'
  BY <1>1, <1>2 DEF TablesOK, LoadedByUploads
<1>13. MasterTypeOK'
  <2>1. uris' \in [FlowObject -> SUBSET Nodes]
    BY <1>1, <1>2 DEF MasterTypeOK, LearnUri
  <2>2. nodeToFlows' \in [Nodes -> SUBSET FlowObject]
    BY <1>1, <1>2 DEF MasterTypeOK
  <2>3. runningFlowMap' \in [Flows -> Gen \cup {0}]
    <3> HIDE DEF runnable
    <3> QED
      BY <1>1, <1>2, <1>5 DEF MasterTypeOK
  <2>4. flowMap' \in [Flows -> Gen \cup {0}]
    BY <1>1, <1>2 DEF MasterTypeOK
  <2>5. nodeNameToURITbl' \in [Nodes -> Host] /\ nodesToInstantiate' \subseteq Nodes
    BY <1>1, <1>2 DEF MasterTypeOK
  <2> QED
    BY <2>1, <2>2, <2>3, <2>4, <2>5, <1>1, <1>2 DEF MasterTypeOK
<1>14. ASSUME NEW o \in waiting, CanRun(o, uris')
       PROVE  CanRun(<<o[1], streamMap[o[1]]>>, uris')
  <2>1. o \in loaded /\ o[1] \in Flows /\ o[2] \in Gen /\ o = <<o[1], o[2]>>
    BY <1>1 DEF FlowObject
  <2>2. o[1] \in StartedIn(loaded)
    BY <2>1 DEF StartedIn
  <2>3. <<o[1], streamMap[o[1]]>> \in loaded
    BY <2>1, <2>2, <1>1 DEF TablesOK, MapsHoldLoaded
  <2>4. FlowNodes[o[1]] \subseteq Registered'
    BY <2>1, <1>8, <1>14
  <2> QED
    BY <2>3, <2>4, <1>8
<1> QED
  BY <1>6, <1>7, <1>9, <1>10, <1>11, <1>12, <1>13, <1>14 DEF TablesOK

(* A registration keeps the invariant: the flows it starts are complete. *)
LEMMA RegisterNodeIInv ==
    ASSUME IInv, NEW n \in Nodes, NEW c \in Containers, RegisterNode(n, c),
           UNCHANGED containerVars
    PROVE  IInv'
<1> DEFINE runnable == {o \in nodeToFlows[n] : CanRun(o, uris')}
           Out == {StartOf(o, streamMap, uris', nodeNameToURITbl') : o \in runnable}
<1>1. MasterTypeOK' /\ TablesOK'
  BY RegisterNodeTables
<1>2. ContainerTypeOK'
  BY DEF IInv, TypeOK, ContainerTypeOK, containerVars
<1>3. ASSUME NEW o \in runnable
      PROVE  /\ StartOf(o, streamMap, uris', nodeNameToURITbl') \in Message
             /\ StartOf(o, streamMap, uris', nodeNameToURITbl').complete
  <2>1. o \in FlowObject /\ o[1] \in Flows
    BY DEF IInv, TypeOK, MasterTypeOK, FlowObject
  <2>2. nodeNameToURITbl'[FlowSink[o[1]]] \in Host
    BY <2>1, <1>1, TopologyAssumption DEF MasterTypeOK
  <2>3. CanRun(<<o[1], streamMap[o[1]]>>, uris')
    BY RegisterNodeTables
  <2> QED
    BY <2>1, <2>2, <2>3, FlowMessageTypes DEF StartOf
<1>4. Out \in SUBSET Message /\ \A m \in Out : m.complete
  BY <1>3
<1>5. InFlight(RegisterMsg(n, c)) /\ Exchange({RegisterMsg(n, c)}, Out)
  BY DEF RegisterNode, StillToInstantiate
<1>6. BusTypeOK' /\ OnlyCompleteFlowsAreSent'
  <2> HIDE DEF Out
  <2> QED
    BY <1>4, <1>5, MessageTypes, ExchangeComplete DEF IInv, TypeOK
<1> QED
  BY <1>1, <1>2, <1>6 DEF IInv, TypeOK

(* An upload keeps the invariant: its flows are put where their nodes are
   missing, and only those that miss none are started. *)
LEMMA StartWorkConfigIInv ==
    ASSUME IInv, NEW W \in WorkConfigs, StartWorkConfig(W), UNCHANGED containerVars
    PROVE  IInv'
<1> USE TopologyAssumption, RequestAssumption
<1> DEFINE u == uploads + 1
           fresh == W \X {u}
           runnable == {f \in W : FlowNodes[f] \ Registered = {}}
           starts == {StartOf(<<f, u>>, streamMap', uris', nodeNameToURITbl)
                        : f \in runnable}
           creates == {CreateRequest(n) : n \in nodesToInstantiate'}
<1>1. /\ MasterTypeOK /\ TablesOK
      /\ loaded \subseteq FlowObject /\ W \subseteq Flows
      /\ uploads \in Nat /\ u \in Gen /\ u # 0
  BY DEF IInv, TypeOK, MasterTypeOK, StartWorkConfig, Gen
<1>2. /\ uploads' = u
      /\ loaded' = loaded \cup fresh
      /\ uris' = [o \in FlowObject |->
                    IF o \in fresh THEN FlowNodes[o[1]] \cap Registered ELSE uris[o]]
      /\ nodeToFlows' = WaitFor(fresh)
      /\ nodesToInstantiate' = nodesToInstantiate
                                  \cup UNION {FlowNodes[f] \ Registered : f \in W}
      /\ streamMap' = [f \in Flows |->
                         IF f \in W /\ streamMap[f] = 0 THEN u ELSE streamMap[f]]
      /\ flowMap' = [f \in Flows |->
                       IF f \in runnable THEN 0
                       ELSE IF f \in W /\ flowMap[f] = 0 THEN u ELSE flowMap[f]]
      /\ runningFlowMap' = [f \in Flows |->
                              IF f \in runnable THEN u ELSE runningFlowMap[f]]
      /\ Exchange({}, starts \cup creates)
      /\ UNCHANGED <<nodeContainerTbl, labelChecked, nodeNameToURITbl, stopTodo, resets, stops>>
  BY DEF StartWorkConfig
<1>3. Registered' = Registered
  BY <1>2 DEF Registered
<1>4. fresh \subseteq FlowObject /\ \A o \in fresh : o[1] \in W /\ o[2] = u
  BY <1>1 DEF FlowObject
<1> HIDE DEF u, fresh
<1>5. UrisFollowTable'
  BY <1>1, <1>2, <1>3, <1>4 DEF TablesOK, UrisFollowTable
<1>6. \A n \in Nodes :
          nodeToFlows'[n] = nodeToFlows[n]
                              \cup {o \in fresh : n \in FlowNodes[o[1]] \ Registered}
  BY <1>2 DEF WaitFor
<1>7. WaitersAreListed'
  <2> SUFFICES ASSUME NEW o \in loaded', NEW n \in FlowNodes[o[1]], n \notin uris'[o]
               PROVE  /\ o \in nodeToFlows'[n]
                      /\ n \in nodesToInstantiate'
                      /\ n \notin Registered
    BY <1>3 DEF WaitersAreListed
  <2>1. o \in FlowObject /\ n \in Nodes
    BY <1>1, <1>2, <1>4 DEF FlowObject
  <2>2. CASE o \in fresh
    <3>1. n \notin Registered
      BY <2>1, <2>2, <1>2
    <3>2. n \in UNION {FlowNodes[f] \ Registered : f \in W}
      BY <3>1, <2>2, <1>4
    <3> QED
      BY <3>1, <3>2, <2>1, <2>2, <1>2, <1>6
  <2>3. CASE o \notin fresh
    <3>1. o \in loaded /\ n \notin uris[o]
      BY <2>1, <2>3, <1>2
    <3> QED
      BY <3>1, <2>1, <1>1, <1>2, <1>6 DEF TablesOK, WaitersAreListed
  <2> QED
    BY <2>2, <2>3
<1>8. MapsHoldLoaded'
  <2> SUFFICES ASSUME NEW f \in Flows
               PROVE  /\ streamMap'[f] # 0 => <<f, streamMap'[f]>> \in loaded'
                      /\ flowMap'[f] # 0 => <<f, flowMap'[f]>> \in loaded'
                      /\ runningFlowMap'[f] # 0 => <<f, runningFlowMap'[f]>> \in loaded'
                      /\ f \in StartedIn(loaded)' => streamMap'[f] # 0
    BY DEF MapsHoldLoaded
  <2>1. f \in W => <<f, u>> \in fresh
    BY DEF fresh
  <2>2. f \in StartedIn(loaded)' => f \in StartedIn(loaded) \/ f \in W
    BY <1>2, <1>4 DEF StartedIn
  <2>3. /\ streamMap[f] # 0 => <<f, streamMap[f]>> \in loaded
        /\ flowMap[f] # 0 => <<f, flowMap[f]>> \in loaded
        /\ runningFlowMap[f] # 0 => <<f, runningFlowMap[f]>> \in loaded
        /\ f \in StartedIn(loaded) => streamMap[f] # 0
    BY <1>1 DEF TablesOK, MapsHoldLoaded
  <2> QED
    BY <2>1, <2>2, <2>3, <1>1, <1>2
<1>9. FlowIsWaitingOrRunning'
  <2> SUFFICES ASSUME NEW f \in StartedIn(loaded)'
               PROVE  /\ (flowMap'[f] = 0) # (runningFlowMap'[f] = 0)
                      /\ (runningFlowMap'[f] # 0) <=> (FlowNodes[f] \subseteq Registered)
    BY <1>3 DEF FlowIsWaitingOrRunning
  <2>1. f \in Flows /\ (f \in StartedIn(loaded) \/ f \in W)
    BY <1>2, <1>4 DEF StartedIn
  <2>2. f \in StartedIn(loaded) =>
           /\ (flowMap[f] = 0) # (runningFlowMap[f] = 0)
           /\ (runningFlowMap[f] # 0) <=> (FlowNodes[f] \subseteq Registered)
    BY <1>1 DEF TablesOK, FlowIsWaitingOrRunning
  <2>3. CASE f \in runnable
    <3>1. flowMap'[f] = 0 /\ runningFlowMap'[f] = u
      BY <2>1, <2>3, <1>2
    <3> QED
      BY <3>1, <2>3, <1>1
  <2>4. CASE f \in W /\ f \notin runnable
    <3>1. ~ (FlowNodes[f] \subseteq Registered)
      BY <2>4
    <3>2. runningFlowMap[f] = 0
      <4>1. SUFFICES ASSUME runningFlowMap[f] # 0
                     PROVE  FALSE
        OBVIOUS
      <4>2. <<f, runningFlowMap[f]>> \in loaded /\ runningFlowMap[f] \in Gen
        BY <4>1, <2>1, <1>1 DEF TablesOK, MapsHoldLoaded, MasterTypeOK
      <4>3. f \in StartedIn(loaded)
        BY <4>2, <2>1 DEF StartedIn
      <4> QED
        BY <4>1, <4>3, <3>1, <2>2
    <3>3. flowMap'[f] # 0 /\ runningFlowMap'[f] = 0
      BY <3>2, <2>1, <2>4, <1>1, <1>2
    <3> QED
      BY <3>1, <3>3
  <2>5. CASE f \notin W
    <3>1. flowMap'[f] = flowMap[f] /\ runningFlowMap'[f] = runningFlowMap[f]
      BY <2>1, <2>5, <1>2
    <3> QED
      BY <3>1, <2>1, <2>2, <2>5
  <2> QED
    BY <2>3, <2>4, <2>5
<1>10. ListsHoldLoaded'
  <2> SUFFICES ASSUME NEW n \in Nodes, NEW o \in nodeToFlows'[n]
               PROVE  o \in loaded' /\ n \in FlowNodes[o[1]]
    BY DEF ListsHoldLoaded
  <2> QED
    BY <1>1, <1>2, <1>6 DEF TablesOK, ListsHoldLoaded
<1>11. LoadedByUploads'
  <2> SUFFICES ASSUME NEW o \in loaded'
               PROVE  o[2] <= u
    BY <1>2 DEF LoadedByUploads
  <2>1. CASE o \in fresh
    BY <2>1, <1>1, <1>4 DEF Gen
  <2>2. CASE o \in loaded
    <3>1. o[2] \in Gen /\ o[2] <= uploads
      BY <2>2, <1>1 DEF TablesOK, LoadedByUploads, FlowObject
    <3> QED
      BY <3>1, <1>1 DEF u, Gen
  <2> QED
    BY <2>1, <2>2, <1>2
<1>12. MasterTypeOK'
  <2>1. uris' \in [FlowObject -> SUBSET Nodes]
    BY <1>1, <1>2, <1>4 DEF MasterTypeOK
  <2>2. nodeToFlows' \in [Nodes -> SUBSET FlowObject]
    BY <1>1, <1>2, <1>4 DEF MasterTypeOK, WaitFor
  <2>3. nodesToInstantiate' \subseteq Nodes
    BY <1>1, <1>2 DEF MasterTypeOK
  <2>4. loaded' \subseteq FlowObject
    BY <1>1, <1>2, <1>4
  <2>5. /\ streamMap' \in [Flows -> Gen \cup {0}]
        /\ flowMap' \in [Flows -> Gen \cup {0}]
        /\ runningFlowMap' \in [Flows -> Gen \cup {0}]
    BY <1>1, <1>2 DEF MasterTypeOK
  <2>6. uploads' \in 0 .. MaxUploads
    BY <1>1, <1>2 DEF Gen
  <2> QED
    BY <2>1, <2>2, <2>3, <2>4, <2>5, <2>6, <1>1, <1>2 DEF MasterTypeOK
<1>13. ASSUME NEW f \in runnable
       PROVE  /\ StartOf(<<f, u>>, streamMap', uris', nodeNameToURITbl) \in Message
              /\ StartOf(<<f, u>>, streamMap', uris', nodeNameToURITbl).complete
  <2>1. f \in Flows /\ f \in W /\ FlowNodes[f] \subseteq Registered
    BY <1>1
  <2>2. f \in StartedIn(loaded)'
    BY <2>1, <1>1, <1>2 DEF StartedIn, fresh
  <2>3. <<f, streamMap'[f]>> \in loaded'
    BY <2>1, <2>2, <1>8 DEF MapsHoldLoaded
  <2>4. CanRun(<<f, streamMap'[f]>>, uris')
    BY <2>1, <2>3, <1>3, <1>5 DEF UrisFollowTable, CanRun
  <2>5. nodeNameToURITbl[FlowSink[f]] \in Host
    BY <2>1, <1>1 DEF MasterTypeOK
  <2>6. <<f, u>> \in FlowObject
    BY <2>1, <1>1 DEF FlowObject
  <2> QED
    BY <2>1, <2>4, <2>5, <2>6, FlowMessageTypes DEF StartOf
<1>14. starts \subseteq Message /\ \A m \in starts : m.complete
  <2> SUFFICES ASSUME NEW m \in starts
               PROVE  m \in Message /\ m.complete
    OBVIOUS
  <2>1. PICK f \in runnable : m = StartOf(<<f, u>>, streamMap', uris', nodeNameToURITbl)
    OBVIOUS
  <2> QED
    BY <2>1, <1>13
<1>15. creates \subseteq Message /\ \A m \in creates : m.type = "create"
  <2>1. ASSUME NEW n \in Nodes
        PROVE  nodeContainerTbl[NodeLabel[n]] \in Host
    BY <1>1 DEF MasterTypeOK
  <2>2. nodesToInstantiate' \subseteq Nodes
    BY <1>12 DEF MasterTypeOK
  <2> QED
    BY <2>1, <2>2, MessageTypes DEF CreateRequest
<1>16. BusTypeOK' /\ OnlyCompleteFlowsAreSent'
  <2> HIDE DEF starts, creates
  <2> QED
    BY <1>2, <1>14, <1>15, ExchangeComplete DEF IInv, TypeOK
<1>17. ContainerTypeOK'
  BY DEF IInv, TypeOK, ContainerTypeOK, containerVars
<1> QED
  BY <1>5, <1>7, <1>8, <1>9, <1>10, <1>11, <1>12, <1>16, <1>17
     DEF IInv, TypeOK, TablesOK

(* Every step keeps the invariant. *)
LEMMA NextIInv == IInv /\ [Next]_vars => IInv'
<1> SUFFICES ASSUME IInv, [Next]_vars
             PROVE  IInv'
  OBVIOUS
<1>1. CASE MasterStep
  BY <1>1, RegisterNodeContainerIInv, PutNodeContainerIInv, StartWorkConfigIInv, RegisterNodeIInv,
     ResetSimulationIInv, StopWorkConfigIInv, StopFlowIInv
     DEF MasterStep, MasterNext
<1>2. CASE ContainerStep
  BY <1>2, ContainerIInv
<1>3. CASE UNCHANGED vars
  <2>1. UNCHANGED busVars /\ UNCHANGED masterVars /\ UNCHANGED containerVars
    BY <1>3 DEF vars
  <2>2. TypeOK'
    BY <2>1 DEF IInv, TypeOK, BusTypeOK, MasterTypeOK, ContainerTypeOK, busVars,
                masterVars, containerVars
  <2>3. TablesOK'
    BY <2>1, TablesUnchanged DEF IInv, masterVars, tables
  <2>4. OnlyCompleteFlowsAreSent'
    BY <2>1 DEF IInv, OnlyCompleteFlowsAreSent, InFlight, busVars
  <2> QED
    BY <2>2, <2>3, <2>4 DEF IInv
<1> QED
  BY <1>1, <1>2, <1>3 DEF Next
-----------------------------------------------------------------------------
(* Where the nodes are, as long as nobody resets the simulation.             *)

\* Nothing deletes a node, and one that is about to register can be reached; a
\* node that was asked for has not registered.
NodesStay ==
    /\ resetTodo = {}
    /\ \A c \in Containers : ~InFlight(DeleteNodesMsg(c))
    /\ \A n \in Nodes, c \in Containers :
          InFlight(RegisterMsg(n, c)) => <<c, n>> \in listening
    /\ \A n \in Registered : <<nodeNameToURITbl[n], n>> \in listening
    /\ \A n \in nodesToInstantiate : n \notin Registered

\* A node that its container has, and will not create again, is registered or
\* about to be.
MadeNodesRegister ==
    \A c \in Containers, n \in Nodes :
        <<c, n>> \in nodeMap \/ announced[<<c, n>>] > 0 =>
            n \in Registered \/ InFlight(RegisterMsg(n, c))

\* What NoRequestIsForgotten says of the nodes that were asked for.
AskedNodesAreOnTheirWay ==
    \A n \in nodesToInstantiate :
        \/ CreateMsg(n, NoURI) \in deadLetters
        \/ \E c \in Containers : \/ InFlight(CreateMsg(n, c))
                                 \/ checked[<<c, n>>] > 0
                                 \/ InFlight(RegisterMsg(n, c))

PlaceInv == resets = 0 => NodesStay /\ MadeNodesRegister /\ AskedNodesAreOnTheirWay

(* Messages of different kinds, and of one kind about different nodes or
   containers, are different. *)
LEMMA MessageFields ==
    /\ \A n \in Nodes, c \in Host : LET m == CreateMsg(n, c) IN
          m.node = n /\ m.to = c /\ "to" \in DOMAIN m
    /\ \A n \in Nodes, c \in Containers : LET m == RegisterMsg(n, c) IN
          m.node = n /\ m.from = c /\ "to" \notin DOMAIN m
    /\ \A c \in Containers : DeleteNodesMsg(c).to = c
    /\ \A o \in FlowObject, c \in Host, b \in BOOLEAN : StartMsg(o, c, b).type = "start"
    /\ \A f \in Flows, c \in Host, b \in BOOLEAN : StopMsg(f, c, b).type = "stop"
BY DEF CreateMsg, RegisterMsg, DeleteNodesMsg, StartMsg, StopMsg

(* A message stays in flight unless it is consumed; one that is sent and can be
   delivered is in flight, the others are dead letters. *)
LEMMA ExchangeKeeps ==
    ASSUME BusTypeOK, NEW In \in SUBSET Message, NEW Out \in SUBSET Message,
           Exchange(In, Out), NEW m \in Message
    PROVE  /\ InFlight(m) /\ m \notin In => InFlight(m)'
           /\ m \in Out /\ m \notin In =>
                 InFlight(m)' \/ (m \in deadLetters' /\ m \in Undeliverable(Out))
           /\ m \in deadLetters => m \in deadLetters'
<1>1. bus[m] \in Nat
  BY DEF BusTypeOK
<1>2. bus'[m] = (bus[m] + (IF m \in Out \ Undeliverable(Out) THEN 1 ELSE 0))
                    - (IF m \in In THEN 1 ELSE 0)
  BY DEF Exchange
<1>3. deadLetters' = deadLetters \cup Undeliverable(Out)
  BY DEF Exchange
<1> QED
  BY <1>1, <1>2, <1>3 DEF InFlight

(* What PlaceInv speaks of, beside messages. *)
placeVars == <<resetTodo, listening, nodeNameToURITbl, nodeMap, announced, checked,
               nodesToInstantiate>>

(* A step that changes nothing of it. *)
LEMMA PlaceUnchanged ==
    ASSUME PlaceInv, UNCHANGED <<placeVars, busVars>>, resets' = resets
    PROVE  PlaceInv'
BY DEF PlaceInv, placeVars, busVars, NodesStay, MadeNodesRegister,
       AskedNodesAreOnTheirWay, InFlight, Registered

(* A handler that has nothing to do with nodes keeps the invariant. *)
LEMMA OtherMessagesPlace ==
    ASSUME IInv, PlaceInv, UNCHANGED placeVars, resets' = resets,
           NEW In \in SUBSET Message, \A m \in In : InFlight(m),
           NEW Out \in SUBSET Message, Exchange(In, Out),
           \A m \in In \cup Out : m.type \in {"registerContainer", "start", "stop"}
    PROVE  PlaceInv'
<1> SUFFICES ASSUME resets = 0
             PROVE  NodesStay' /\ MadeNodesRegister' /\ AskedNodesAreOnTheirWay'
  BY DEF PlaceInv
<1>1. NodesStay /\ MadeNodesRegister /\ AskedNodesAreOnTheirWay /\ BusTypeOK
  BY DEF PlaceInv, IInv, TypeOK
<1>2. UNCHANGED Registered
  BY DEF placeVars, Registered
<1>3. \A n \in Nodes, c \in Host : CreateMsg(n, c) \notin In
  BY MessageTypes
<1>4. \A n \in Nodes, c \in Containers : RegisterMsg(n, c) \notin In \cup Out
  BY MessageTypes
<1>5. \A c \in Containers : DeleteNodesMsg(c) \notin Out
  BY MessageTypes
<1>6. \A m \in Message : /\ InFlight(m)' => InFlight(m) \/ m \in Out
                         /\ InFlight(m) /\ m \notin In => InFlight(m)'
                         /\ m \in deadLetters => m \in deadLetters'
  BY <1>1, ExchangeBus, ExchangeKeeps
<1>7. NodesStay'
  BY <1>1, <1>2, <1>4, <1>5, <1>6, MessageTypes DEF NodesStay, placeVars
<1>8. MadeNodesRegister'
  BY <1>1, <1>2, <1>4, <1>6, MessageTypes DEF MadeNodesRegister, placeVars
<1>9. AskedNodesAreOnTheirWay'
  <2>1. nodesToInstantiate \subseteq Nodes /\ NoURI \in Host /\ Containers \subseteq Host
    BY DEF IInv, TypeOK, MasterTypeOK, Host
  <2> QED
    BY <1>1, <1>3, <1>4, <1>6, <2>1, MessageTypes DEF AskedNodesAreOnTheirWay, placeVars
<1> QED
  BY <1>7, <1>8, <1>9

(* The handlers of the Master. *)
LEMMA MasterPlace ==
    ASSUME IInv, PlaceInv, MasterStep
    PROVE  PlaceInv'
<1> USE TopologyAssumption
<1>0. /\ BusTypeOK /\ MasterTypeOK /\ MasterTypeOK' /\ UNCHANGED containerVars
      /\ nodesToInstantiate \subseteq Nodes /\ nodesToInstantiate' \subseteq Nodes
      /\ NoURI \in Host /\ Containers \subseteq Host
  <2>1. IInv'
    BY NextIInv DEF Next
  <2> QED
    BY <2>1 DEF IInv, TypeOK, MasterStep, MasterTypeOK, Host
<1>1. ASSUME NEW c \in Containers, RegisterNodeContainer(c)
      PROVE  PlaceInv'
  <2> DEFINE m == RegisterContainerMsg(c)
  <2>1. m \in Message /\ m.type = "registerContainer" /\ InFlight(m)
    BY <1>1, MessageTypes DEF RegisterNodeContainer
  <2>2. Exchange({m}, {}) /\ UNCHANGED placeVars /\ resets' = resets
    BY <1>0, <1>1 DEF RegisterNodeContainer, placeVars, containerVars
  <2> HIDE DEF m
  <2> QED
    BY <2>1, <2>2, OtherMessagesPlace
<1>2. ASSUME NEW W \in WorkConfigs, StartWorkConfig(W)
      PROVE  PlaceInv'
  <2> DEFINE u == uploads + 1
             runnable == {f \in W : FlowNodes[f] \ Registered = {}}
             starts == {StartOf(<<f, u>>, streamMap', uris', nodeNameToURITbl)
                          : f \in runnable}
             creates == {CreateRequest(n) : n \in nodesToInstantiate'}
  <2> SUFFICES ASSUME resets = 0
               PROVE  NodesStay' /\ MadeNodesRegister' /\ AskedNodesAreOnTheirWay'
    BY <1>2 DEF PlaceInv, StartWorkConfig
  <2>1. NodesStay /\ MadeNodesRegister
    BY DEF PlaceInv
  <2>2. W \subseteq Flows /\ u \in Gen
    BY <1>0, <1>2, RequestAssumption DEF MasterTypeOK, StartWorkConfig, Gen
  <2>3. starts \subseteq Message /\ \A m \in starts : m.type = "start"
    <3> SUFFICES ASSUME NEW f \in runnable
                 PROVE  /\ StartOf(<<f, u>>, streamMap', uris', nodeNameToURITbl) \in Message
                        /\ StartOf(<<f, u>>, streamMap', uris', nodeNameToURITbl).type = "start"
      OBVIOUS
    <3>1. <<f, u>> \in FlowObject /\ f \in Flows
      BY <2>2 DEF FlowObject
    <3>2. nodeNameToURITbl[FlowSink[f]] \in Host
      BY <1>0, <3>1 DEF MasterTypeOK
    <3>3. CanRun(<<f, streamMap'[f]>>, uris') \in BOOLEAN
      BY DEF CanRun
    <3> HIDE DEF u
    <3> QED
      BY <3>1, <3>2, <3>3, FlowMessageTypes, MessageFields DEF StartOf
  <2>4. \A n \in nodesToInstantiate' : \E c \in Host : CreateRequest(n) = CreateMsg(n, c)
    BY <1>0 DEF CreateRequest, MasterTypeOK
  <2>5. creates \subseteq Message /\ \A m \in creates : m.type = "create"
    BY <1>0, <2>4, MessageTypes
  <2>6. Exchange({}, starts \cup creates)
    BY <1>2 DEF StartWorkConfig
  <2>7. UNCHANGED <<resetTodo, listening, nodeNameToURITbl, nodeMap, announced, checked>>
    BY <1>0, <1>2 DEF StartWorkConfig, containerVars
  <2> HIDE DEF starts, runnable, u
  <2>8. \A m \in Message : /\ InFlight(m)' => InFlight(m) \/ m \in starts \cup creates
                           /\ InFlight(m) => InFlight(m)'
                           /\ m \in creates => InFlight(m)' \/
                                 (m \in deadLetters' /\ m \in Undeliverable(starts \cup creates))
    <3> DEFINE Sent == starts \cup creates
    <3>1. {} \in SUBSET Message /\ Sent \in SUBSET Message /\ Exchange({}, Sent)
      BY <2>3, <2>5, <2>6
    <3>2. creates \subseteq Sent
      OBVIOUS
    <3> HIDE DEF Sent, creates
    <3>3. \A m \in Message : InFlight(m)' => InFlight(m) \/ m \in Sent
      BY <1>0, <3>1, ExchangeBus
    <3>4. \A m \in Message :
             /\ InFlight(m) /\ m \notin {} => InFlight(m)'
             /\ m \in Sent /\ m \notin {} =>
                   InFlight(m)' \/ (m \in deadLetters' /\ m \in Undeliverable(Sent))
      BY <1>0, <3>1, ExchangeKeeps
    <3> QED
      BY <3>2, <3>3, <3>4 DEF Sent
  <2>9. NodesStay'
    <3>1. UNCHANGED Registered
      BY <2>7 DEF Registered
    <3>2. /\ \A n \in Nodes, c \in Containers : RegisterMsg(n, c) \notin starts \cup creates
          /\ \A c \in Containers : DeleteNodesMsg(c) \notin starts \cup creates
      BY <2>3, <2>5, MessageTypes
    <3> HIDE DEF creates
    <3>3. /\ \A n \in Nodes, c \in Containers :
                InFlight(RegisterMsg(n, c))' => InFlight(RegisterMsg(n, c))
          /\ \A c \in Containers : InFlight(DeleteNodesMsg(c))' => InFlight(DeleteNodesMsg(c))
      BY <2>8, <3>2, MessageTypes
    <3>4. resetTodo' = {}
      BY <2>1, <2>7 DEF NodesStay
    <3>5. \A n \in Registered' : <<nodeNameToURITbl'[n], n>> \in listening'
      BY <2>1, <2>7, <3>1 DEF NodesStay
    <3>6. \A n \in nodesToInstantiate' : n \notin Registered'
      BY <1>2, <2>1, <3>1 DEF NodesStay, StartWorkConfig
    <3>7. listening' = listening
      BY <2>7
    <3> QED
      BY <2>1, <3>3, <3>4, <3>5, <3>6, <3>7 DEF NodesStay
  <2>10. MadeNodesRegister'
    <3>1. UNCHANGED Registered
      BY <2>7 DEF Registered
    <3> QED
      BY <2>1, <2>7, <2>8, <3>1, MessageTypes DEF MadeNodesRegister
  <2>11. AskedNodesAreOnTheirWay'
    <3> SUFFICES ASSUME NEW n \in nodesToInstantiate'
                 PROVE  \/ CreateMsg(n, NoURI) \in deadLetters'
                        \/ \E c \in Containers : InFlight(CreateMsg(n, c))'
      BY DEF AskedNodesAreOnTheirWay
    <3>1. PICK c \in Host : CreateRequest(n) = CreateMsg(n, c)
      BY <2>4
    <3>2. CreateMsg(n, c) \in creates /\ CreateMsg(n, c) \in Message /\ CreateMsg(n, c).to = c
      BY <1>0, <3>1, MessageTypes, MessageFields
    <3>3. CASE c = NoURI
      <4>1. CreateMsg(n, c) \in Undeliverable(starts \cup creates)
        BY <1>0, <3>2, <3>3, MessageFields DEF Undeliverable
      <4>2. deadLetters' = deadLetters \cup Undeliverable(starts \cup creates)
        BY <2>6 DEF Exchange
      <4> QED
        BY <3>3, <4>1, <4>2
    <3>4. CASE c \in Containers
      <4>1. CreateMsg(n, c) \notin Undeliverable(starts \cup creates)
        BY <3>2, <3>4 DEF Undeliverable
      <4> QED
        BY <2>8, <3>2, <3>4, <4>1
    <3> QED
      BY <3>3, <3>4 DEF Host
  <2> QED
    BY <2>9, <2>10, <2>11
<1>3. ASSUME NEW n \in Nodes, NEW c \in Containers, RegisterNode(n, c)
      PROVE  PlaceInv'
  <2> DEFINE runnable == {o \in nodeToFlows[n] : CanRun(o, uris')}
             Out == {StartOf(o, streamMap, uris', nodeNameToURITbl') : o \in runnable}
             m == RegisterMsg(n, c)
  <2> SUFFICES ASSUME resets = 0
               PROVE  NodesStay' /\ MadeNodesRegister' /\ AskedNodesAreOnTheirWay'
    BY <1>3 DEF PlaceInv, RegisterNode
  <2>1. NodesStay /\ MadeNodesRegister /\ AskedNodesAreOnTheirWay
    BY DEF PlaceInv
  <2>2. Out \subseteq Message /\ \A x \in Out : x.type = "start"
    <3> SUFFICES ASSUME NEW o \in runnable
                 PROVE  /\ StartOf(o, streamMap, uris', nodeNameToURITbl') \in Message
                        /\ StartOf(o, streamMap, uris', nodeNameToURITbl').type = "start"
      OBVIOUS
    <3>1. o \in FlowObject /\ o[1] \in Flows
      BY <1>0 DEF MasterTypeOK, FlowObject
    <3>2. nodeNameToURITbl'[FlowSink[o[1]]] \in Host
      BY <1>0, <3>1 DEF MasterTypeOK
    <3>3. CanRun(<<o[1], streamMap[o[1]]>>, uris') \in BOOLEAN
      BY DEF CanRun
    <3> QED
      BY <3>1, <3>2, <3>3, FlowMessageTypes, MessageFields DEF StartOf
  <2>3. m \in Message /\ InFlight(m) /\ Exchange({m}, Out)
    BY <1>3, MessageTypes DEF RegisterNode
  <2>4. /\ nodeNameToURITbl' = [nodeNameToURITbl EXCEPT ![n] = c]
        /\ nodesToInstantiate' = nodesToInstantiate \ {n}
        /\ UNCHANGED <<resetTodo, listening, nodeMap, announced, checked>>
    BY <1>0, <1>3 DEF RegisterNode, StillToInstantiate, containerVars
  <2> HIDE DEF Out
  <2>5. \A x \in Message : /\ InFlight(x)' => InFlight(x) \/ x \in Out
                           /\ InFlight(x) /\ x # m => InFlight(x)'
                           /\ x \in deadLetters => x \in deadLetters'
    <3> HIDE DEF m
    <3>1. {m} \in SUBSET Message /\ Out \in SUBSET Message /\ \A x \in {m} : InFlight(x)
      BY <2>2, <2>3
    <3>2. \A x \in Message : InFlight(x)' => InFlight(x) \/ x \in Out
      BY <1>0, <2>3, <3>1, ExchangeBus
    <3>3. \A x \in Message : /\ InFlight(x) /\ x \notin {m} => InFlight(x)'
                             /\ x \in deadLetters => x \in deadLetters'
      BY <1>0, <2>3, <3>1, ExchangeKeeps
    <3> QED
      BY <3>2, <3>3
  <2>6. Registered' = Registered \cup {n}
    <3>1. c # NoURI
      OBVIOUS
    <3> QED
      BY <1>0, <2>4, <3>1 DEF Registered, MasterTypeOK
  <2>7. \A k \in Nodes, d \in Containers : /\ RegisterMsg(k, d) = m => k = n
                                           /\ CreateMsg(k, d) # m
                                           /\ RegisterMsg(k, d) \notin Out
                                           /\ DeleteNodesMsg(d) \notin Out
    BY <1>0, <2>2, MessageTypes, MessageFields
  <2>8. NodesStay'
    <3>1. <<c, n>> \in listening
      BY <2>1, <2>3 DEF NodesStay
    <3>2. ASSUME NEW k \in Registered \cup {n}
          PROVE  <<nodeNameToURITbl'[k], k>> \in listening'
      <4>1. nodeNameToURITbl \in [Nodes -> Host] /\ k \in Nodes
        BY <1>0 DEF MasterTypeOK, Registered
      <4>2. nodeNameToURITbl'[k] = IF k = n THEN c ELSE nodeNameToURITbl[k]
        BY <2>4, <4>1
      <4>3. k # n => <<nodeNameToURITbl[k], k>> \in listening
        BY <2>1, <2>6 DEF NodesStay
      <4> QED
        BY <2>4, <3>1, <4>2, <4>3
    <3>3. \A k \in nodesToInstantiate' : k \notin Registered'
      BY <1>0, <2>1, <2>4, <2>6 DEF NodesStay
    <3>4. resetTodo' = {} /\ listening' = listening
      BY <2>1, <2>4 DEF NodesStay
    <3> QED
      BY <2>1, <2>5, <2>6, <2>7, <3>2, <3>3, <3>4, MessageTypes DEF NodesStay
  <2>9. MadeNodesRegister'
    BY <2>1, <2>4, <2>5, <2>6, <2>7, MessageTypes DEF MadeNodesRegister
  <2>10. AskedNodesAreOnTheirWay'
    <3> SUFFICES ASSUME NEW k \in nodesToInstantiate, k # n
                 PROVE  \/ CreateMsg(k, NoURI) \in deadLetters'
                        \/ \E d \in Containers : \/ InFlight(CreateMsg(k, d))'
                                                 \/ checked'[<<d, k>>] > 0
                                                 \/ InFlight(RegisterMsg(k, d))'
      BY <2>4 DEF AskedNodesAreOnTheirWay
    <3>1. k \in Nodes
      BY <1>0
    <3> QED
      BY <1>0, <2>1, <2>4, <2>5, <2>7, <3>1, MessageTypes DEF AskedNodesAreOnTheirWay
  <2> QED
    BY <2>8, <2>9, <2>10
<1>4. ASSUME ResetSimulation
      PROVE  PlaceInv'
  <2>1. resets' # 0
    <3>1. resets \in Nat
      BY <1>0, RequestAssumption DEF MasterTypeOK
    <3> QED
      BY <1>4, <3>1 DEF ResetSimulation
  <2> QED
    BY <2>1 DEF PlaceInv
<1>5. ASSUME NEW W \in WorkConfigs, StopWorkConfig(W)
      PROVE  PlaceInv'
  <2>1. UNCHANGED <<placeVars, busVars>> /\ resets' = resets
    BY <1>0, <1>5 DEF StopWorkConfig, placeVars, containerVars
  <2> QED
    BY <2>1, PlaceUnchanged
<1>6. ASSUME NEW f \in Flows, StopFlow(f)
      PROVE  PlaceInv'
  <2>1. UNCHANGED placeVars /\ resets' = resets
    BY <1>0, <1>6 DEF StopFlow, placeVars, containerVars
  <2>2. CASE UNCHANGED busVars
    BY <2>1, <2>2, PlaceUnchanged
  <2>3. CASE Exchange({}, {StopOf(f)})
    <3>1. nodeNameToURITbl[FlowSink[f]] \in Host
      BY <1>0 DEF MasterTypeOK
    <3>2. CanRun(<<f, runningFlowMap[f]>>, uris) \in BOOLEAN
      BY DEF CanRun
    <3>3. StopOf(f) \in Message /\ StopOf(f).type = "stop"
      BY <3>1, <3>2, FlowMessageTypes, MessageFields DEF StopOf
    <3> QED
      BY <2>1, <2>3, <3>3, OtherMessagesPlace
  <2> QED
    BY <1>6, <2>2, <2>3 DEF StopFlow
<1>7. ASSUME NEW c \in Containers, PutNodeContainer(c)
      PROVE  PlaceInv'
  <2>1. UNCHANGED <<placeVars, busVars>> /\ resets' = resets
    BY <1>0, <1>7 DEF PutNodeContainer, placeVars, containerVars
  <2> QED
    BY <2>1, PlaceUnchanged
<1> QED
  BY <1>1, <1>2, <1>3, <1>4, <1>5, <1>6, <1>7 DEF MasterStep, MasterNext

(* The handlers of the containers. *)
LEMMA ContainerPlace ==
    ASSUME IInv, PlaceInv, ContainerStep
    PROVE  PlaceInv'
<1> USE TopologyAssumption
<1>0. /\ BusTypeOK /\ ContainerTypeOK /\ ContainerTypeOK'
      /\ nodesToInstantiate \subseteq Nodes /\ Containers \subseteq Host /\ NoURI \in Host
      /\ UNCHANGED <<nodeNameToURITbl, nodesToInstantiate, resets>> /\ UNCHANGED Registered
  <2>1. IInv'
    BY NextIInv DEF Next
  <2> QED
    BY <2>1 DEF IInv, TypeOK, ContainerStep, MasterTypeOK, Host, masterVars, Registered
<1>1. ASSUME NEW c \in Containers, Connect(c)
      PROVE  PlaceInv'
  <2> DEFINE Out == {RegisterContainerMsg(c)}
  <2>1. Out \in SUBSET Message /\ {} \in SUBSET Message
        /\ \A m \in {} \cup Out : m.type = "registerContainer"
    BY MessageTypes
  <2>2. Exchange({}, Out) /\ UNCHANGED placeVars /\ resets' = resets
    BY <1>0, <1>1 DEF Connect, placeVars
  <2> HIDE DEF Out
  <2> QED
    BY <2>1, <2>2, OtherMessagesPlace
<1>2. ASSUME NEW p \in Place, CheckNode(p)
      PROVE  PlaceInv'
  <2> DEFINE m == CreateMsg(p[2], p[1])
  <2> SUFFICES ASSUME resets = 0
               PROVE  NodesStay' /\ MadeNodesRegister' /\ AskedNodesAreOnTheirWay'
    BY <1>0 DEF PlaceInv
  <2>1. NodesStay /\ MadeNodesRegister /\ AskedNodesAreOnTheirWay
    BY DEF PlaceInv
  <2>2. p[1] \in Containers /\ p[2] \in Nodes /\ p = <<p[1], p[2]>>
    BY DEF Place
  <2>3. m \in Message /\ m.type = "create" /\ InFlight(m) /\ Exchange({m}, {})
    BY <1>0, <1>2, <2>2, MessageTypes DEF CheckNode
  <2>4. /\ UNCHANGED <<nodeMap, announced, listening, resetTodo>>
        /\ checked' = IF p \in nodeMap THEN checked ELSE [checked EXCEPT ![p] = @ + 1]
    BY <1>2 DEF CheckNode
  <2>5. \A k \in Nodes, d \in Containers : CreateMsg(k, d) = m => k = p[2] /\ d = p[1]
    BY <1>0, <2>2, MessageFields
  <2> HIDE DEF m
  <2>6. \A x \in Message : /\ InFlight(x)' => InFlight(x)
                           /\ InFlight(x) /\ x # m => InFlight(x)'
                           /\ x \in deadLetters => x \in deadLetters'
    <3>1. {m} \in SUBSET Message /\ {} \in SUBSET Message /\ \A x \in {m} : InFlight(x)
      BY <2>3
    <3>2. \A x \in Message : InFlight(x)' => InFlight(x) \/ x \in {}
      BY <1>0, <2>3, <3>1, ExchangeBus
    <3>3. \A x \in Message : /\ InFlight(x) /\ x \notin {m} => InFlight(x)'
                             /\ x \in deadLetters => x \in deadLetters'
      BY <1>0, <2>3, <3>1, ExchangeKeeps
    <3> QED
      BY <3>2, <3>3
  <2>7. \A k \in Nodes, d \in Containers : RegisterMsg(k, d) \in Message /\ RegisterMsg(k, d) # m
    BY <2>3, MessageTypes
  <2>8. NodesStay'
    <3>1. \A c \in Containers : DeleteNodesMsg(c) \in Message
      BY MessageTypes
    <3>2. resetTodo' = resetTodo /\ listening' = listening
      BY <2>4
    <3> QED
      BY <1>0, <2>1, <2>6, <2>7, <3>1, <3>2 DEF NodesStay
  <2>9. MadeNodesRegister'
    BY <1>0, <2>1, <2>4, <2>6, <2>7 DEF MadeNodesRegister
  <2>10. AskedNodesAreOnTheirWay'
    <3> SUFFICES ASSUME NEW k \in nodesToInstantiate
                 PROVE  \/ CreateMsg(k, NoURI) \in deadLetters'
                        \/ \E d \in Containers : \/ InFlight(CreateMsg(k, d))'
                                                 \/ checked'[<<d, k>>] > 0
                                                 \/ InFlight(RegisterMsg(k, d))'
      BY <1>0 DEF AskedNodesAreOnTheirWay
    <3>1. k \in Nodes /\ k \notin Registered
      BY <1>0, <2>1 DEF NodesStay
    <3>2. CASE CreateMsg(k, NoURI) \in deadLetters
      BY <1>0, <2>6, <3>1, <3>2, MessageTypes
    <3>3. ASSUME NEW d \in Containers, InFlight(CreateMsg(k, d))
          PROVE  \/ InFlight(CreateMsg(k, d))'
                 \/ checked'[<<d, k>>] > 0
                 \/ InFlight(RegisterMsg(k, d))'
      <4>1. CASE CreateMsg(k, d) # m
        BY <1>0, <2>6, <3>1, <3>3, <4>1, MessageTypes
      <4>2. CASE CreateMsg(k, d) = m
        <5>1. p = <<d, k>>
          BY <2>2, <2>5, <3>1, <4>2
        <5>2. CASE p \in nodeMap
          BY <2>1, <2>6, <2>7, <3>1, <5>1, <5>2 DEF MadeNodesRegister
        <5>3. CASE p \notin nodeMap
          <6>1. checked' = [checked EXCEPT ![p] = @ + 1] /\ checked \in [Place -> Nat]
            BY <1>0, <2>4, <5>3 DEF ContainerTypeOK
          <6>2. checked'[p] = checked[p] + 1 /\ checked[p] \in Nat
            BY <6>1
          <6> QED
            BY <5>1, <6>2
        <5> QED
          BY <5>2, <5>3
      <4> QED
        BY <4>1, <4>2
    <3>4. ASSUME NEW d \in Containers, checked[<<d, k>>] > 0
          PROVE  checked'[<<d, k>>] > 0
      <4>1. checked \in [Place -> Nat] /\ <<d, k>> \in Place
        BY <1>0, <3>1 DEF ContainerTypeOK, Place
      <4> QED
        BY <2>4, <3>4, <4>1
    <3>5. \A d \in Containers : InFlight(RegisterMsg(k, d)) => InFlight(RegisterMsg(k, d))'
      BY <2>6, <2>7, <3>1
    <3> QED
      BY <2>1, <3>2, <3>3, <3>4, <3>5 DEF AskedNodesAreOnTheirWay
  <2> QED
    BY <2>8, <2>9, <2>10
<1>3. ASSUME NEW p \in Place, AnnounceNode(p)
      PROVE  PlaceInv'
  <2> DEFINE m == RegisterMsg(p[2], p[1])
  <2> SUFFICES ASSUME resets = 0
               PROVE  NodesStay' /\ MadeNodesRegister' /\ AskedNodesAreOnTheirWay'
    BY <1>0 DEF PlaceInv
  <2>1. NodesStay /\ MadeNodesRegister /\ AskedNodesAreOnTheirWay
    BY DEF PlaceInv
  <2>2. p[1] \in Containers /\ p[2] \in Nodes /\ p = <<p[1], p[2]>>
    BY DEF Place
  <2>3. m \in Message /\ m.type = "register" /\ "to" \notin DOMAIN m /\ Exchange({}, {m})
    BY <1>3, <2>2, MessageTypes, MessageFields DEF AnnounceNode
  <2>4. /\ UNCHANGED <<nodeMap, resetTodo>>
        /\ listening' = listening \cup {p}
        /\ checked' = [checked EXCEPT ![p] = @ - 1]
        /\ announced' = [announced EXCEPT ![p] = @ + 1]
    BY <1>3 DEF AnnounceNode
  <2>5. \A k \in Nodes, d \in Containers : RegisterMsg(k, d) = m => k = p[2] /\ d = p[1]
    BY <2>2, MessageFields
  <2> HIDE DEF m
  <2>6. /\ \A x \in Message : /\ InFlight(x)' => InFlight(x) \/ x = m
                              /\ InFlight(x) => InFlight(x)'
                              /\ x \in deadLetters => x \in deadLetters'
        /\ InFlight(m)'
    <3>1. {m} \in SUBSET Message /\ {} \in SUBSET Message /\ \A x \in {} : InFlight(x)
      BY <2>3
    <3>2. \A x \in Message : InFlight(x)' => InFlight(x) \/ x \in {m}
      BY <1>0, <2>3, <3>1, ExchangeBus
    <3>3. \A x \in Message : /\ InFlight(x) /\ x \notin {} => InFlight(x)'
                             /\ x \in {m} /\ x \notin {} => InFlight(x)' \/ x \in Undeliverable({m})
                             /\ x \in deadLetters => x \in deadLetters'
      BY <1>0, <2>3, <3>1, ExchangeKeeps
    <3>4. m \notin Undeliverable({m})
      BY <2>3 DEF Undeliverable
    <3> QED
      BY <2>3, <3>2, <3>3, <3>4
  <2>7. \A k \in Nodes, d \in Containers : /\ RegisterMsg(k, d) \in Message
                                           /\ CreateMsg(k, d) \in Message
                                           /\ CreateMsg(k, NoURI) \in Message
                                           /\ DeleteNodesMsg(d) \in Message
                                           /\ DeleteNodesMsg(d) # m
    BY <1>0, <2>3, MessageTypes
  <2>8. NodesStay'
    <3>1. resetTodo' = resetTodo /\ p \in listening' /\ \A q \in listening : q \in listening'
      BY <2>4
    <3>2. \A k \in Nodes, d \in Containers :
             InFlight(RegisterMsg(k, d))' => <<d, k>> \in listening'
      <4> SUFFICES ASSUME NEW k \in Nodes, NEW d \in Containers, InFlight(RegisterMsg(k, d))'
                   PROVE  <<d, k>> \in listening'
        OBVIOUS
      <4>1. CASE RegisterMsg(k, d) = m
        <5>1. <<d, k>> = p
          BY <2>2, <2>5, <4>1
        <5> QED
          BY <3>1, <5>1
      <4>2. CASE InFlight(RegisterMsg(k, d))
        BY <2>1, <3>1, <4>2 DEF NodesStay
      <4> QED
        BY <2>6, <2>7, <4>1, <4>2
    <3>3. \A c \in Containers : ~InFlight(DeleteNodesMsg(c))'
      BY <2>1, <2>2, <2>6, <2>7 DEF NodesStay
    <3>4. \A k \in Registered' : <<nodeNameToURITbl'[k], k>> \in listening'
      BY <1>0, <2>1, <3>1 DEF NodesStay
    <3> QED
      BY <1>0, <2>1, <3>1, <3>2, <3>3, <3>4 DEF NodesStay
  <2>9. MadeNodesRegister'
    <3> SUFFICES ASSUME NEW c \in Containers, NEW n \in Nodes,
                        <<c, n>> \in nodeMap' \/ announced'[<<c, n>>] > 0
                 PROVE  n \in Registered' \/ InFlight(RegisterMsg(n, c))'
      BY DEF MadeNodesRegister
    <3>1. CASE <<c, n>> = p
      <4>1. RegisterMsg(n, c) = m
        BY <3>1 DEF m
      <4> QED
        BY <2>6, <4>1
    <3>2. CASE <<c, n>> # p
      <4>1. announced \in [Place -> Nat] /\ <<c, n>> \in Place
        BY <1>0 DEF ContainerTypeOK, Place
      <4>2. announced'[<<c, n>>] = announced[<<c, n>>] /\ nodeMap' = nodeMap
        BY <2>4, <3>2, <4>1
      <4> QED
        BY <1>0, <2>1, <2>6, <2>7, <4>2 DEF MadeNodesRegister
    <3> QED
      BY <3>1, <3>2
  <2>10. AskedNodesAreOnTheirWay'
    <3> SUFFICES ASSUME NEW k \in nodesToInstantiate
                 PROVE  \/ CreateMsg(k, NoURI) \in deadLetters'
                        \/ \E d \in Containers : \/ InFlight(CreateMsg(k, d))'
                                                 \/ checked'[<<d, k>>] > 0
                                                 \/ InFlight(RegisterMsg(k, d))'
      BY <1>0 DEF AskedNodesAreOnTheirWay
    <3>1. k \in Nodes
      BY <1>0
    <3>2. \A d \in Containers : checked[<<d, k>>] > 0 =>
             checked'[<<d, k>>] > 0 \/ InFlight(RegisterMsg(k, d))'
      <4> SUFFICES ASSUME NEW d \in Containers, checked[<<d, k>>] > 0
                   PROVE  checked'[<<d, k>>] > 0 \/ InFlight(RegisterMsg(k, d))'
        OBVIOUS
      <4>1. CASE <<d, k>> = p
        <5>1. RegisterMsg(k, d) = m
          BY <4>1 DEF m
        <5> QED
          BY <2>6, <5>1
      <4>2. CASE <<d, k>> # p
        <5>1. checked \in [Place -> Nat] /\ <<d, k>> \in Place
          BY <1>0, <3>1 DEF ContainerTypeOK, Place
        <5> QED
          BY <2>4, <4>2, <5>1
      <4> QED
        BY <4>1, <4>2
    <3>3. \A d \in Containers : /\ InFlight(CreateMsg(k, d)) => InFlight(CreateMsg(k, d))'
                                /\ InFlight(RegisterMsg(k, d)) => InFlight(RegisterMsg(k, d))'
      BY <2>6, <2>7, <3>1
    <3>4. CreateMsg(k, NoURI) \in deadLetters => CreateMsg(k, NoURI) \in deadLetters'
      BY <1>0, <2>6, <3>1, MessageTypes
    <3> QED
      BY <2>1, <3>2, <3>3, <3>4 DEF AskedNodesAreOnTheirWay
  <2> QED
    BY <2>8, <2>9, <2>10
<1>4. ASSUME NEW p \in Place, PutNode(p)
      PROVE  PlaceInv'
  <2> SUFFICES ASSUME resets = 0
               PROVE  NodesStay' /\ MadeNodesRegister' /\ AskedNodesAreOnTheirWay'
    BY <1>0 DEF PlaceInv
  <2>1. NodesStay /\ MadeNodesRegister /\ AskedNodesAreOnTheirWay
    BY DEF PlaceInv
  <2>2. /\ announced[p] > 0 /\ announced' = [announced EXCEPT ![p] = @ - 1]
        /\ nodeMap' = nodeMap \cup {p}
        /\ UNCHANGED <<bus, deadLetters, checked, listening>>
    BY <1>4 DEF PutNode, busVars
  <2>3. resetTodo' = {}
    BY <1>4, <2>1 DEF PutNode, NodesStay
  <2>4. NodesStay'
    BY <1>0, <2>1, <2>2, <2>3 DEF NodesStay, InFlight
  <2>5. MadeNodesRegister'
    <3> SUFFICES ASSUME NEW c \in Containers, NEW n \in Nodes,
                        <<c, n>> \in nodeMap' \/ announced'[<<c, n>>] > 0
                 PROVE  <<c, n>> \in nodeMap \/ announced[<<c, n>>] > 0
      BY <1>0, <2>1, <2>2 DEF MadeNodesRegister, InFlight
    <3>1. announced \in [Place -> Nat] /\ <<c, n>> \in Place
      BY <1>0 DEF ContainerTypeOK, Place
    <3> QED
      BY <2>2, <3>1
  <2>6. AskedNodesAreOnTheirWay'
    BY <1>0, <2>1, <2>2 DEF AskedNodesAreOnTheirWay, InFlight
  <2> QED
    BY <2>4, <2>5, <2>6
<1>5. ASSUME NEW c \in Containers, BeginReset(c)
      PROVE  PlaceInv'
  BY <1>0, <1>5 DEF PlaceInv, NodesStay, BeginReset
<1>6. ASSUME NEW p \in Place, ResetNode(p)
      PROVE  PlaceInv'
  BY <1>0, <1>6 DEF PlaceInv, NodesStay, ResetNode
<1>7. ASSUME NEW o \in FlowObject, NEW c \in Host, NEW b \in BOOLEAN,
             ExecuteSinkTask(o, c, b)
      PROVE  PlaceInv'
  <2> DEFINE In == {StartMsg(o, c, b)}
  <2>1. /\ In \in SUBSET Message /\ {} \in SUBSET Message
        /\ \A m \in In : InFlight(m)
        /\ \A m \in In \cup {} : m.type = "start"
    BY <1>7, FlowMessageTypes, MessageFields DEF ExecuteSinkTask
  <2>2. Exchange(In, {}) /\ UNCHANGED placeVars /\ resets' = resets
    BY <1>0, <1>7 DEF ExecuteSinkTask, placeVars
  <2> HIDE DEF In
  <2> QED
    BY <2>1, <2>2, OtherMessagesPlace
<1>8. ASSUME NEW f \in Flows, NEW c \in Host, NEW b \in BOOLEAN,
             TerminateSinkTask(f, c, b)
      PROVE  PlaceInv'
  <2> DEFINE In == {StopMsg(f, c, b)}
  <2>1. /\ In \in SUBSET Message /\ {} \in SUBSET Message
        /\ \A m \in In : InFlight(m)
        /\ \A m \in In \cup {} : m.type = "stop"
    BY <1>8, FlowMessageTypes, MessageFields DEF TerminateSinkTask
  <2>2. Exchange(In, {}) /\ UNCHANGED placeVars /\ resets' = resets
    BY <1>0, <1>8 DEF TerminateSinkTask, placeVars
  <2> HIDE DEF In
  <2> QED
    BY <2>1, <2>2, OtherMessagesPlace
<1> QED
  BY <1>1, <1>2, <1>3, <1>4, <1>5, <1>6, <1>7, <1>8 DEF ContainerStep, ContainerNext

(* It holds before the first upload, and every step keeps it. *)
LEMMA InitPlace == Init => PlaceInv
<1> SUFFICES ASSUME Init
             PROVE  PlaceInv
  OBVIOUS
<1> USE TopologyAssumption DEF Init, BusInit, MasterInit, ContainerInit
<1>1. \A m \in Message : ~InFlight(m)
  BY DEF InFlight
<1>2. Registered = {}
  BY DEF Registered
<1>3. NodesStay
  BY <1>1, <1>2, MessageTypes DEF NodesStay
<1>4. MadeNodesRegister
  BY DEF MadeNodesRegister, Place
<1>5. AskedNodesAreOnTheirWay
  BY DEF AskedNodesAreOnTheirWay
<1> QED
  BY <1>3, <1>4, <1>5 DEF PlaceInv

LEMMA NextPlace == IInv /\ PlaceInv /\ [Next]_vars => PlaceInv'
<1> SUFFICES ASSUME IInv, PlaceInv, [Next]_vars
             PROVE  PlaceInv'
  OBVIOUS
<1>1. CASE UNCHANGED vars
  <2>1. UNCHANGED <<placeVars, busVars>> /\ resets' = resets
    BY <1>1 DEF vars, masterVars, containerVars, placeVars
  <2> QED
    BY <2>1, PlaceUnchanged
<1> QED
  BY <1>1, MasterPlace, ContainerPlace DEF Next
-----------------------------------------------------------------------------
(* The invariant holds in every state of the deployment. *)
THEOREM DeploymentInvariant == Spec => []IInv
BY InitIInv, NextIInv, PTL DEF Spec

(* The variables of the bus, the Master and the containers keep their types; in
   particular no handler consumes a message that is not in flight. *)
THEOREM TypeCorrect == Spec => []TypeOK
<1>1. IInv => TypeOK
  BY DEF IInv
<1> QED
  BY <1>1, DeploymentInvariant, PTL

(* The Flow objects never fall behind the node table (Master.registerNode,
   startWorkConfig, resetSimulation). *)
THEOREM UrisAreCurrent == Spec => []UrisFollowTable
<1>1. IInv => UrisFollowTable
  BY DEF IInv, TablesOK
<1> QED
  BY <1>1, DeploymentInvariant, PTL

(* No wake-up is lost: what waits for a node is in the list that the registration
   of the node looks into. *)
THEOREM NoWakeUpIsLost == Spec => []WaitersAreListed
<1>1. IInv => WaitersAreListed
  BY DEF IInv, TablesOK
<1> QED
  BY <1>1, DeploymentInvariant, PTL

(* A flow runs exactly if all of its nodes have registered (Master.runFlow). *)
THEOREM FlowRunsWhenComplete == Spec => []FlowIsWaitingOrRunning
<1>1. IInv => FlowIsWaitingOrRunning
  BY DEF IInv, TablesOK
<1> QED
  BY <1>1, DeploymentInvariant, PTL

(* No task and no stop request is sent for an incomplete flow, although the
   stream that is sent may hold an older object than the one that was tested. *)
THEOREM OnlyCompleteFlows == Spec => []OnlyCompleteFlowsAreSent
<1>1. IInv => OnlyCompleteFlowsAreSent
  BY DEF IInv
<1> QED
  BY <1>1, DeploymentInvariant, PTL

(* The two sides agree about the nodes, as long as nobody resets. *)
THEOREM PlaceInvariant == Spec => []PlaceInv
<1>1. IInv /\ PlaceInv /\ [Next]_vars => (IInv /\ PlaceInv)'
  BY NextIInv, NextPlace
<1>2. Init => IInv /\ PlaceInv
  BY InitIInv, InitPlace
<1> QED
  BY <1>1, <1>2, PTL DEF Spec

(* No node that was asked for is forgotten, unless the simulation has been reset:
   either the request is under way in the bus, in its container or as a
   registration, or the label had no container (Master.startWorkConfig,
   NodeContainer.createNode). *)
THEOREM RequestsAreKept == Spec => []NoRequestIsForgotten
<1>1. PlaceInv => NoRequestIsForgotten
  BY DEF PlaceInv, AskedNodesAreOnTheirWay, NoRequestIsForgotten
<1> QED
  BY <1>1, PlaceInvariant, PTL

-----------------------------------------------------------------------------
(* The uploaded work. *)

(* Making and checking a work config is no step of the deployment, and every
   step after its acceptance is one. *)
LEMMA UploadSteps == [UploadNext]_uploadVars => [Next]_vars
<1> SUFFICES ASSUME [UploadNext]_uploadVars
             PROVE  [Next]_vars
  OBVIOUS
<1>1. CASE MakeWork
  BY <1>1 DEF MakeWork
<1>2. CASE Deploy
  BY <1>2 DEF Deploy
<1>3. CASE UNCHANGED uploadVars
  BY <1>3 DEF uploadVars
<1> QED
  BY <1>1, <1>2, <1>3 DEF UploadNext

(* What is proved of the deployment holds of the one that follows the making of a
   work config, since UploadSpec adds steps and takes choices away. *)
LEMMA UploadIsDeployment == UploadSpec => Spec
<1>1. UploadInit => Init
  BY DEF UploadInit
<1> QED
  BY <1>1, UploadSteps, PTL DEF UploadSpec, Spec

(* A task or a stop request for a work config that was accepted names a flow all
   of whose nodes have their URIs (Master.runFlow, stopFlow). *)
THEOREM UploadedFlowsAreComplete == UploadSpec => []OnlyCompleteFlowsAreSent
BY UploadIsDeployment, OnlyCompleteFlows, PTL

(* No node of an accepted work config is forgotten between its request and its
   registration, unless the simulation was reset. *)
THEOREM UploadedRequestsAreKept == UploadSpec => []NoRequestIsForgotten
BY UploadIsDeployment, RequestsAreKept, PTL
-----------------------------------------------------------------------------
(* Sets of numbers *)

(* A nonempty set of numbers has a least one. *)
LEMMA LeastExists ==
    ASSUME NEW S \in SUBSET Nat, S # {}
    PROVE  \E i \in S : \A j \in S : i <= j
<1> DEFINE R == OpToRel(<, Nat)
<1>1. IsWellFoundedOn(R, Nat)
  BY NatLessThanWellFounded
<1>2. PICK i \in S : \A j \in S : ~ (<<j, i>> \in R)
  <2> HIDE DEF R
  <2> QED
    BY <1>1, WFMin
<1>3. \A j \in S : ~ (j < i)
  BY <1>2 DEF OpToRel
<1> QED
  BY <1>3

(* A nonempty set of numbers up to n has a last one. *)
LEMMA GreatestExists ==
    ASSUME NEW n \in Nat, NEW S \in SUBSET (1..n), S # {}
    PROVE  \E i \in S : \A j \in S : j <= i
<1> DEFINE T == {i \in Nat : n - i \in S}
<1>1. T \in SUBSET Nat /\ T # {}
  <2>1. PICK j \in S : TRUE
    OBVIOUS
  <2>2. n - j \in T
    <3>1. n - j \in Nat /\ n - (n - j) = j
      BY <2>1
    <3> QED
      BY <2>1, <3>1
  <2> QED
    BY <2>2
<1>2. PICK i \in T : \A j \in T : i <= j
  <2> HIDE DEF T
  <2> QED
    BY <1>1, LeastExists
<1>3. \A j \in S : j <= n - i
  <2> SUFFICES ASSUME NEW j \in S
               PROVE  j <= n - i
    OBVIOUS
  <2>1. n - j \in T
    <3>1. n - j \in Nat /\ n - (n - j) = j
      OBVIOUS
    <3> QED
      BY <3>1
  <2> QED
    BY <1>2, <2>1
<1> QED
  BY <1>2, <1>3

-----------------------------------------------------------------------------
(* The entries of all flows, in the order in which GraphChecker reads them. *)

Flattens(f, seqs, n) ==
    f = [i \in 1..n |-> IF i = 1 THEN seqs[i] ELSE f[i - 1] \o seqs[i]]

(* The function that FlattenSeq chooses, the concatenations so far, exists. *)
LEMMA FlatExists ==
    ASSUME NEW seqs, NEW n \in Nat
    PROVE  \E f : Flattens(f, seqs, n)
<1> DEFINE Step(r, i) == r \o seqs[i]
           S == {i \in Nat : ~ \E f : Flattens(f, seqs, i)}
<1>1. CASE S = {}
  BY <1>1
<1>2. CASE S # {}
  <2>1. PICK i \in S : \A j \in S : i <= j
    <3>1. S \in SUBSET Nat
      OBVIOUS
    <3> HIDE DEF S
    <3> QED
      BY <1>2, <3>1, LeastExists
  <2>2. CASE i = 0
    <3> DEFINE f == [j \in 1..0 |-> seqs[j]]
    <3>1. f = [j \in 1..0 |-> IF j = 1 THEN seqs[j] ELSE Step(f[j - 1], j)]
      <4> HIDE DEF Step
      <4> QED
        OBVIOUS
    <3> HIDE DEF f
    <3>2. Flattens(f, seqs, i)
      BY <2>2, <3>1 DEF Flattens
    <3> QED
      BY <2>1, <3>2, Zenon
  <2>3. CASE i > 0
    <3>1. i - 1 \in Nat /\ i - 1 \notin S
      BY <2>1, <2>3
    <3>2. PICK f : Flattens(f, seqs, i - 1)
      BY <3>1
    <3>3. f = [j \in 1..(i - 1) |-> IF j = 1 THEN seqs[j] ELSE Step(f[j - 1], j)]
      BY <3>2 DEF Flattens
    <3> HIDE DEF Step
    <3> DEFINE last == IF i = 1 THEN seqs[i] ELSE Step(f[i - 1], i)
               g == [j \in 1..i |-> IF j = i THEN last ELSE f[j]]
    <3> HIDE DEF last
    <3>4. ASSUME NEW j \in 1..i
          PROVE  g[j] = IF j = 1 THEN seqs[j] ELSE Step(g[j - 1], j)
      <4>1. CASE j < i
        <5>1. j \in 1..(i - 1) /\ j # i /\ j - 1 # i
          BY <4>1
        <5>2. g[j] = f[j] /\ (j # 1 => g[j - 1] = f[j - 1])
          BY <5>1
        <5>3. f[j] = IF j = 1 THEN seqs[j] ELSE Step(f[j - 1], j)
          BY <3>3, <5>1
        <5> HIDE DEF g
        <5> QED
          BY <5>2, <5>3
      <4>2. CASE j = i
        <5>1. g[j] = last /\ (j # 1 => g[j - 1] = f[j - 1])
          BY <4>2
        <5> HIDE DEF g
        <5> QED
          BY <4>2, <5>1 DEF last
      <4>3. j < i \/ j = i
        BY <2>1
      <4> QED
        BY <4>1, <4>2, <4>3, Zenon
    <3>5. g = [j \in 1..i |-> g[j]]
      OBVIOUS
    <3> HIDE DEF g
    <3>6. g = [j \in 1..i |-> IF j = 1 THEN seqs[j] ELSE Step(g[j - 1], j)]
      BY <3>4, <3>5, Zenon
    <3>7. Flattens(g, seqs, i)
      BY <3>6 DEF Flattens, Step
    <3> QED
      BY <2>1, <3>7
  <2> QED
    BY <2>1, <2>2, <2>3
<1> QED
  BY <1>1, <1>2

(* FlattenSeq makes a sequence of the elements of all the sequences. *)
LEMMA FlattenSeqFacts ==
    ASSUME NEW T, NEW seqs \in Seq(Seq(T))
    PROVE  /\ FlattenSeq(seqs) \in Seq(T)
           /\ \A x : x \in Range(FlattenSeq(seqs)) <=>
                        \E i \in DOMAIN seqs : \E j \in DOMAIN seqs[i] : x = seqs[i][j]
<1> DEFINE n == Len(seqs)
           Has(q, m) == \A x : x \in Range(q) <=>
                           \E i \in 1..m : \E j \in DOMAIN seqs[i] : x = seqs[i][j]
<1>1. n \in Nat /\ DOMAIN seqs = 1..n /\ \A i \in 1..n : seqs[i] \in Seq(T)
  OBVIOUS
<1>2. CASE n = 0
  <2>1. seqs = <<>> /\ FlattenSeq(seqs) = seqs
    BY <1>2 DEF FlattenSeq
  <2>2. DOMAIN seqs = {} /\ seqs \in Seq(T)
    BY <1>1, <1>2, <2>1, EmptySeq
  <2> QED
    BY <2>1, <2>2, Zenon DEF Range
<1>3. CASE n # 0
  <2> DEFINE f == CHOOSE f : f = [i \in 1..Len(seqs) |->
                     IF i = 1 THEN seqs[i] ELSE f[i - 1] \o seqs[i]]
  <2>1. f = [i \in 1..n |-> IF i = 1 THEN seqs[i] ELSE f[i - 1] \o seqs[i]]
    <3>1. PICK g : Flattens(g, seqs, Len(seqs))
      BY <1>1, FlatExists
    <3>2. g = [i \in 1..Len(seqs) |-> IF i = 1 THEN seqs[i] ELSE g[i - 1] \o seqs[i]]
      BY <3>1 DEF Flattens
    <3> QED
      BY <3>2, Zenon
  <2>2. FlattenSeq(seqs) = f[n]
    BY <1>3, Zenon DEF FlattenSeq
  <2> HIDE DEF f, n
  <2> DEFINE Bad == {i \in 1..n : ~ (f[i] \in Seq(T) /\ Has(f[i], i))}
  <2>3. Bad = {}
    <3> SUFFICES ASSUME Bad # {}
                 PROVE  FALSE
      OBVIOUS
    <3>1. PICK i \in Bad : \A j \in Bad : i <= j
      <4>1. Bad \in SUBSET Nat
        BY <1>1
      <4> HIDE DEF Bad
      <4> QED
        BY <4>1, LeastExists
    <3>2. i \in 1..n /\ ~ (f[i] \in Seq(T) /\ Has(f[i], i))
      BY <3>1
    <3>3. CASE i = 1
      <4>1. f[i] = seqs[i]
        BY <2>1, <3>2, <3>3
      <4>2. f[i] \in Seq(T)
        BY <1>1, <3>2, <4>1
      <4>3. Has(f[i], i)
        BY <3>3, <4>1 DEF Range
      <4> QED
        BY <3>2, <4>2, <4>3
    <3>4. CASE i # 1
      <4>1. i - 1 \in 1..n /\ i - 1 \notin Bad
        <5> HIDE DEF Bad
        <5> QED
          BY <1>1, <3>1, <3>2, <3>4
      <4>2. f[i - 1] \in Seq(T) /\ Has(f[i - 1], i - 1)
        BY <4>1
      <4>3. f[i] = f[i - 1] \o seqs[i]
        BY <2>1, <3>2, <3>4
      <4>4. seqs[i] \in Seq(T)
        BY <1>1, <3>2
      <4> DEFINE p == f[i - 1]
                 q == seqs[i]
                 r == f[i]
      <4>5. r \in Seq(T) /\ \A x : x \in Range(r) <=> x \in Range(p) \/ x \in Range(q)
        <5>1. p \in Seq(T) /\ q \in Seq(T) /\ r = p \o q
          BY <4>2, <4>3, <4>4
        <5> HIDE DEF p, q, r
        <5>2. /\ r \in Seq(T) /\ Len(r) = Len(p) + Len(q)
              /\ \A k \in 1..Len(p) + Len(q) : r[k] = IF k <= Len(p) THEN p[k] ELSE q[k - Len(p)]
          BY <5>1, ConcatProperties
        <5>3. /\ Len(p) \in Nat /\ Len(q) \in Nat /\ DOMAIN p = 1..Len(p)
              /\ DOMAIN q = 1..Len(q) /\ DOMAIN r = 1..(Len(p) + Len(q))
          BY <5>1, <5>2
        <5>4. ASSUME NEW x, x \in Range(r)
              PROVE  x \in Range(p) \/ x \in Range(q)
          <6>1. PICK k \in 1..(Len(p) + Len(q)) : x = r[k]
            BY <5>3, <5>4 DEF Range
          <6>2. CASE k <= Len(p)
            BY <5>2, <5>3, <6>1, <6>2, SMTT(20) DEF Range
          <6>3. CASE k > Len(p)
            <7>1. k - Len(p) \in DOMAIN q /\ x = q[k - Len(p)]
              BY <5>2, <5>3, <6>1, <6>3
            <7> QED
              BY <7>1 DEF Range
          <6> QED
            BY <5>3, <6>1, <6>2, <6>3
        <5>5. ASSUME NEW x, x \in Range(p)
              PROVE  x \in Range(r)
          <6>1. PICK k \in 1..Len(p) : x = p[k]
            BY <5>3, <5>5 DEF Range
          <6>2. k \in DOMAIN r /\ r[k] = x
            BY <5>2, <5>3, <6>1
          <6> QED
            BY <6>2 DEF Range
        <5>6. ASSUME NEW x, x \in Range(q)
              PROVE  x \in Range(r)
          <6>1. PICK k \in 1..Len(q) : x = q[k]
            BY <5>3, <5>6 DEF Range
          <6>2. /\ k + Len(p) \in 1..(Len(p) + Len(q)) /\ ~ (k + Len(p) <= Len(p))
                /\ k + Len(p) - Len(p) = k
            BY <5>3
          <6>3. r[k + Len(p)] = q[k + Len(p) - Len(p)]
            BY <5>2, <6>2
          <6>4. k + Len(p) \in DOMAIN r /\ r[k + Len(p)] = x
            BY <5>3, <6>1, <6>2, <6>3
          <6> QED
            BY <6>4 DEF Range
        <5> QED
          BY <5>2, <5>4, <5>5, <5>6
      <4>6. ASSUME NEW x
            PROVE  x \in Range(r) <=> \E k \in 1..i : \E j \in DOMAIN seqs[k] : x = seqs[k][j]
        <5>1. x \in Range(p) <=> \E k \in 1..(i - 1) : \E j \in DOMAIN seqs[k] : x = seqs[k][j]
          BY <4>2
        <5>2. x \in Range(q) <=> \E j \in DOMAIN seqs[i] : x = seqs[i][j]
          BY DEF Range
        <5>3. 1..i = 1..(i - 1) \cup {i}
          BY <1>1, <3>2
        <5> HIDE DEF p, q, r
        <5> QED
          BY <4>5, <5>1, <5>2, <5>3, Zenon
      <4> QED
        BY <3>2, <4>5, <4>6
    <3> QED
      BY <3>3, <3>4
  <2>4. f[n] \in Seq(T) /\ Has(f[n], n)
    <3>1. n \in 1..n
      BY <1>1, <1>3 DEF n
    <3> QED
      BY <2>3, <3>1
  <2>5. DOMAIN seqs = 1..n
    BY <1>1
  <2> DEFINE q == f[n]
  <2>6. q \in Seq(T) /\ FlattenSeq(seqs) = q
    BY <2>2, <2>4
  <2>7. \A x : x \in Range(q) <=> \E i \in DOMAIN seqs : \E j \in DOMAIN seqs[i] : x = seqs[i][j]
    BY <2>4, <2>5
  <2> HIDE DEF q
  <2> QED
    BY <2>6, <2>7
<1> QED
  BY <1>2, <1>3

Entry(spec, i, j) == [node |-> spec[i][j], flow |-> spec[i]]

(* GraphChecker reads the nodes of all flows, each with its flow, and nothing else. *)
LEMMA ListingFacts ==
    ASSUME NEW N, NEW spec \in Seq(Seq(N) \ {<<>>})
    PROVE  /\ Len(Listing(spec)) \in Nat /\ DOMAIN Listing(spec) = 1..Len(Listing(spec))
           /\ \A k \in DOMAIN Listing(spec) : \E i \in DOMAIN spec : \E j \in DOMAIN spec[i] :
                 Listing(spec)[k] = Entry(spec, i, j)
           /\ \A i \in DOMAIN spec : \A j \in DOMAIN spec[i] : \E k \in DOMAIN Listing(spec) :
                 Listing(spec)[k] = Entry(spec, i, j)
<1> DEFINE part(i) == [j \in DOMAIN spec[i] |-> [node |-> spec[i][j], flow |-> spec[i]]]
           parts == [i \in DOMAIN spec |-> part(i)]
           list == Listing(spec)
           T == [node : N, flow : Seq(N)]
<1>1. ASSUME NEW i \in DOMAIN spec
      PROVE  /\ spec[i] \in Seq(N) /\ DOMAIN part(i) = DOMAIN spec[i]
             /\ \A j \in DOMAIN spec[i] : part(i)[j] = Entry(spec, i, j) /\ Entry(spec, i, j) \in T
             /\ part(i) \in Seq(T)
  <2>1. spec[i] \in Seq(N)
    OBVIOUS
  <2>2. Len(spec[i]) \in Nat /\ DOMAIN spec[i] = 1..Len(spec[i])
    BY <2>1
  <2>3. \A j \in DOMAIN spec[i] : Entry(spec, i, j) \in T
    BY <2>1, <2>2 DEF Entry
  <2>4. DOMAIN part(i) = DOMAIN spec[i] /\ \A j \in DOMAIN spec[i] : part(i)[j] = Entry(spec, i, j)
    BY DEF Entry
  <2>5. part(i) \in [1..Len(spec[i]) -> T]
    <3>1. part(i) = [j \in 1..Len(spec[i]) |-> Entry(spec, i, j)]
      BY <2>2 DEF Entry
    <3> QED
      BY <2>2, <2>3, <3>1
  <2>6. part(i) \in Seq(T)
    <3> HIDE DEF part, T
    <3> QED
      BY <2>2, <2>5
  <2> QED
    BY <2>1, <2>3, <2>4, <2>6
<1>2. parts \in Seq(Seq(T))
  <2>1. Len(spec) \in Nat /\ DOMAIN spec = 1..Len(spec)
    OBVIOUS
  <2> HIDE DEF part, T
  <2>2. parts \in [1..Len(spec) -> Seq(T)]
    BY <1>1, <2>1
  <2> QED
    BY <2>1, <2>2
<1>3. list = FlattenSeq(parts)
  BY DEF Listing
<1>4. /\ list \in Seq(T)
      /\ \A x : x \in Range(list) <=>
                   \E i \in DOMAIN parts : \E j \in DOMAIN parts[i] : x = parts[i][j]
  <2> HIDE DEF parts, T, list
  <2> QED
    BY <1>2, <1>3, FlattenSeqFacts
<1>5. DOMAIN parts = DOMAIN spec /\ \A i \in DOMAIN spec : parts[i] = part(i)
  OBVIOUS
<1>6. Len(list) \in Nat /\ DOMAIN list = 1..Len(list)
  <2> HIDE DEF T, list
  <2> QED
    BY <1>4
<1>7. ASSUME NEW k \in DOMAIN list
      PROVE  \E i \in DOMAIN spec : \E j \in DOMAIN spec[i] : list[k] = Entry(spec, i, j)
  <2>1. list[k] \in Range(list)
    BY DEF Range
  <2>2. PICK i \in DOMAIN parts : \E j \in DOMAIN parts[i] : list[k] = parts[i][j]
    <3> HIDE DEF list, parts
    <3> QED
      BY <1>4, <2>1
  <2>3. PICK j \in DOMAIN parts[i] : list[k] = parts[i][j]
    BY <2>2
  <2> HIDE DEF list, parts, part
  <2> QED
    BY <1>1, <1>5, <2>2, <2>3
<1>8. ASSUME NEW i \in DOMAIN spec, NEW j \in DOMAIN spec[i]
      PROVE  \E k \in DOMAIN list : list[k] = Entry(spec, i, j)
  <2> HIDE DEF list, parts, part
  <2>1. i \in DOMAIN parts /\ j \in DOMAIN parts[i] /\ parts[i][j] = Entry(spec, i, j)
    BY <1>1, <1>5
  <2>2. Entry(spec, i, j) \in Range(list)
    BY <1>4, <2>1
  <2> QED
    BY <2>2 DEF Range
<1> QED
  BY <1>6, <1>7, <1>8

\* One id, one type; and no node is called as the place of no node.
TypesAgree(spec) ==
    \A i, k \in DOMAIN spec : \A j \in DOMAIN spec[i], l \in DOMAIN spec[k] :
        spec[i][j].id = spec[k][l].id => spec[i][j].type = spec[k][l].type

NamesNobody(spec) ==
    \A i \in DOMAIN spec : \A j \in DOMAIN spec[i] : spec[i][j].id \notin {Null, Absent}

(* The type of an id is that of any node with this id. *)
LEMMA TypeInFacts ==
    ASSUME NEW N, NEW spec \in Seq(Seq(N) \ {<<>>}), TypesAgree(spec),
           NEW i \in DOMAIN spec, NEW j \in DOMAIN spec[i]
    PROVE  TypeIn(spec, spec[i][j].id) = spec[i][j].type
<1> DEFINE list == Listing(spec)
           v == spec[i][j].id
           k == CHOOSE k \in DOMAIN list : list[k].node.id = v
<1>1. \E l \in DOMAIN list : list[l].node.id = v
  <2>1. PICK l \in DOMAIN list : list[l] = Entry(spec, i, j)
    BY ListingFacts
  <2>2. list[l].node = spec[i][j]
    BY <2>1 DEF Entry
  <2> QED
    BY <2>2
<1>2. k \in DOMAIN list /\ list[k].node.id = v
  <2> HIDE DEF list, v
  <2> QED
    BY <1>1
<1>3. TypeIn(spec, v) = list[k].node.type
  BY DEF TypeIn
<1> HIDE DEF k
<1>4. PICK m \in DOMAIN spec : \E l \in DOMAIN spec[m] : list[k] = Entry(spec, m, l)
  BY <1>2, ListingFacts
<1>5. PICK l \in DOMAIN spec[m] : list[k] = Entry(spec, m, l)
  BY <1>4
<1>6. list[k].node = spec[m][l]
  BY <1>5 DEF Entry
<1> HIDE DEF list
<1> QED
  BY <1>2, <1>3, <1>6 DEF TypesAgree

\* The links of all nodes.
AllLinks(spec) == {<<n.up, n.id>> : n \in {n \in {x.node : x \in Range(Listing(spec))} : n.up # Null}}

(* A link is the pair of the upstream and the id of some node of some flow. *)
LEMMA LinksFacts ==
    ASSUME NEW N, NEW spec \in Seq(Seq(N) \ {<<>>})
    PROVE  \A e : e \in AllLinks(spec) <=>
               \E i \in DOMAIN spec : \E j \in DOMAIN spec[i] :
                   spec[i][j].up # Null /\ e = <<spec[i][j].up, spec[i][j].id>>
<1> DEFINE nodes == {x.node : x \in Range(Listing(spec))}
<1>1. \A n : n \in nodes <=> \E i \in DOMAIN spec : \E j \in DOMAIN spec[i] : n = spec[i][j]
  <2>1. ASSUME NEW n \in nodes
        PROVE  \E i \in DOMAIN spec : \E j \in DOMAIN spec[i] : n = spec[i][j]
    <3>1. PICK k \in DOMAIN Listing(spec) : n = Listing(spec)[k].node
      BY <2>1 DEF Range
    <3> QED
      BY <3>1, ListingFacts DEF Entry
  <2>2. ASSUME NEW i \in DOMAIN spec, NEW j \in DOMAIN spec[i]
        PROVE  spec[i][j] \in nodes
    <3>1. PICK k \in DOMAIN Listing(spec) : Listing(spec)[k] = Entry(spec, i, j)
      BY ListingFacts
    <3>2. Listing(spec)[k].node = spec[i][j]
      BY <3>1 DEF Entry
    <3> QED
      BY <3>2 DEF Range
  <2> QED
    BY <2>1, <2>2
<1>2. AllLinks(spec) = {<<n.up, n.id>> : n \in {n \in nodes : n.up # Null}}
  BY DEF AllLinks
<1> HIDE DEF nodes
<1>3. \A e : e \in AllLinks(spec) <=> \E n \in nodes : n.up # Null /\ e = <<n.up, n.id>>
  BY <1>2
<1> QED
  BY <1>1, <1>3

(* A work config whose nodes name an upstream in their flow is read to its end. *)
LEMMA CompleteIsRead ==
    ASSUME NEW N, NEW spec \in Seq(Seq(N) \ {<<>>}),
           \A i \in DOMAIN spec : \A j \in DOMAIN spec[i] :
               spec[i][j].up # Absent /\ spec[i][j].up \in {Null} \cup Ids(spec[i])
    PROVE  GraphOf(spec) = AllLinks(spec)
<1> DEFINE list == Listing(spec)
           read == {k \in DOMAIN list : /\ list[k].node.up # Null
                                        /\ \A j \in 1 .. k : ~Throws(list, j)}
<1>1. ASSUME NEW k \in DOMAIN list
      PROVE  ~Throws(list, k)
  <2>1. PICK i \in DOMAIN spec : \E j \in DOMAIN spec[i] : list[k] = Entry(spec, i, j)
    BY ListingFacts
  <2>2. PICK j \in DOMAIN spec[i] : list[k] = Entry(spec, i, j)
    BY <2>1
  <2>3. list[k].node = spec[i][j] /\ list[k].flow = spec[i]
    BY <2>2 DEF Entry
  <2> HIDE DEF list
  <2> QED
    BY <2>3 DEF Throws
<1>2. read = {k \in DOMAIN list : list[k].node.up # Null}
  <2>1. Len(list) \in Nat /\ DOMAIN list = 1..Len(list)
    BY ListingFacts
  <2>2. \A k \in DOMAIN list : \A j \in 1..k : j \in DOMAIN list
    <3> HIDE DEF list
    <3> QED
      BY <2>1
  <2> HIDE DEF list
  <2> QED
    BY <1>1, <2>2
<1>3. GraphOf(spec) = {<<list[k].node.up, list[k].node.id>> : k \in read}
  BY DEF GraphOf
<1>4. \A n : n \in {x.node : x \in Range(list)} <=> \E k \in DOMAIN list : n = list[k].node
  BY DEF Range
<1>5. AllLinks(spec) = {<<n.up, n.id>> : n \in {n \in {x.node : x \in Range(list)} : n.up # Null}}
  BY DEF AllLinks
<1> HIDE DEF list, read
<1>6. \A e : e \in GraphOf(spec) <=> \E k \in DOMAIN list : list[k].node.up # Null /\ e = <<list[k].node.up, list[k].node.id>>
  BY <1>2, <1>3
<1> DEFINE nodes == {x.node : x \in Range(list)}
<1>7. \A n : n \in nodes <=> \E k \in DOMAIN list : n = list[k].node
  BY <1>4
<1>8. AllLinks(spec) = {<<n.up, n.id>> : n \in {n \in nodes : n.up # Null}}
  BY <1>5
<1> HIDE DEF nodes
<1>9. \A e : e \in AllLinks(spec) <=> \E n \in nodes : n.up # Null /\ e = <<n.up, n.id>>
  BY <1>8
<1>10. \A e : e \in GraphOf(spec) <=> e \in AllLinks(spec)
  BY <1>6, <1>7, <1>9
<1> QED
  BY <1>10

(* ToV and FromV, as membership of pairs. *)
LEMMA Feeders ==
    ASSUME NEW G, \A e \in G : e = <<e[1], e[2]>>, NEW v, NEW x
    PROVE  /\ x \in ToV(G, v) <=> <<x, v>> \in G
           /\ x \in FromV(G, v) <=> <<v, x>> \in G
<1>1. ASSUME x \in ToV(G, v)
      PROVE  <<x, v>> \in G
  BY <1>1 DEF ToV
<1>2. ASSUME <<x, v>> \in G
      PROVE  x \in ToV(G, v)
  <2>1. <<x, v>> \in {d \in G : d[2] = v} /\ <<x, v>>[1] = x
    BY <1>2
  <2> QED
    BY <2>1, Zenon DEF ToV
<1>3. ASSUME x \in FromV(G, v)
      PROVE  <<v, x>> \in G
  BY <1>3 DEF FromV
<1>4. ASSUME <<v, x>> \in G
      PROVE  x \in FromV(G, v)
  <2>1. <<v, x>> \in {d \in G : d[1] = v} /\ <<v, x>>[2] = x
    BY <1>4
  <2> QED
    BY <2>1, Zenon DEF FromV
<1> QED
  BY <1>1, <1>2, <1>3, <1>4

(* The links that lead to a node are finitely many. *)
LEMMA FeedersAreFinite ==
    ASSUME NEW N, NEW spec \in Seq(Seq(N) \ {<<>>}), NEW v
    PROVE  /\ IsFiniteSet(ToV(GraphOf(spec), v))
           /\ IsFiniteSet(FromV(GraphOf(spec), v))
<1> DEFINE list == Listing(spec)
           read == {k \in DOMAIN list : /\ list[k].node.up # Null
                                        /\ \A j \in 1 .. k : ~Throws(list, j)}
           into == {k \in read : list[k].node.id = v}
           outOf == {k \in read : list[k].node.up = v}
           S == ToV(GraphOf(spec), v)
           T == FromV(GraphOf(spec), v)
           f == [k \in into |-> list[k].node.up]
           g == [k \in outOf |-> list[k].node.id]
<1>1. IsFiniteSet(read)
  <2>1. Len(list) \in Nat /\ DOMAIN list = 1..Len(list)
    BY ListingFacts
  <2>2. IsFiniteSet(DOMAIN list)
    <3> HIDE DEF list
    <3> QED
      BY <2>1, FS_Interval
  <2> HIDE DEF list
  <2> QED
    BY <2>2, FS_Subset
<1>2. IsFiniteSet(into) /\ IsFiniteSet(outOf)
  <2> HIDE DEF list, read
  <2> QED
    BY <1>1, FS_Subset
<1>3. GraphOf(spec) = {<<list[k].node.up, list[k].node.id>> : k \in read}
  BY DEF GraphOf
<1>4. S = {list[k].node.up : k \in into} /\ T = {list[k].node.id : k \in outOf}
  <2> DEFINE up(k) == list[k].node.up
             id(k) == list[k].node.id
  <2>1. GraphOf(spec) = {<<up(k), id(k)>> : k \in read}
    BY <1>3
  <2>2. ASSUME NEW x
        PROVE  /\ x \in S <=> \E k \in read : id(k) = v /\ x = up(k)
               /\ x \in T <=> \E k \in read : up(k) = v /\ x = id(k)
    <3> DEFINE G == GraphOf(spec)
    <3>1. \A e \in G : e = <<e[1], e[2]>>
      <4> HIDE DEF up, id, read
      <4> QED
        BY <2>1
    <3>2. /\ x \in ToV(G, v) <=> <<x, v>> \in G
          /\ x \in FromV(G, v) <=> <<v, x>> \in G
      <4> HIDE DEF G
      <4> QED
        BY <3>1, Feeders
    <3> HIDE DEF up, id, read
    <3> QED
      BY <2>1, <3>2
  <2>3. /\ \A x : x \in S <=> \E k \in read : id(k) = v /\ x = up(k)
        /\ \A x : x \in T <=> \E k \in read : up(k) = v /\ x = id(k)
    BY <2>2
  <2>4. into = {k \in read : id(k) = v} /\ outOf = {k \in read : up(k) = v}
    OBVIOUS
  <2>5. S = {up(k) : k \in into} /\ T = {id(k) : k \in outOf}
    <3> HIDE DEF up, id, read, S, T, into, outOf
    <3> QED
      BY <2>3, <2>4
  <2> QED
    BY <2>5
<1> HIDE DEF into, outOf, S, T
<1>5. f \in Surjection(into, S)
  BY <1>4 DEF Surjection
<1>6. g \in Surjection(outOf, T)
  BY <1>4 DEF Surjection
<1>7. IsFiniteSet(S) /\ IsFiniteSet(T)
  <2> HIDE DEF f, g
  <2> QED
    BY <1>2, <1>5, <1>6, FS_Surjection
<1> QED
  BY <1>7 DEF S, T

-----------------------------------------------------------------------------
(* Accepted work configs *)

IsForest(spec, G) ==
    /\ \A v \in Vertices(G) :
          /\ Cardinality(ToV(G, v)) <= 1
          /\ ToV(G, v) = {} => TypeIn(spec, v) = "SourceNode"
    /\ \A S \in (SUBSET Vertices(G)) \ {{}} : \E v \in S : ToV(G, v) \cap S = {}

(* Of some nodes the one that comes last in a flow has no upstream among them:
   its upstream is the next in the flow, and the only one. *)
LEMMA AcceptedForest ==
    ASSUME NEW N, NEW spec \in Seq(Seq(N) \ {<<>>}),
           TypesAgree(spec), NamesNobody(spec), IsComplete(spec),
           NEW hyphenated, IsAccepted(spec, hyphenated)
    PROVE  IsForest(spec, AllLinks(spec))
<1> DEFINE G == AllLinks(spec)
           Id(i, j) == spec[i][j].id
           Up(i, j) == spec[i][j].up
           Type(v) == TypeIn(spec, v)
<1>1. GraphOf(spec) = G
  <2>1. \A i \in DOMAIN spec : \A j \in DOMAIN spec[i] :
            spec[i][j].up # Absent /\ spec[i][j].up \in {Null} \cup Ids(spec[i])
    <3> SUFFICES ASSUME NEW i \in DOMAIN spec, NEW j \in DOMAIN spec[i]
                 PROVE  spec[i][j].up # Absent /\ spec[i][j].up \in {Null} \cup Ids(spec[i])
      OBVIOUS
    <3>1. spec[i][j].up \in {Null} \cup Ids(spec[i])
      BY DEF IsComplete
    <3>2. Null # Absent
      BY DEF Null, Absent
    <3>3. Absent \notin Ids(spec[i])
      BY DEF Ids, NamesNobody
    <3> QED
      BY <3>1, <3>2, <3>3
  <2> QED
    BY <2>1, CompleteIsRead
<1>2. \A e : e \in G <=> \E i \in DOMAIN spec : \E j \in DOMAIN spec[i] :
                            Up(i, j) # Null /\ e = <<Up(i, j), Id(i, j)>>
  BY LinksFacts
<1>3. ASSUME NEW v \in Vertices(G)
      PROVE  \/ Type(v) = "SourceNode" /\ ToV(G, v) = {}
             \/ Type(v) # "SourceNode" /\ \E u : ToV(G, v) = {u}
  <2> DEFINE D == ToV(G, v)
             F == FromV(G, v)
             t == Type(v)
             one == Cardinality(D) = 1
  <2>1. IsFiniteSet(D)
    BY <1>1, FeedersAreFinite
  <2>2. one => \E u : D = {u}
    <3> HIDE DEF D
    <3> QED
      BY <2>1, FS_Singleton
  <2>3. \/ t = "SourceNode" /\ D = {}
        \/ t = "SinkNode" /\ F = {} /\ one
        \/ t \in {"ProcessingNode", "TranscodingNode"} /\ Cardinality(F) = 1 /\ one
        \/ t = "RelayNode" /\ one
    <3> HIDE DEF G
    <3> QED
      BY <1>1 DEF IsAccepted, Validate
  <2> HIDE DEF t, D, F, one
  <2>4. \/ t = "SourceNode" /\ D = {}
        \/ t # "SourceNode" /\ \E u : D = {u}
    BY <2>2, <2>3
  <2> QED
    BY <2>4 DEF t, D
<1>4. ASSUME NEW v \in Vertices(G)
      PROVE  Cardinality(ToV(G, v)) <= 1 /\ (ToV(G, v) = {} => Type(v) = "SourceNode")
  <2> HIDE DEF G, Type
  <2>1. CASE ToV(G, v) = {}
    <3>1. Cardinality(ToV(G, v)) = 0
      BY <2>1, FS_EmptySet
    <3>2. \A u : {u} # {}
      OBVIOUS
    <3>3. Type(v) = "SourceNode"
      BY <1>3, <2>1, <3>2, Zenon
    <3> QED
      BY <3>1, <3>3
  <2>2. CASE ToV(G, v) # {}
    <3>1. PICK u : ToV(G, v) = {u}
      BY <1>3, <2>2
    <3>2. Cardinality(ToV(G, v)) = 1
      BY <3>1, FS_Singleton
    <3> QED
      BY <2>2, <3>2
  <2> QED
    BY <2>1, <2>2
<1>5. ASSUME NEW S \in (SUBSET Vertices(G)) \ {{}}
      PROVE  \E v \in S : ToV(G, v) \cap S = {}
  <2>1. PICK i \in DOMAIN spec : \E j \in DOMAIN spec[i] : Id(i, j) \in S
    <3>1. PICK v \in S : v \in Vertices(G)
      BY <1>5
    <3>2. PICK e \in G : v = e[1] \/ v = e[2]
      <4> HIDE DEF G
      <4> QED
        BY <3>1 DEF Vertices
    <3>3. PICK i \in DOMAIN spec : \E j \in DOMAIN spec[i] :
                            Up(i, j) # Null /\ e = <<Up(i, j), Id(i, j)>>
      <4> HIDE DEF G, Up, Id
      <4> QED
        BY <1>2
    <3>4. PICK j \in DOMAIN spec[i] : Up(i, j) # Null /\ e = <<Up(i, j), Id(i, j)>>
      BY <3>3
    <3>5. v = Up(i, j) \/ v = Id(i, j)
      <4> HIDE DEF Up, Id
      <4> QED
        BY <3>2, <3>4
    <3>6. Up(i, j) \in Ids(spec[i])
      BY <3>4 DEF IsComplete
    <3>7. \E k \in DOMAIN spec[i] : v = Id(i, k)
      BY <3>5, <3>6 DEF Ids
    <3> QED
      BY <3>7
  <2> DEFINE n == Len(spec[i])
             P == {j \in 1..n : Id(i, j) \in S}
  <2>2. n \in Nat \ {0} /\ DOMAIN spec[i] = 1..n
    <3>1. spec[i] \in Seq(N) /\ spec[i] # <<>>
      OBVIOUS
    <3> QED
      BY <3>1, EmptySeq
  <2>3. PICK j \in P : \A k \in P : k <= j
    <3>1. P \in SUBSET (1..n) /\ P # {}
      BY <2>1, <2>2
    <3> HIDE DEF P, n
    <3> QED
      BY <2>2, <3>1, GreatestExists
  <2>4. j \in 1..n /\ j \in DOMAIN spec[i] /\ Id(i, j) \in S
    BY <2>2, <2>3
  <2> DEFINE v == Id(i, j)
  <2>5. v \in Vertices(G)
    BY <2>4
  <2>6. Type(v) = spec[i][j].type
    BY <2>4, TypeInFacts
  <2>7. CASE j = n
    <3>1. spec[i][n].type = "SourceNode"
      BY DEF IsComplete, Last
    <3>2. ToV(G, v) = {}
      <4> HIDE DEF G, v
      <4> QED
        BY <1>3, <2>5, <2>6, <2>7, <3>1
    <3> QED
      BY <2>4, <3>2
  <2>8. CASE j # n
    <3>1. j + 1 \in 1..n /\ j + 1 \in 2..n
      BY <2>2, <2>4, <2>8
    <3>2. Id(i, j + 1) = Up(i, j)
      <4>1. IsLinked(spec[i])
        BY DEF IsAccepted, IsValidStream, IsValidFlow
      <4>2. spec[i][j + 1].id = spec[i][j + 1 - 1].up
        BY <3>1, <4>1 DEF IsLinked
      <4>3. j + 1 - 1 = j
        BY <2>2, <2>4
      <4> QED
        BY <4>2, <4>3
    <3>3. j + 1 \in DOMAIN spec[i]
      BY <2>2, <3>1
    <3>4. Id(i, j + 1) # Null
      BY <3>3 DEF NamesNobody
    <3>5. <<Up(i, j), v>> \in G
      <4>1. Up(i, j) # Null
        BY <3>2, <3>4
      <4> HIDE DEF G, Up
      <4> QED
        BY <1>2, <2>4, <4>1
    <3>6. Up(i, j) \in ToV(G, v)
      <4>1. \A e \in G : e = <<e[1], e[2]>>
        <5> HIDE DEF G, Up, Id
        <5> QED
          BY <1>2
      <4> HIDE DEF G, Up, v
      <4> QED
        BY <3>5, <4>1, Feeders
    <3>7. ToV(G, v) = {Up(i, j)}
      <4> HIDE DEF G, Up, v
      <4> QED
        BY <1>3, <2>5, <3>6
    <3>8. Up(i, j) \notin S
      <4>1. j + 1 \notin P
        <5> HIDE DEF P
        <5> QED
          BY <2>2, <2>3, <2>4
      <4>2. Id(i, j + 1) \notin S
        BY <3>1, <4>1
      <4> QED
        BY <3>2, <4>2
    <3> QED
      <4> HIDE DEF G, Up
      <4> QED
        BY <2>4, <3>7, <3>8
  <2> QED
    BY <2>7, <2>8
<1> QED
  BY <1>4, <1>5 DEF IsForest

-----------------------------------------------------------------------------
(* Work configs of the page *)

(* What a work config of the page is like, however it is drawn: its flows go
   over relays from a sink to a source, and a node has the same upstream in all of
   them. *)
NodesOf(spec) == UNION {Range(spec[i]) : i \in DOMAIN spec}

\* Node j of flow i, the flow having n nodes
MadeNode(spec, i, j, n) ==
    /\ spec[i][j].id \notin {Null, Absent}
    /\ spec[i][j].type \in {"SourceNode", "SinkNode", "RelayNode"}
    /\ spec[i][j].type = "SinkNode" <=> j = 1
    /\ spec[i][j].type = "SourceNode" <=> j = n
    /\ spec[i][j].up = IF j = n THEN Null ELSE spec[i][j + 1].id
    /\ spec[i][j].down = Absent

SameNode(spec, i, j) ==
    \A k \in DOMAIN spec : \A l \in DOMAIN spec[k] :
        spec[k][l].id = spec[i][j].id =>
            spec[k][l].type = spec[i][j].type /\ spec[k][l].up = spec[i][j].up

WellMade(spec) == \A i \in DOMAIN spec : \A j \in DOMAIN spec[i] : MadeNode(spec, i, j, Len(spec[i])) /\ SameNode(spec, i, j)

(* Every vertex of the graph is the id of a node when upstreams are in their flows. *)
LEMMA VertexIsNode ==
    ASSUME NEW N, NEW spec \in Seq(Seq(N) \ {<<>>}),
           \A i \in DOMAIN spec : \A j \in DOMAIN spec[i] : spec[i][j].up \in {Null} \cup Ids(spec[i]),
           NEW v \in Vertices(AllLinks(spec))
    PROVE  \E i \in DOMAIN spec : \E j \in DOMAIN spec[i] : v = spec[i][j].id
<1> DEFINE G == AllLinks(spec)
           Id(i, j) == spec[i][j].id
           Up(i, j) == spec[i][j].up
<1>1. \A e : e \in G <=> \E i \in DOMAIN spec : \E j \in DOMAIN spec[i] :
                            Up(i, j) # Null /\ e = <<Up(i, j), Id(i, j)>>
  BY LinksFacts
<1>2. PICK e \in G : v = e[1] \/ v = e[2]
  <2>1. v \in Vertices(G)
    OBVIOUS
  <2> HIDE DEF G
  <2> QED
    BY <2>1 DEF Vertices
<1>3. PICK i \in DOMAIN spec : \E j \in DOMAIN spec[i] :
                            Up(i, j) # Null /\ e = <<Up(i, j), Id(i, j)>>
  <2> HIDE DEF G, Up, Id
  <2> QED
    BY <1>1
<1>4. PICK j \in DOMAIN spec[i] : Up(i, j) # Null /\ e = <<Up(i, j), Id(i, j)>>
  BY <1>3
<1>5. v = Up(i, j) \/ v = Id(i, j)
  <2> HIDE DEF Up, Id
  <2> QED
    BY <1>2, <1>4
<1>6. Up(i, j) \in Ids(spec[i])
  BY <1>4
<1>7. \E k \in DOMAIN spec[i] : v = Id(i, k)
  BY <1>5, <1>6 DEF Ids
<1> QED
  BY <1>7

(* The nodes of a well-made work config name an upstream in their flow. *)
LEMMA WellMadeIsComplete ==
    ASSUME NEW N, NEW spec \in Seq(Seq(N) \ {<<>>}), WellMade(spec),
           NEW i \in DOMAIN spec, NEW j \in DOMAIN spec[i]
    PROVE  /\ j \in 1..Len(spec[i]) /\ Len(spec[i]) \in Nat
           /\ spec[i][j].up \in {Null} \cup Ids(spec[i])
           /\ spec[i][j].up # Absent
<1>1. Len(spec[i]) \in Nat /\ DOMAIN spec[i] = 1..Len(spec[i])
  <2>1. spec[i] \in Seq(N)
    OBVIOUS
  <2> QED
    BY <2>1
<1>2. CASE j = Len(spec[i])
  <2>1. spec[i][j].up = Null
    BY <1>2 DEF WellMade, MadeNode, SameNode
  <2> QED
    BY <1>1, <2>1 DEF Null, Absent
<1>3. CASE j # Len(spec[i])
  <2>1. j + 1 \in DOMAIN spec[i]
    BY <1>1, <1>3
  <2>2. spec[i][j].up = spec[i][j + 1].id
    BY <1>3 DEF WellMade, MadeNode, SameNode
  <2>3. spec[i][j + 1].id # Absent
    BY <2>1 DEF WellMade, MadeNode, SameNode
  <2> QED
    BY <1>1, <2>1, <2>2, <2>3 DEF Ids
<1> QED
  BY <1>2, <1>3

(* The Master takes what is well made. *)
LEMMA WellMadeIsAccepted ==
    ASSUME NEW N, NEW spec \in Seq(Seq(N) \ {<<>>}), WellMade(spec)
    PROVE  IsAccepted(spec, FALSE)
<1> DEFINE G == AllLinks(spec)
           Id(i, j) == spec[i][j].id
           Up(i, j) == spec[i][j].up
           Type(i, j) == spec[i][j].type
<1>1. ASSUME NEW i \in DOMAIN spec, NEW j \in DOMAIN spec[i]
      PROVE  j \in 1..Len(spec[i]) /\ Len(spec[i]) \in Nat /\ DOMAIN spec[i] = 1..Len(spec[i])
  <2>1. spec[i] \in Seq(N)
    OBVIOUS
  <2> QED
    BY <2>1
<1>2. GraphOf(spec) = G
  <2>1. \A i \in DOMAIN spec : \A j \in DOMAIN spec[i] :
            spec[i][j].up # Absent /\ spec[i][j].up \in {Null} \cup Ids(spec[i])
    BY WellMadeIsComplete
  <2> QED
    BY <2>1, CompleteIsRead
<1>3. \A e : e \in G <=> \E i \in DOMAIN spec : \E j \in DOMAIN spec[i] :
                            Up(i, j) # Null /\ e = <<Up(i, j), Id(i, j)>>
  BY LinksFacts
<1>4. ASSUME NEW v, NEW x
      PROVE  /\ x \in ToV(G, v) <=> \E i \in DOMAIN spec : \E j \in DOMAIN spec[i] :
                                        Up(i, j) # Null /\ x = Up(i, j) /\ v = Id(i, j)
             /\ x \in FromV(G, v) <=> \E i \in DOMAIN spec : \E j \in DOMAIN spec[i] :
                                        Up(i, j) # Null /\ v = Up(i, j) /\ x = Id(i, j)
  <2> HIDE DEF G, Up, Id
  <2>1. \A e \in G : e = <<e[1], e[2]>>
    BY <1>3
  <2>2. /\ x \in ToV(G, v) <=> <<x, v>> \in G
        /\ x \in FromV(G, v) <=> <<v, x>> \in G
    BY <2>1, Feeders
  <2>3. <<x, v>> \in G <=> \E i \in DOMAIN spec : \E j \in DOMAIN spec[i] :
                              Up(i, j) # Null /\ x = Up(i, j) /\ v = Id(i, j)
    BY <1>3
  <2>4. <<v, x>> \in G <=> \E i \in DOMAIN spec : \E j \in DOMAIN spec[i] :
                              Up(i, j) # Null /\ v = Up(i, j) /\ x = Id(i, j)
    BY <1>3
  <2> QED
    BY <2>2, <2>3, <2>4
<1>5. ASSUME NEW i \in DOMAIN spec, NEW j \in DOMAIN spec[i]
      PROVE  /\ Id(i, j) # Null
             /\ Type(i, j) \in {"SourceNode", "SinkNode", "RelayNode"}
             /\ Type(i, j) = "SinkNode" <=> j = 1
             /\ Type(i, j) = "SourceNode" <=> j = Len(spec[i])
             /\ Up(i, j) = IF j = Len(spec[i]) THEN Null ELSE Id(i, j + 1)
             /\ \A k \in DOMAIN spec : \A l \in DOMAIN spec[k] :
                   Id(k, l) = Id(i, j) => Type(k, l) = Type(i, j) /\ Up(k, l) = Up(i, j)
  BY SMTT(30) DEF WellMade, MadeNode, SameNode
<1>6. TypesAgree(spec)
  BY DEF WellMade, MadeNode, SameNode, TypesAgree
<1>7. ASSUME NEW i \in DOMAIN spec
      PROVE  IsValidFlow(spec[i])
  <2>1. ASSUME NEW j \in 2..Len(spec[i])
        PROVE  spec[i][j].id = spec[i][j - 1].up
    <3>1. spec[i] \in Seq(N)
      OBVIOUS
    <3>2. j - 1 \in DOMAIN spec[i] /\ j - 1 # Len(spec[i]) /\ j - 1 + 1 = j
      BY <3>1
    <3>3. Up(i, j - 1) = Id(i, j - 1 + 1)
      BY <1>5, <3>2
    <3> QED
      BY <3>2, <3>3
  <2>2. Last(spec[i]).up = Null
    <3>1. spec[i] \in Seq(N) /\ spec[i] # <<>>
      OBVIOUS
    <3>2. Len(spec[i]) \in DOMAIN spec[i]
      BY <3>1, EmptySeq
    <3>3. Up(i, Len(spec[i])) = Null
      BY <1>5, <3>2
    <3> QED
      BY <3>3 DEF Last
  <2>3. spec[i][1].down = Absent
    <3>1. spec[i] \in Seq(N) /\ spec[i] # <<>>
      OBVIOUS
    <3>2. 1 \in DOMAIN spec[i]
      BY <3>1, EmptySeq
    <3> QED
      BY <3>2 DEF WellMade, MadeNode
  <2> QED
    BY <2>1, <2>2, <2>3 DEF IsValidFlow, IsLinked
<1>8. ASSUME NEW v \in Vertices(G)
      PROVE  \/ TypeIn(spec, v) = "SourceNode" /\ ToV(G, v) = {}
             \/ /\ TypeIn(spec, v) = "SinkNode" /\ FromV(G, v) = {}
                /\ \E x : ToV(G, v) = {x}
             \/ TypeIn(spec, v) = "RelayNode" /\ \E x : ToV(G, v) = {x}
  <2>1. PICK i \in DOMAIN spec : \E j \in DOMAIN spec[i] : v = Id(i, j)
    <3>1. \A a \in DOMAIN spec : \A b \in DOMAIN spec[a] : spec[a][b].up \in {Null} \cup Ids(spec[a])
      BY WellMadeIsComplete
    <3> QED
      BY <3>1, VertexIsNode
  <2>2. PICK j \in DOMAIN spec[i] : v = Id(i, j)
    BY <2>1
  <2>3. TypeIn(spec, v) = Type(i, j)
    BY <1>6, <2>2, TypeInFacts
  <2> HIDE DEF G, Up, Id, Type
  <2>4. ASSUME NEW k \in DOMAIN spec, NEW l \in DOMAIN spec[k], Up(k, l) # Null
        PROVE  /\ l + 1 \in DOMAIN spec[k] /\ l + 1 # 1 /\ l + 1 - 1 = l
               /\ Up(k, l) = Id(k, l + 1)
    <3>1. l # Len(spec[k])
      BY <1>5, <2>4
    <3>2. l + 1 \in DOMAIN spec[k] /\ l + 1 # 1 /\ l + 1 - 1 = l
      BY <1>1, <3>1
    <3> QED
      BY <1>5, <3>1, <3>2
  <2>5. CASE Type(i, j) = "SourceNode"
    <3>1. Up(i, j) = Null
      BY <1>5, <2>5
    <3>2. ASSUME NEW x \in ToV(G, v)
          PROVE  FALSE
      BY <1>4, <1>5, <2>2, <3>1
    <3>3. ToV(G, v) = {}
      BY <3>2
    <3> QED
      BY <2>3, <2>5, <3>3
  <2>6. CASE Type(i, j) # "SourceNode"
    <3>1. j # Len(spec[i]) /\ Up(i, j) = Id(i, j + 1)
      BY <1>5, <2>6
    <3>2. j + 1 \in DOMAIN spec[i]
      BY <1>1, <3>1
    <3>3. Up(i, j) # Null
      BY <1>5, <3>1, <3>2
    <3>4. \A x : x \in ToV(G, v) <=> x = Up(i, j)
      <4>1. ASSUME NEW x \in ToV(G, v)
            PROVE  x = Up(i, j)
        BY <1>4, <1>5, <2>2
      <4>2. Up(i, j) \in ToV(G, v)
        BY <1>4, <2>2, <3>3
      <4> QED
        BY <4>1, <4>2
    <3>5. \E x : ToV(G, v) = {x}
      <4>1. ToV(G, v) = {Up(i, j)}
        BY <3>4
      <4> QED
        BY <4>1
    <3>6. CASE Type(i, j) = "SinkNode"
      <4>1. ASSUME NEW x \in FromV(G, v)
            PROVE  FALSE
        <5>1. PICK k \in DOMAIN spec : \E l \in DOMAIN spec[k] : Up(k, l) # Null /\ v = Up(k, l) /\ x = Id(k, l)
          BY <1>4
        <5>2. PICK l \in DOMAIN spec[k] : Up(k, l) # Null /\ v = Up(k, l) /\ x = Id(k, l)
          BY <5>1
        <5>3. l + 1 \in DOMAIN spec[k] /\ l + 1 # 1 /\ Id(k, l + 1) = Id(i, j)
          BY <2>2, <2>4, <5>2
        <5>4. Type(k, l + 1) = "SinkNode"
          BY <1>5, <3>6, <5>3
        <5> QED
          BY <1>5, <5>3, <5>4
      <4>2. FromV(G, v) = {}
        BY <4>1
      <4> QED
        BY <2>3, <3>5, <3>6, <4>2
    <3>8. Type(i, j) \in {"SinkNode", "RelayNode"}
      BY <1>5, <2>6
    <3> QED
      BY <2>3, <3>5, <3>6, <3>8
  <2> QED
    BY <2>5, <2>6
<1>9. Validate(spec)
  <2> HIDE DEF G
  <2>1. \A x : Cardinality({x}) = 1
    BY FS_Singleton
  <2>2. \A S : (\E x : S = {x}) => Cardinality(S) = 1
    BY <2>1
  <2> QED
    BY <1>2, <1>8, <2>2 DEF Validate
<1> QED
  BY <1>7, <1>9 DEF IsAccepted, IsValidStream

Lists(s, n) ==
    /\ s = [i \in 1..n |-> s[i]]
    /\ \A i \in 1..n : \E m \in Nat \ {0} : s[i] = [j \in 1..m |-> s[i][j]]

(* A list of flows of which none is empty. *)
LEMMA FlowListOf ==
    ASSUME NEW n \in Nat, NEW s, Lists(s, n)
    PROVE  /\ s \in Seq(Seq(NodesOf(s)) \ {<<>>})
           /\ Len(s) = n /\ DOMAIN s = 1..n
<1>1. DOMAIN s = 1..n
  BY DEF Lists
<1> DEFINE N == NodesOf(s)
<1>2. ASSUME NEW i \in 1..n
      PROVE  s[i] \in Seq(N) \ {<<>>}
  <2>1. PICK m \in Nat \ {0} : s[i] = [j \in 1..m |-> s[i][j]]
    BY DEF Lists
  <2>2. DOMAIN s[i] = 1..m
    BY <2>1
  <2>3. \A j \in 1..m : s[i][j] \in N
    BY <1>1, <2>2, SMTT(20) DEF NodesOf, Range
  <2> HIDE DEF N
  <2> DEFINE q == s[i]
  <2>4. q \in Seq(N)
    <3>1. q = [j \in 1..m |-> q[j]] /\ \A j \in 1..m : q[j] \in N
      BY <2>1, <2>3
    <3> HIDE DEF q
    <3>2. q \in [1..m -> N]
      BY <3>1
    <3> QED
      BY <3>2
  <2>5. q # <<>>
    <3>1. 1 \in DOMAIN q
      BY <2>2
    <3> HIDE DEF q
    <3> QED
      BY <3>1
  <2> QED
    BY <2>4, <2>5
<1> HIDE DEF N
<1>3. s \in [1..n -> Seq(N) \ {<<>>}]
  BY <1>2 DEF Lists
<1>4. s \in Seq(Seq(N) \ {<<>>})
  BY <1>3
<1> QED
  BY <1>1, <1>3, <1>4 DEF N

RandomFlows(tier3Of, tier2Of, relay1, source) ==
    [i \in 1..NumHosts |-> RandomFlow(i, tier3Of, tier2Of, relay1, source)]

(* The flows of the random stream, whatever is drawn. *)
LEMMA RandomFlowsAreWellMade ==
    ASSUME NEW source, source[2] = "source", NEW relay1, relay1[2] = "relay1",
           NEW tier3Of, NEW tier2Of,
           \A i \in 1..NumHosts : tier3Of[i][2] = "relay3" /\ tier2Of[tier3Of[i]][2] = "relay2",
           NEW s, s = RandomFlows(tier3Of, tier2Of, relay1, source)
    PROVE  /\ s \in Seq(Seq(NodesOf(s)) \ {<<>>})
           /\ WellMade(s)
<1> USE WorkSpecAssumption
<1> DEFINE id(i) == <<Name(i, "sink"), tier3Of[i], tier2Of[tier3Of[i]], relay1, source>>
           type == <<"SinkNode", "RelayNode", "RelayNode", "RelayNode", "SourceNode">>
           role == <<"sink", "relay3", "relay2", "relay1", "source">>
<1>0. s = [i \in 1..NumHosts |-> RandomFlow(i, tier3Of, tier2Of, relay1, source)]
  BY DEF RandomFlows
<1>1. ASSUME NEW i \in 1..NumHosts
      PROVE  /\ s[i] = [j \in 1..5 |-> s[i][j]]
             /\ DOMAIN s[i] = 1..5 /\ Len(s[i]) = 5
             /\ \A j \in 1..5 : /\ s[i][j].id = id(i)[j] /\ s[i][j].type = type[j]
                                /\ s[i][j].id[2] = role[j] /\ s[i][j].down = Absent
                                /\ s[i][j].up = IF j = 5 THEN Null ELSE id(i)[j + 1]
  <2> DEFINE r3 == tier3Of[i]
             r2 == tier2Of[r3]
             up == <<r3, r2, relay1, source, Null>>
             node(j) == MakeNode(id(i)[j], type[j], up[j])
  <2>1. s[i] = <<node(1), node(2), node(3), node(4), node(5)>>
    BY <1>0 DEF RandomFlow
  <2>2. \A j \in 1..5 : up[j] = IF j = 5 THEN Null ELSE id(i)[j + 1]
    <3> HIDE DEF Null
    <3> QED
      OBVIOUS
  <2>3. \A j \in 1..5 : id(i)[j][2] = role[j]
    <3>1. r3[2] = "relay3" /\ r2[2] = "relay2"
      OBVIOUS
    <3>2. Name(i, "sink")[2] = "sink"
      BY DEF Name
    <3> HIDE DEF r3, r2
    <3> QED
      BY <3>1, <3>2
  <2>4. \A j \in 1..5 : /\ node(j).id = id(i)[j] /\ node(j).type = type[j]
                         /\ node(j).up = up[j] /\ node(j).down = Absent
    BY DEF MakeNode
  <2> HIDE DEF node, id, type, up, role
  <2>5. /\ s[i] = [j \in 1..5 |-> s[i][j]] /\ DOMAIN s[i] = 1..5 /\ Len(s[i]) = 5
        /\ \A j \in 1..5 : s[i][j] = node(j)
    BY <2>1
  <2> QED
    BY <2>2, <2>3, <2>4, <2>5
<1>2. /\ s \in Seq(Seq(NodesOf(s)) \ {<<>>})
      /\ Len(s) = NumHosts /\ DOMAIN s = 1..NumHosts
  <2>1. \A i \in 1..NumHosts : \E m \in Nat \ {0} : s[i] = [j \in 1..m |-> s[i][j]]
    <3>1. 5 \in Nat \ {0}
      OBVIOUS
    <3>2. \A i \in 1..NumHosts : s[i] = [j \in 1..5 |-> s[i][j]]
      BY <1>1, Zenon
    <3> QED
      BY <3>1, <3>2, Zenon
  <2>2. s = [i \in 1..NumHosts |-> s[i]]
    BY <1>0
  <2>3. Lists(s, NumHosts)
    BY <2>1, <2>2, Zenon DEF Lists
  <2>4. NumHosts \in Nat
    OBVIOUS
  <2> QED
    BY <2>3, <2>4, FlowListOf, Zenon
<1>3. ASSUME NEW i \in 1..NumHosts, NEW j \in 1..5, NEW k \in 1..NumHosts, NEW l \in 1..5,
             s[k][l].id = s[i][j].id
      PROVE  s[k][l].type = s[i][j].type /\ s[k][l].up = s[i][j].up
  <2>1. role[l] = role[j]
    <3> HIDE DEF id, role, type
    <3> QED
      BY <1>0, <1>1, <1>3, SMTT(20)
  <2>2. l = j
    BY <2>1
  <2>3. id(k)[j] = id(i)[j] /\ s[k][j].up = (IF j = 5 THEN Null ELSE id(k)[j + 1])
        /\ s[i][j].up = IF j = 5 THEN Null ELSE id(i)[j + 1]
    <3> HIDE DEF id, role, type
    <3> QED
      BY <1>1, <1>3, <2>2, ZenonT(30)
  <2>4. id(k)[j] = id(i)[j] => s[k][j].up = s[i][j].up
    <3>1. CASE j = 1
      <4>1. id(k)[1] = <<k, "sink">> /\ id(i)[1] = <<i, "sink">>
        BY DEF Name
      <4>2. k = i
        BY <2>3, <3>1, <4>1
      <4> QED
        BY <3>1, <4>2
    <3>2. CASE j = 2
      <4>1. id(k)[2] = tier3Of[k] /\ id(k)[2 + 1] = tier2Of[tier3Of[k]]
        OBVIOUS
      <4>2. id(i)[2] = tier3Of[i] /\ id(i)[2 + 1] = tier2Of[tier3Of[i]]
        OBVIOUS
      <4> HIDE DEF id
      <4> QED
        BY <2>3, <3>2, <4>1, <4>2
    <3>3. CASE j \in {3, 4, 5}
      <4>1. id(k)[3 + 1] = relay1 /\ id(k)[4 + 1] = source
        OBVIOUS
      <4>2. id(i)[3 + 1] = relay1 /\ id(i)[4 + 1] = source
        OBVIOUS
      <4> HIDE DEF id
      <4> QED
        BY <2>3, <3>3, <4>1, <4>2
    <3> QED
      BY <3>1, <3>2, <3>3
  <2>5. s[k][l].type = type[j] /\ s[i][j].type = type[j]
    <3> HIDE DEF id, role, type
    <3> QED
      BY <1>1, <2>2, ZenonT(30)
  <2> HIDE DEF id, role, type
  <2> QED
    BY <2>2, <2>3, <2>4, <2>5
<1>4. ASSUME NEW i \in 1..NumHosts, NEW j \in 1..5
      PROVE  MadeNode(s, i, j, 5)
  <2>1. role[j] # "NULL" /\ role[j] # "absent"
    OBVIOUS
  <2>2. /\ type[j] \in {"SourceNode", "SinkNode", "RelayNode"}
        /\ type[j] = "SinkNode" <=> j = 1
        /\ type[j] = "SourceNode" <=> j = 5
    OBVIOUS
  <2> HIDE DEF id, role, type
  <2>3. s[i][j].id \notin {Null, Absent}
    <3>1. Null[2] = "NULL" /\ Absent[2] = "absent"
      BY DEF Null, Absent
    <3> HIDE DEF Null, Absent
    <3> QED
      BY <1>0, <1>1, <2>1, <3>1
  <2>4. s[i][j].up = IF j = 5 THEN Null ELSE s[i][j + 1].id
    <3>1. j # 5 => j + 1 \in 1..5
      OBVIOUS
    <3> QED
      BY <1>0, <1>1, <3>1
  <2> QED
    BY <1>1, <2>2, <2>3, <2>4 DEF MadeNode
<1>5. WellMade(s)
  <2> HIDE DEF id, role, type
  <2>1. DOMAIN s = 1..NumHosts /\ \A i \in 1..NumHosts : DOMAIN s[i] = 1..5 /\ Len(s[i]) = 5
    BY <1>1, <1>2
  <2> SUFFICES ASSUME NEW i \in 1..NumHosts, NEW j \in 1..5
               PROVE  MadeNode(s, i, j, Len(s[i])) /\ SameNode(s, i, j)
    BY <2>1, Zenon DEF WellMade
  <2>2. SameNode(s, i, j)
    BY <1>3, <2>1, SMTT(20) DEF SameNode
  <2>3. Len(s[i]) = 5
    BY <2>1
  <2> QED
    BY <1>4, <2>2, <2>3, Zenon
<1> QED
  BY <1>2, <1>5

-----------------------------------------------------------------------------
(* The invariant *)

MadeByPage(spec) == spec \in Seq(Seq(NodesOf(spec)) \ {<<>>}) /\ WellMade(spec)

\* The nodes of a user's file, whatever downstream they name
FileNodes ==
    {x \in [id : UserIds, type : {UserType[id] : id \in UserIds},
            up : UserIds \cup {Null, Absent}, down : UserIds \cup {Null, Absent}] :
        x.type = UserType[x.id]}

(* How a work config stands with its maker and with the verdict on it. *)
WorkInv ==
    /\ made \in {"none", "page", "file"}
    /\ made = "none" => flows = <<>> /\ verdict = "none"
    /\ made = "file" => flows \in Seq(Seq(FileNodes) \ {<<>>})
    /\ made = "page" => MadeByPage(flows) /\ hyphen = FALSE /\ verdict # "rejected"
    /\ verdict = "accepted" => IsAccepted(flows, hyphen)

(* A relay of a tier is named for its tier. *)
LEMMA TierRoles ==
    ASSUME NEW n, NEW role, NEW tier \in Tiers(n, role), NEW r \in Range(tier)
    PROVE  r[2] = role
<1>1. PICK S \in kSubset(n, Draws) : tier = [i \in 1 .. n |-> Name(SetToSortSeq(S, <)[i], role)]
  BY DEF Tiers
<1>2. PICK i \in 1..n : r = Name(SetToSortSeq(S, <)[i], role)
  BY <1>1, Zenon DEF Range
<1> QED
  BY <1>2 DEF Name

(* What the click on btnAddStream makes is well made. *)
LEMMA AddStreamIsWellMade ==
    ASSUME AddStream
    PROVE  MadeByPage(flows')
<1>1. PICK source \in {Name(h, "source") : h \in Draws},
           relay1 \in {Name(h, "relay1") : h \in Draws},
           n2 \in 1 .. MaxTier2 :
       \E tier2 \in Tiers(n2, "relay2"), n3 \in n2 .. n2 + MaxMore :
       \E tier3 \in Tiers(n3, "relay3") :
       \E tier3Of \in Attachments(1 .. NumHosts, tier3, [i \in 1 .. NumHosts |-> i]),
          tier2Of \in Attachments(Range(tier3), tier2,
                        [r \in Range(tier3) |-> (CHOOSE i \in DOMAIN tier3 : tier3[i] = r) - 1]) :
            flows' = [i \in 1 .. NumHosts |-> RandomFlow(i, tier3Of, tier2Of, relay1, source)]
  BY DEF AddStream
<1>2. PICK tier2 \in Tiers(n2, "relay2"), n3 \in n2 .. n2 + MaxMore :
       \E tier3 \in Tiers(n3, "relay3") :
       \E tier3Of \in Attachments(1 .. NumHosts, tier3, [i \in 1 .. NumHosts |-> i]),
          tier2Of \in Attachments(Range(tier3), tier2,
                        [r \in Range(tier3) |-> (CHOOSE i \in DOMAIN tier3 : tier3[i] = r) - 1]) :
            flows' = [i \in 1 .. NumHosts |-> RandomFlow(i, tier3Of, tier2Of, relay1, source)]
  BY <1>1
<1>3. PICK tier3 \in Tiers(n3, "relay3") :
       \E tier3Of \in Attachments(1 .. NumHosts, tier3, [i \in 1 .. NumHosts |-> i]),
          tier2Of \in Attachments(Range(tier3), tier2,
                        [r \in Range(tier3) |-> (CHOOSE i \in DOMAIN tier3 : tier3[i] = r) - 1]) :
            flows' = [i \in 1 .. NumHosts |-> RandomFlow(i, tier3Of, tier2Of, relay1, source)]
  BY <1>2
<1>4. PICK tier3Of \in Attachments(1 .. NumHosts, tier3, [i \in 1 .. NumHosts |-> i]),
           tier2Of \in Attachments(Range(tier3), tier2,
                        [r \in Range(tier3) |-> (CHOOSE i \in DOMAIN tier3 : tier3[i] = r) - 1]) :
            flows' = [i \in 1 .. NumHosts |-> RandomFlow(i, tier3Of, tier2Of, relay1, source)]
  BY <1>3
<1>5. tier3Of \in [1 .. NumHosts -> Range(tier3)] /\ tier2Of \in [Range(tier3) -> Range(tier2)]
  BY <1>4, Zenon DEF Attachments
<1>6. \A i \in 1..NumHosts : tier3Of[i] \in Range(tier3) /\ tier2Of[tier3Of[i]] \in Range(tier2)
  BY <1>5
<1>7. (\A r \in Range(tier3) : r[2] = "relay3") /\ \A r \in Range(tier2) : r[2] = "relay2"
  BY <1>2, <1>3, TierRoles
<1>8. \A i \in 1..NumHosts : tier3Of[i][2] = "relay3" /\ tier2Of[tier3Of[i]][2] = "relay2"
  BY <1>6, <1>7, Zenon
<1>9. source[2] = "source" /\ relay1[2] = "relay1"
  BY <1>1 DEF Name
<1> DEFINE s == flows'
<1>10. s = RandomFlows(tier3Of, tier2Of, relay1, source)
  BY <1>4 DEF RandomFlows
<1> HIDE DEF s
<1>11. s \in Seq(Seq(NodesOf(s)) \ {<<>>}) /\ WellMade(s)
  BY <1>8, <1>9, <1>10, RandomFlowsAreWellMade
<1> QED
  BY <1>11 DEF s, MadeByPage

(* In a user's file an id has one type, and is not the name of no node. *)
LEMMA FileIsNamedWell ==
    ASSUME NEW spec \in Seq(Seq(FileNodes) \ {<<>>})
    PROVE  TypesAgree(spec) /\ NamesNobody(spec)
<1>1. ASSUME NEW i \in DOMAIN spec, NEW j \in DOMAIN spec[i]
      PROVE  spec[i][j].id \in UserIds /\ spec[i][j].type = UserType[spec[i][j].id]
  <2>1. spec[i] \in Seq(FileNodes)
    OBVIOUS
  <2>2. spec[i][j] \in FileNodes
    BY <2>1
  <2> QED
    BY <2>2 DEF FileNodes
<1>2. TypesAgree(spec)
  BY <1>1 DEF TypesAgree
<1>3. NamesNobody(spec)
  BY <1>1, UserAssumption DEF NamesNobody
<1> QED
  BY <1>2, <1>3

(* A node as it is read, before it names a downstream, is one of them. *)
LEMMA UserNodesAreFileNodes == UserNodes \subseteq FileNodes
BY DEF UserNodes, MakeNode, FileNodes

(* The invariant holds before there is a work config ... *)
LEMMA WorkStart == WorkInit => WorkInv
BY DEF WorkInit, WorkInv

(* ... and every step of making or checking one keeps it. *)
LEMMA WorkStep ==
    ASSUME WorkInv, WorkNext
    PROVE  WorkInv'
<1>1. CASE AddStream
  <2>1. MadeByPage(flows')
    BY <1>1, AddStreamIsWellMade
  <2>2. made = "none" /\ made' = "page" /\ verdict' = verdict /\ hyphen' = FALSE
    BY <1>1 DEF AddStream
  <2> QED
    BY <2>1, <2>2 DEF WorkInv
<1>2. CASE BeginFlow
  <2>0. PICK y \in UserNodes : \E down \in {Null, y.id} :
            flows' = Append(flows, <<[y EXCEPT !.down = down]>>)
    BY <1>2 DEF BeginFlow
  <2>1. PICK x \in FileNodes : flows' = Append(flows, <<x>>)
    <3>1. PICK down \in {Null, y.id} : flows' = Append(flows, <<[y EXCEPT !.down = down]>>)
      BY <2>0
    <3>2. y \in FileNodes /\ y.id \in UserIds
      BY UserNodesAreFileNodes DEF FileNodes
    <3>3. [y EXCEPT !.down = down] \in FileNodes
      BY <3>2 DEF FileNodes
    <3> QED
      BY <3>1, <3>3
  <2>2. made \in {"none", "file"} /\ verdict = "none" /\ made' = "file" /\ verdict' = verdict
    BY <1>2 DEF BeginFlow
  <2>3. flows \in Seq(Seq(FileNodes) \ {<<>>})
    BY <2>2, EmptySeq DEF WorkInv
  <2>4. <<x>> \in Seq(FileNodes) \ {<<>>}
    OBVIOUS
  <2>5. flows' \in Seq(Seq(FileNodes) \ {<<>>})
    BY <2>1, <2>3, <2>4, AppendProperties
  <2> QED
    BY <2>2, <2>5 DEF WorkInv
<1>3. CASE ExtendFlow
  <2>1. PICK x \in FileNodes : flows' = [flows EXCEPT ![Len(flows)] = Append(@, x)]
    BY <1>3, UserNodesAreFileNodes DEF ExtendFlow
  <2>2. made = "file" /\ verdict = "none" /\ made' = made /\ verdict' = verdict
    BY <1>3 DEF ExtendFlow
  <2>3. flows \in Seq(Seq(FileNodes) \ {<<>>})
    BY <2>2 DEF WorkInv
  <2> DEFINE n == Len(flows)
             last == Append(flows[n], x)
  <2>4. n \in Nat /\ DOMAIN flows = 1..n
    BY <2>3
  <2>5. ASSUME n # 0
        PROVE  last \in Seq(FileNodes) \ {<<>>}
    <3>1. flows[n] \in Seq(FileNodes)
      BY <2>3, <2>4, <2>5
    <3>2. last \in Seq(FileNodes) /\ Len(last) = Len(flows[n]) + 1 /\ Len(flows[n]) \in Nat
      BY <3>1, AppendProperties
    <3>3. last # <<>>
      <4> HIDE DEF last
      <4> QED
        BY <3>2
    <3> QED
      BY <3>2, <3>3
  <2>6. flows' = [flows EXCEPT ![n] = last]
    BY <2>1
  <2>7. flows' = [i \in 1..n |-> IF i = n THEN last ELSE flows[i]]
    <3> HIDE DEF last
    <3> QED
      BY <2>4, <2>6
  <2>8. flows' \in Seq(Seq(FileNodes) \ {<<>>})
    <3> DEFINE T == Seq(FileNodes) \ {<<>>}
    <3>1. \A i \in 1..n : flows[i] \in T
      BY <2>3, <2>4
    <3>2. n # 0 => last \in T
      BY <2>5
    <3> HIDE DEF T, last, n
    <3>3. flows' \in [1..n -> T]
      BY <2>4, <2>7, <3>1, <3>2
    <3>4. flows' \in Seq(T)
      BY <2>4, <3>3
    <3> QED
      BY <3>4 DEF T
  <2> QED
    BY <2>2, <2>8 DEF WorkInv
<1>4. CASE Submit
  <2>1. /\ made # "none" /\ flows' = flows /\ made' = made /\ hyphen' = hyphen
        /\ verdict' = IF IsAccepted(flows, hyphen) THEN "accepted" ELSE "rejected"
    BY <1>4 DEF Submit
  <2>2. made = "page" => IsAccepted(flows, hyphen)
    <3>1. made = "page" => IsAccepted(flows, FALSE) /\ hyphen = FALSE
      BY WellMadeIsAccepted DEF WorkInv, MadeByPage
    <3> QED
      BY <3>1
  <2> QED
    BY <2>1, <2>2 DEF WorkInv
<1> QED
  BY <1>1, <1>2, <1>3, <1>4 DEF WorkNext

(* How a work config stands with its maker and its verdict, at any time. *)
LEMMA WorkInvariant == UploadSpec => []WorkInv
<1>1. UploadInit => WorkInv
  BY WorkStart DEF UploadInit
<1>2. WorkInv /\ [UploadNext]_uploadVars => WorkInv'
  <2> SUFFICES ASSUME WorkInv, [UploadNext]_uploadVars
               PROVE  WorkInv'
    OBVIOUS
  <2>1. CASE MakeWork
    BY <2>1, WorkStep DEF MakeWork
  <2>2. CASE UNCHANGED workVars
    BY <2>2 DEF workVars, WorkInv
  <2>3. MakeWork \/ UNCHANGED workVars
    BY DEF UploadNext, Deploy, uploadVars
  <2> QED
    BY <2>1, <2>2, <2>3
<1> QED
  BY <1>1, <1>2, PTL DEF UploadSpec

(* Every stream that the page draws, for any number of hosts and relays of the
   tiers and any draw, is accepted by the Master: displayGraph.js and the checks of
   Stream, Flow and GraphChecker agree on what a topology is.  WellMade is what the
   drawn streams have in common, and what the checks ask for. *)
THEOREM PageSpecsAreAccepted == UploadSpec => []PageSpecIsAccepted
<1>1. WorkInv => PageSpecIsAccepted
  BY DEF WorkInv, PageSpecIsAccepted
<1> QED
  BY <1>1, WorkInvariant, PTL

(* A complete work config that the Master accepts, made by the page or written
   by a user with any ids and any number of flows, is a forest rooted in
   sources: the check of every flow alone and that of every node alone leave no
   cycle through several flows and no node that is fed twice. *)
THEOREM AcceptedSpecsAreForests == UploadSpec => []AcceptedIsForest
<1>1. WorkInv => AcceptedIsForest
  <2> SUFFICES ASSUME WorkInv, verdict = "accepted", IsComplete(flows)
               PROVE  IsForest(flows, AllLinks(flows))
    <3>1. ASSUME IsForest(flows, AllLinks(flows))
          PROVE  AcceptedIsForest
      BY <3>1, Zenon DEF AcceptedIsForest, IsForest, AllLinks
    <3> QED
      BY <3>1, Zenon DEF AcceptedIsForest
  <2>1. IsAccepted(flows, hyphen)
    BY DEF WorkInv
  <2>2. CASE made = "page"
    <3>1. flows \in Seq(Seq(NodesOf(flows)) \ {<<>>}) /\ WellMade(flows)
      BY <2>2 DEF WorkInv, MadeByPage
    <3>2. TypesAgree(flows) /\ NamesNobody(flows)
      BY <3>1 DEF WellMade, MadeNode, SameNode, TypesAgree, NamesNobody
    <3> QED
      BY <2>1, <3>1, <3>2, AcceptedForest
  <2>3. CASE made = "file"
    <3>1. flows \in Seq(Seq(FileNodes) \ {<<>>})
      BY <2>3 DEF WorkInv
    <3> QED
      BY <2>1, <3>1, FileIsNamedWell, AcceptedForest
  <2>4. made # "none"
    BY DEF WorkInv
  <2> QED
    BY <2>2, <2>3, <2>4 DEF WorkInv
<1> QED
  BY <1>1, WorkInvariant, PTL
=============================================================================
