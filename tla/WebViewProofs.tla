----------------------------- MODULE WebViewProofs -----------------------------
(***************************************************************************)
(* Proofs about WebView, for all nodes, uploads, streams and bounds: what  *)
(* the timer sends while uploads and reports go on is true of the Master's *)
(* graph, the screen shows the graph of the page unless an exception has   *)
(* kept it from doing so, and the watcher tables follow the mouse.         *)
(***************************************************************************)
EXTENDS WebView, TLAPS, FiniteSetTheorems, SequenceTheorems, WellFoundedInduction

-----------------------------------------------------------------------------
(* The Master's graph and what is read from it. *)

(* A set of places in the table that is not empty has a first one. *)
LEMMA FirstExists ==
    ASSUME NEW S \in SUBSET Nat, S # {}
    PROVE  \E i \in S : \A j \in S : i <= j
<1> DEFINE R == OpToRel(<, Nat)
<1>1. IsWellFoundedOn(R, Nat)
  BY NatLessThanWellFounded
<1>2. PICK i \in S : \A j \in S : ~ (<<j, i>> \in R)
  <2> HIDE DEF R
  <2> QED
    BY <1>1, WFMin
<1>3. \A j \in S : ~ (j < i)
  BY <1>2 DEF OpToRel
<1> QED
  BY <1>3

(* The iterator stops at the end of the table or at the place of a known node. *)
LEMMA NextFromIsPlace ==
    ASSUME NEW i
    PROVE  \/ NextFrom(i) = End
           \/ NextFrom(i) \in DOMAIN Table /\ Table[NextFrom(i)] \in Known
<1> DEFINE later == {j \in DOMAIN Table : j > i /\ Table[j] \in Known}
<1>1. later \in SUBSET Nat
  BY TableAssumption
<1>2. CASE later = {}
  BY <1>2 DEF NextFrom
<1>3. CASE later # {}
  <2>1. \E j \in later : \A k \in later : j <= k
    <3> HIDE DEF later
    <3> QED
      BY <1>1, <1>3, FirstExists
  <2>2. NextFrom(i) = CHOOSE j \in later : \A k \in later : j <= k
    BY <1>3 DEF NextFrom
  <2>3. NextFrom(i) \in later
    <3> HIDE DEF later
    <3> QED
      BY <2>1, <2>2
  <2> QED
    BY <2>3
<1> QED
  BY <1>2, <1>3

\* What the timer may hold
Timers ==
    [at : {"idle", "nodes", "edges", "got", "dead"},
     nodes : SUBSET (Endpoint \X {"live", "placed", "nowhere"}),
     next : DOMAIN Table \cup {End}, held : {"live", "placed", "nowhere"}, cur : Endpoint,
     seen : SUBSET Link,
     edges : SUBSET ((NodeId \X NodeId) \X (Colour \cup {"live"}))]

\* What the timer holds, and what a report does between its two steps.
ThreadTypeOK ==
    /\ timer \in Timers
    /\ progress.colour \in Colour
    /\ master \in [at : {"idle", "adding", "clearing"}, calls : Seq(Link)]

GraphInv == WebGraphTypeOK /\ ThreadTypeOK

(* What is read can be sent: colours and places are put in when it is. *)
LEMMA CurrentType ==
    ASSUME GraphInv
    PROVE  /\ CurrentNodes(timer.nodes) \in SUBSET (Endpoint \X {"placed", "nowhere"})
           /\ CurrentEdges(timer.edges) \in SUBSET ((NodeId \X NodeId) \X Colour)
<1>1. ASSUME NEW r \in timer.nodes
      PROVE  /\ r[1] \in Endpoint
             /\ (IF r[2] = "live" THEN Place(r[1]) ELSE r[2]) \in {"placed", "nowhere"}
  BY <1>1 DEF GraphInv, ThreadTypeOK, Timers, Place
<1>2. ASSUME NEW r \in timer.edges
      PROVE  /\ r[1] \in NodeId \X NodeId
             /\ (IF r[2] = "live" THEN colour[r[1]] ELSE r[2]) \in Colour
  BY <1>2 DEF GraphInv, ThreadTypeOK, Timers, WebGraphTypeOK, Link, Endpoint
<1> QED
  BY <1>1, <1>2 DEF CurrentNodes, CurrentEdges

(* The graph is well typed before the first upload. *)
LEMMA InitGraphInv == WebGraphInit /\ registered = FALSE /\ updates = <<>> => GraphInv
<1> SUFFICES ASSUME WebGraphInit, registered = FALSE, updates = <<>>
             PROVE  GraphInv
  OBVIOUS
<1> USE DEF WebGraphInit
<1>1. Known = {Root}
  BY DEF Known
<1>2. End \in Nat \ {0}
  BY TableAssumption DEF End
<1>3. WebGraphTypeOK
  <2>1. DOMAIN downstreamNodes = {}
    OBVIOUS
  <2>2. nodesMap \in [Known -> BOOLEAN] /\ Known \subseteq Endpoint
    BY <1>1 DEF Endpoint
  <2>3. colour \in [Link -> Colour] /\ streamStatus \in [Link -> {"none", "start", "end"}]
    BY DEF Colour
  <2>4. master.at = "idle" /\ master.calls = <<>> /\ progress.at = "idle" /\ timer.at = "idle"
    BY DEF IdleMaster, NoProgress, IdleTimer
  <2>5. uploads \in 0 .. MaxUploads /\ resets \in 0 .. MaxResets
    BY BoundAssumption
  <2>6. master.calls \in Seq(Link) /\ updates \in Seq(UpdateMsg)
    BY <2>4
  <2> HIDE DEF WebGraphInit
  <2> QED
    BY <2>1, <2>2, <2>3, <2>4, <2>5, <2>6 DEF WebGraphTypeOK
<1>4. ThreadTypeOK
  BY DEF ThreadTypeOK, Timers, IdleMaster, NoProgress, IdleTimer, Colour, Endpoint
<1> QED
  BY <1>3, <1>4 DEF GraphInv

(* An upload, under the Master's monitor. *)
LEMMA UploadGraphInv ==
    ASSUME GraphInv,
           (\E u \in Uploads : StartWorkConfig(u)) \/ AddEdgeStep \/ SetLocations
    PROVE  GraphInv'
<1> USE BoundAssumption DEF GraphInv
<1>1. ASSUME NEW u \in Uploads, StartWorkConfig(u)
      PROVE  GraphInv'
  <2>1. u \in Seq(Link)
    BY UploadsAssumption
  <2>2. uploads' \in 0 .. MaxUploads
    BY <1>1 DEF StartWorkConfig, WebGraphTypeOK
  <2>3. WebGraphTypeOK'
    BY <1>1, <2>1, <2>2 DEF StartWorkConfig, WebGraphTypeOK, graphVars, Known
  <2>4. ThreadTypeOK'
    BY <1>1, <2>1 DEF StartWorkConfig, ThreadTypeOK
  <2> QED
    BY <2>3, <2>4
<1>2. ASSUME NEW l \in Link, AddMissingNode(l) \/ AddMissingSet(l)
      PROVE  GraphInv'
  <2>1. \A S : FirstMissingOf(l, S) \in Endpoint
    BY DEF FirstMissingOf, Link, Endpoint
  <2>2. CASE AddMissingNode(l)
    <3> DEFINE n == FirstMissingOf(l, Known)
    <3>1. nodesMap' = Extend(nodesMap, {n}, FALSE) /\ n \in Endpoint
      BY <2>1, <2>2 DEF AddMissingNode
    <3> HIDE DEF n
    <3>2. Known' = Known \cup {n} /\ nodesMap' \in [Known' -> BOOLEAN]
      BY <3>1 DEF Extend, Known, WebGraphTypeOK
    <3> QED
      BY <2>2, <3>1, <3>2 DEF AddMissingNode, WebGraphTypeOK, ThreadTypeOK, threadVars, countVars
  <2>3. CASE AddMissingSet(l)
    <3> DEFINE n == FirstMissingOf(l, DOMAIN downstreamNodes)
    <3>1. downstreamNodes' = Extend(downstreamNodes, {n}, {}) /\ n \in Endpoint
      BY <2>1, <2>3 DEF AddMissingSet
    <3> HIDE DEF n
    <3>2. /\ DOMAIN downstreamNodes' = DOMAIN downstreamNodes \cup {n}
          /\ \A x \in DOMAIN downstreamNodes' : downstreamNodes'[x] \subseteq {x} \X NodeId
      BY <3>1 DEF Extend, WebGraphTypeOK
    <3> QED
      BY <2>3, <3>1, <3>2
         DEF AddMissingSet, WebGraphTypeOK, ThreadTypeOK, threadVars, countVars, Known
  <2> QED
    BY <1>2, <2>2, <2>3
<1>4. ASSUME NEW l \in Link, AddLink(l)
      PROVE  GraphInv'
  <2>1. l[2] \in NodeId /\ l = <<l[1], l[2]>> /\ l[1] \in DOMAIN downstreamNodes
    BY <1>4 DEF Link, AddLink, HasBoth
  <2>2. Tail(master.calls) \in Seq(Link)
    BY <1>4 DEF AddLink, Adding, WebGraphTypeOK
  <2>3. /\ downstreamNodes' = [downstreamNodes EXCEPT ![l[1]] = @ \cup {l}]
        /\ master' = [master EXCEPT !.calls = Tail(@)]
        /\ UNCHANGED <<nodesMap, colour, streamStatus, progress, timer, uploads, resets,
                       registered, updates>>
    BY <1>4 DEF AddLink, countVars
  <2>4. /\ DOMAIN downstreamNodes' = DOMAIN downstreamNodes
        /\ \A n \in DOMAIN downstreamNodes : downstreamNodes'[n] \subseteq {n} \X NodeId
    BY <2>1, <2>3 DEF WebGraphTypeOK
  <2>5. master' \in [at : {"idle", "adding", "clearing"}, calls : Seq(Link)]
    BY <2>2, <2>3 DEF ThreadTypeOK
  <2>6. WebGraphTypeOK'
    BY <2>3, <2>4, <2>5 DEF WebGraphTypeOK, Known
  <2> QED
    BY <2>3, <2>5, <2>6 DEF ThreadTypeOK
<1>3. ASSUME SetLocations
      PROVE  GraphInv'
  <2>1. Known' = Known /\ nodesMap' \in [Known' -> BOOLEAN]
    BY <1>3 DEF SetLocations, Known
  <2>2. WebGraphTypeOK'
    BY <1>3, <2>1 DEF SetLocations, WebGraphTypeOK, IdleMaster, countVars
  <2>3. ThreadTypeOK'
    BY <1>3 DEF SetLocations, ThreadTypeOK, IdleMaster
  <2> QED
    BY <2>2, <2>3
<1> QED
  BY <1>1, <1>2, <1>3, <1>4 DEF AddEdgeStep

(* A reset, in its two halves. *)
LEMMA ResetGraphInv ==
    ASSUME GraphInv, ResetNodes \/ ResetEdges
    PROVE  GraphInv'
<1> USE BoundAssumption DEF GraphInv
<1> DEFINE now == CurrentNodes(timer.nodes)
           then == CurrentEdges(timer.edges)
<1>1. /\ now \in SUBSET (Endpoint \X {"live", "placed", "nowhere"})
      /\ then \in SUBSET ((NodeId \X NodeId) \X (Colour \cup {"live"}))
  BY CurrentType
<1> HIDE DEF now, then
<1>2. CASE ResetNodes
  <2> DEFINE hand == IF timer.at = "nodes" /\ timer.next # End /\ timer.held = "live"
                     THEN Place(Table[timer.next]) ELSE timer.held
  <2>1. timer' = [timer EXCEPT !.nodes = now, !.held = hand]
    BY <1>2 DEF ResetNodes, now, ThreadTypeOK, Timers
  <2>6. hand \in {"live", "placed", "nowhere"}
    BY DEF ThreadTypeOK, Timers, Place
  <2> HIDE DEF hand
  <2>7. timer \in Timers
    BY DEF ThreadTypeOK
  <2>8. timer' \in Timers
    BY <1>1, <2>1, <2>6, <2>7 DEF Timers
  <2>9. master' \in [at : {"idle", "adding", "clearing"}, calls : Seq(Link)]
        /\ progress' = progress
    BY <1>2 DEF ResetNodes
  <2>2. ThreadTypeOK'
    BY <2>8, <2>9 DEF ThreadTypeOK
  <2>3. Known' = {} /\ nodesMap' \in [Known' -> BOOLEAN]
    BY <1>2 DEF ResetNodes, Known
  <2>4. resets' \in 0 .. MaxResets
    BY <1>2 DEF ResetNodes, WebGraphTypeOK
  <2>5. WebGraphTypeOK'
    BY <1>2, <2>2, <2>3, <2>4 DEF ResetNodes, WebGraphTypeOK, ThreadTypeOK, Timers
  <2> QED
    BY <2>2, <2>5
<1>3. CASE ResetEdges
  <2>1. timer' = [timer EXCEPT !.edges = then, !.seen = {}]
    BY <1>3 DEF ResetEdges, then, ThreadTypeOK, Timers
  <2>2. ThreadTypeOK'
    <3>1. timer' \in Timers
      BY <1>1, <2>1 DEF ThreadTypeOK, Timers
    <3>2. progress'.colour = "blue" /\ "blue" \in Colour
      BY <1>3 DEF ResetEdges, NoProgress, Colour
    <3>3. master' \in [at : {"idle", "adding", "clearing"}, calls : Seq(Link)]
      BY <1>3 DEF ResetEdges, IdleMaster
    <3> QED
      BY <3>1, <3>2, <3>3 DEF ThreadTypeOK
  <2>3. Known' = {Root} /\ nodesMap' \in [Known' -> BOOLEAN]
    BY <1>3 DEF ResetEdges, Known
  <2>4. WebGraphTypeOK'
    BY <1>3, <2>2, <2>3
       DEF ResetEdges, WebGraphTypeOK, ThreadTypeOK, Timers, Colour, countVars, NoProgress,
           Endpoint
  <2> QED
    BY <2>2, <2>4
<1> QED
  BY <1>2, <1>3

(* The stream reports. *)
LEMMA ReportGraphInv ==
    ASSUME GraphInv,
           \/ \E l \in Streams : ReceiveStart(l) \/ ReceiveEnd(l)
           \/ \E l \in Streams, c \in RateColours : TestStatus(l, c)
           \/ ColourEdge
    PROVE  GraphInv'
<1> USE DEF GraphInv
<1>1. RateColours \subseteq Colour
  BY RateColoursAssumption DEF Colour
<1>2. "green" \in Colour /\ "black" \in Colour /\ "blue" \in Colour
  BY DEF Colour
<1>a. progress.colour \in Colour /\ progress.at \in {"idle", "tested"}
      /\ colour \in [Link -> Colour] /\ streamStatus \in [Link -> {"none", "start", "end"}]
  BY DEF ThreadTypeOK, WebGraphTypeOK
<1>3. progress'.colour \in Colour /\ progress'.at \in {"idle", "tested"}
  <2>1. ASSUME NEW l \in Streams, ReceiveStart(l) \/ ReceiveEnd(l)
        PROVE  progress' = progress
    BY <2>1 DEF ReceiveStart, ReceiveEnd, threadVars
  <2>2. ASSUME NEW l \in Streams, NEW c \in RateColours, TestStatus(l, c)
        PROVE  progress'.colour = c /\ progress'.at = "tested"
    BY <2>2 DEF TestStatus
  <2>3. ASSUME ColourEdge
        PROVE  progress'.colour = "blue" /\ progress'.at = "idle"
    BY <2>3 DEF ColourEdge, NoProgress
  <2> QED
    BY <1>1, <1>2, <1>a, <2>1, <2>2, <2>3
<1>4. colour' \in [Link -> Colour] /\ streamStatus' \in [Link -> {"none", "start", "end"}]
  <2>1. ASSUME NEW l \in Streams, ReceiveStart(l) \/ ReceiveEnd(l)
        PROVE  colour' \in [Link -> Colour] /\ streamStatus' \in [Link -> {"none", "start", "end"}]
    BY <1>2, <1>a, <2>1 DEF ReceiveStart, ReceiveEnd
  <2>2. ASSUME NEW l \in Streams, NEW c \in RateColours, TestStatus(l, c)
        PROVE  colour' = colour /\ streamStatus' = streamStatus
    BY <2>2 DEF TestStatus, graphVars
  <2>3. ASSUME ColourEdge
        PROVE  colour' \in [Link -> Colour] /\ streamStatus' = streamStatus
    BY <1>a, <2>3 DEF ColourEdge
  <2> QED
    BY <1>a, <2>1, <2>2, <2>3
<1>5. UNCHANGED <<nodesMap, downstreamNodes, master, timer, uploads, resets, registered, updates>>
  BY DEF ReceiveStart, ReceiveEnd, TestStatus, ColourEdge, graphVars, threadVars, countVars
<1> QED
  BY <1>3, <1>4, <1>5 DEF ThreadTypeOK, WebGraphTypeOK, Known

(* A progress report that finds no edge. *)
LEMMA NoEdgeGraphInv ==
    ASSUME GraphInv, NEW l \in Streams, ReportNoEdge(l)
    PROVE  GraphInv'
<1>1. l[1] \in Endpoint
  BY StreamsAssumption DEF Endpoint
<1>2. /\ downstreamNodes' = Extend(downstreamNodes, {l[1]}, {})
      /\ UNCHANGED <<nodesMap, colour, streamStatus, master, progress, timer, uploads, resets,
                     registered, updates>>
  BY DEF ReportNoEdge, threadVars, countVars
<1>3. /\ DOMAIN downstreamNodes' = DOMAIN downstreamNodes \cup {l[1]}
      /\ \A x \in DOMAIN downstreamNodes' : downstreamNodes'[x] \subseteq {x} \X NodeId
  BY <1>2 DEF Extend, GraphInv, WebGraphTypeOK
<1> QED
  BY <1>1, <1>2, <1>3 DEF GraphInv, WebGraphTypeOK, ThreadTypeOK, Known

(* The timer. *)
LEMMA TimerGraphInv ==
    ASSUME GraphInv, TimerStep
    PROVE  GraphInv'
<1> USE DEF GraphInv
<1> USE DEF Timers
<1>0. timer \in Timers /\ IdleTimer \in Timers
  BY DEF ThreadTypeOK, IdleTimer, Endpoint
<1>1. \A t \in Timers : t.at \in {"idle", "nodes", "edges", "got", "dead"}
  OBVIOUS
<1>2. ASSUME UNCHANGED <<graphVars, master, progress, countVars, registered>>, timer' \in Timers,
             updates' \in Seq(UpdateMsg)
      PROVE  GraphInv'
  BY <1>2 DEF ThreadTypeOK, WebGraphTypeOK, graphVars, countVars, Known
<1>3. updates \in Seq(UpdateMsg)
  BY DEF WebGraphTypeOK
<1>10. NextFrom(0) \in DOMAIN Table \cup {End}
       /\ NextFrom(timer.next) \in DOMAIN Table \cup {End}
  BY NextFromIsPlace
<1>4. CASE ReadNodes \/ NodesRead
  <2>1. timer' \in Timers
    BY <1>0, <1>4, <1>10 DEF ReadNodes, NodesRead
  <2> QED
    BY <1>2, <1>3, <1>4, <2>1 DEF ReadNodes, NodesRead
<1>9. CASE ReadNode
  <2>1. PICK taken \in BOOLEAN :
            timer' = [timer EXCEPT
                 !.nodes = IF taken THEN @ \cup {<<Table[timer.next], timer.held>>} ELSE @,
                 !.held = "live",
                 !.next = NextFrom(timer.next)]
    BY <1>9 DEF ReadNode
  <2>2. Table[timer.next] \in Endpoint
    BY <1>9, TableAssumption DEF ReadNode, ThreadTypeOK
  <2> DEFINE with == IF taken THEN timer.nodes \cup {<<Table[timer.next], timer.held>>}
                     ELSE timer.nodes
  <2>4. with \in SUBSET (Endpoint \X {"live", "placed", "nowhere"})
    BY <1>0, <2>2
  <2>5. timer' = [timer EXCEPT !.nodes = with, !.held = "live", !.next = NextFrom(timer.next)]
    BY <2>1
  <2> HIDE DEF with
  <2>3. timer' \in Timers
    BY <1>0, <1>10, <2>4, <2>5
  <2> QED
    BY <1>2, <1>3, <1>9, <2>3 DEF ReadNode
<1>5. CASE NextNode
  <2> DEFINE n == Table[timer.next]
             found == downstreamNodes'[n]
  <2>1. n \in Endpoint
    BY <1>5, TableAssumption DEF NextNode, ThreadTypeOK, Endpoint
  <2>2. downstreamNodes' = Extend(downstreamNodes, {n}, {})
    BY <1>5 DEF NextNode
  <2>3. /\ DOMAIN downstreamNodes' = DOMAIN downstreamNodes \cup {n}
        /\ \A x \in DOMAIN downstreamNodes' : downstreamNodes'[x] \subseteq {x} \X NodeId
    BY <2>2 DEF Extend, WebGraphTypeOK
  <2>4. found \in SUBSET Link
    BY <2>1, <2>3 DEF Link, Endpoint
  <2>5. timer' = [timer EXCEPT !.at = "got", !.cur = n, !.seen = found,
                               !.next = NextFrom(timer.next)]
    BY <1>5, <2>2 DEF NextNode
  <2> HIDE DEF n, found
  <2>6. timer' \in Timers
    BY <1>0, <2>1, <2>4, <2>5, NextFromIsPlace
  <2>7. UNCHANGED <<nodesMap, colour, streamStatus, master, progress, uploads, resets,
                    registered, updates>>
    BY <1>5 DEF NextNode, countVars
  <2>8. WebGraphTypeOK'
    BY <1>1, <2>1, <2>3, <2>6, <2>7 DEF WebGraphTypeOK, Known, Endpoint
  <2> QED
    BY <2>6, <2>7, <2>8 DEF ThreadTypeOK
<1>6. CASE CollectEdges
  <2> DEFINE more == {<<l, "live">> : l \in {m \in downstreamNodes[timer.cur] : m[1] # Root}}
  <2>1. more \in SUBSET ((NodeId \X NodeId) \X (Colour \cup {"live"}))
    <3>1. downstreamNodes[timer.cur] \subseteq {timer.cur} \X NodeId /\ timer.cur \in Endpoint
      BY <1>6 DEF CollectEdges, WebGraphTypeOK
    <3> QED
      BY <3>1 DEF Endpoint
  <2>2. timer' = [timer EXCEPT !.at = "edges", !.edges = @ \cup more]
    BY <1>6 DEF CollectEdges
  <2> HIDE DEF more
  <2>3. timer' \in Timers
    BY <1>0, <2>1, <2>2
  <2> QED
    BY <1>2, <1>3, <1>6, <2>3 DEF CollectEdges
<1>7. CASE TimerDies
  BY <1>0, <1>2, <1>3, <1>7 DEF TimerDies
<1>8. CASE SendUpdate
  <2> DEFINE msg == [nodes |-> CurrentNodes(timer.nodes), edges |-> CurrentEdges(timer.edges)]
  <2>1. msg \in UpdateMsg
    BY CurrentType DEF UpdateMsg
  <2>2. updates' = IF registered THEN Append(updates, msg) ELSE updates
    BY <1>8 DEF SendUpdate, UpdateWebClient
  <2> HIDE DEF msg
  <2>3. updates' \in Seq(UpdateMsg)
    BY <1>3, <2>1, <2>2
  <2> QED
    BY <1>0, <1>2, <1>8, <2>3 DEF SendUpdate
<1> QED
  BY <1>4, <1>5, <1>6, <1>7, <1>8, <1>9 DEF TimerStep

(* The steps of the page and of the connection. *)
LEMMA OthersGraphInv ==
    ASSUME GraphInv, UNCHANGED webGraphVars, registered' \in BOOLEAN,
           updates' = updates \/ updates' = <<>> \/ (updates # <<>> /\ updates' = Tail(updates))
    PROVE  GraphInv'
<1>1. updates' \in Seq(UpdateMsg)
  <2>1. updates \in Seq(UpdateMsg)
    BY DEF GraphInv, WebGraphTypeOK
  <2>2. updates # <<>> => Tail(updates) \in Seq(UpdateMsg)
    BY <2>1
  <2>3. <<>> \in Seq(UpdateMsg)
    OBVIOUS
  <2> QED
    BY <2>1, <2>2, <2>3
<1>2. UNCHANGED <<nodesMap, downstreamNodes, colour, streamStatus, master, progress, timer,
                  uploads, resets>>
  BY DEF webGraphVars, graphVars, threadVars, countVars
<1>3. WebGraphTypeOK'
  BY <1>1, <1>2 DEF GraphInv, WebGraphTypeOK, Known
<1>4. ThreadTypeOK'
  BY <1>2 DEF GraphInv, ThreadTypeOK
<1> QED
  BY <1>3, <1>4 DEF GraphInv

(* What a step of the page does to the updates. *)
LEMMA PageTakesUpdates ==
    ASSUME GraphInv, ClientStep \/ Connect
    PROVE  /\ UNCHANGED webGraphVars /\ registered' \in BOOLEAN
           /\ updates' = updates \/ updates' = <<>> \/ (updates # <<>> /\ updates' = Tail(updates))
<1>1. registered \in BOOLEAN
  BY DEF GraphInv, WebGraphTypeOK
<1>2. CASE Connect
  BY <1>2 DEF Connect, RegisterWebClient
<1>3. CASE PageStep /\ UNCHANGED webGraphVars
  BY <1>1, <1>3 DEF PageStep, CreateGraph, RebuildGraph, UpdateGraph, Receive
<1>4. CASE MouseStep /\ UNCHANGED webGraphVars
  BY <1>1, <1>4 DEF MouseStep
<1>5. CASE Reload /\ UNCHANGED webGraphVars
  BY <1>5 DEF Reload
<1> QED
  BY <1>2, <1>3, <1>4, <1>5 DEF ClientStep

(* Every step keeps the types. *)
LEMMA StepGraphInv == GraphInv /\ [Next]_vars => GraphInv'
<1> SUFFICES ASSUME GraphInv, [Next]_vars
             PROVE  GraphInv'
  OBVIOUS
<1>1. CASE MasterStep
  BY <1>1, UploadGraphInv, ResetGraphInv, ReportGraphInv, NoEdgeGraphInv, TimerGraphInv
     DEF MasterStep, WebGraphNext
<1>2. CASE ClientStep \/ Connect
  BY <1>2, PageTakesUpdates, OthersGraphInv
<1>3. CASE UNCHANGED vars
  BY <1>3, OthersGraphInv DEF vars, GraphInv, WebGraphTypeOK
<1> QED
  BY <1>1, <1>2, <1>3 DEF Next

(* The types hold at all times: the bookkeeping of the Master's graph, of the
   threads that read and write it, and of the updates in flight. *)
THEOREM WebGraphTypeCorrect == Spec => []WebGraphTypeOK
<1>1. Init => GraphInv
  BY InitGraphInv DEF Init
<1>2. GraphInv /\ [Next]_vars => GraphInv'
  BY StepGraphInv
<1>3. GraphInv => WebGraphTypeOK
  BY DEF GraphInv
<1> QED
  BY <1>1, <1>2, <1>3, PTL DEF Spec

-----------------------------------------------------------------------------
(* What the page is told. *)

\* An update, or what the timer has of it, names what the Master knows.
HeldIsTrue ==
    /\ \A r \in timer.nodes : r[1] \in RealNodes
    /\ \A r \in timer.edges : r[1] \in Shown
    /\ timer.held = "live"
    /\ timer.at = "nodes" /\ timer.next # End => Table[timer.next] \in Known

SentIsTrue ==
    \A i \in DOMAIN updates :
        MsgNodeIds(updates[i]) \subseteq RealNodes /\ MsgEdgeIds(updates[i]) \subseteq Shown

TrueInv == resets = 0 => master.at # "clearing" /\ HeldIsTrue /\ SentIsTrue

(* Giving the links of more nodes, or more links, keeps those there are. *)
LEMMA LinksKeep ==
    ASSUME \A n \in DOMAIN downstreamNodes :
               n \in DOMAIN downstreamNodes' /\ downstreamNodes[n] \subseteq downstreamNodes'[n]
    PROVE  Shown \subseteq Shown'
BY DEF Shown, Links

(* Without a reset, nothing goes away. *)
LEMMA GraphGrows ==
    ASSUME GraphInv, MasterStep, resets' = 0, TrueInv
    PROVE  /\ resets = 0 /\ master.at # "clearing" /\ master'.at # "clearing"
           /\ Known \subseteq Known' /\ Shown \subseteq Shown'
           /\ RealNodes \subseteq RealNodes'
<1> SUFFICES /\ resets = 0 /\ master.at # "clearing" /\ master'.at # "clearing"
             /\ Known \subseteq Known' /\ Shown \subseteq Shown'
  BY DEF RealNodes
<1>1. WebGraphNext /\ resets \in Nat
  BY BoundAssumption DEF MasterStep, GraphInv, WebGraphTypeOK
<1> USE DEF Known
<1>2. CASE AddEdgeStep
  <2>1. PICK l \in Link : AddMissingNode(l) \/ AddMissingSet(l) \/ AddLink(l)
    BY <1>2 DEF AddEdgeStep
  <2>2. resets' = resets /\ master.at = "adding" /\ master'.at = "adding"
    BY <2>1 DEF AddMissingNode, AddMissingSet, AddLink, Adding, threadVars, countVars, GraphInv,
                ThreadTypeOK
  <2>3. CASE AddMissingNode(l)
    <3>1. Known \subseteq Known' /\ downstreamNodes' = downstreamNodes
      BY <2>3 DEF AddMissingNode, Extend
    <3> QED
      BY <2>2, <3>1, LinksKeep
  <2>4. CASE AddMissingSet(l)
    <3>1. /\ Known' = Known
          /\ \A n \in DOMAIN downstreamNodes :
                n \in DOMAIN downstreamNodes' /\ downstreamNodes[n] \subseteq downstreamNodes'[n]
      BY <2>4 DEF AddMissingSet, Extend
    <3> QED
      BY <2>2, <3>1, LinksKeep
  <2>5. CASE AddLink(l)
    <3>1. /\ Known' = Known
          /\ \A n \in DOMAIN downstreamNodes :
                n \in DOMAIN downstreamNodes' /\ downstreamNodes[n] \subseteq downstreamNodes'[n]
      BY <2>5 DEF AddLink
    <3> QED
      BY <2>2, <3>1, LinksKeep
  <2> QED
    BY <2>1, <2>3, <2>4, <2>5
<1>3. CASE NextNode \/ \E l \in Streams : ReportNoEdge(l)
  <2>1. /\ \E n : downstreamNodes' = Extend(downstreamNodes, {n}, {})
        /\ UNCHANGED <<nodesMap, resets, master>>
    BY <1>3 DEF NextNode, ReportNoEdge, countVars, threadVars
  <2>2. \A n \in DOMAIN downstreamNodes :
            n \in DOMAIN downstreamNodes' /\ downstreamNodes[n] \subseteq downstreamNodes'[n]
    BY <2>1 DEF Extend
  <2>3. Shown \subseteq Shown'
    BY <2>2, LinksKeep
  <2> QED
    BY <2>1, <2>3 DEF TrueInv
<1>4. CASE ResetNodes
  <2>1. resets' = resets + 1
    BY <1>4 DEF ResetNodes
  <2> QED
    BY <1>1, <2>1
<1>5. CASE ResetEdges
  <2>1. resets' = resets /\ master.at = "clearing"
    BY <1>5 DEF ResetEdges, countVars
  <2> QED
    BY <2>1 DEF TrueInv
<1>6. CASE \/ \E u \in Uploads : StartWorkConfig(u)
           \/ SetLocations
           \/ \E l \in Streams : ReceiveStart(l) \/ ReceiveEnd(l)
           \/ \E l \in Streams, c \in RateColours : TestStatus(l, c)
           \/ ColourEdge \/ ReadNodes \/ ReadNode \/ NodesRead \/ CollectEdges
           \/ TimerDies \/ SendUpdate
  <2>1. UNCHANGED <<downstreamNodes, resets>> /\ Known' = Known
    BY <1>6 DEF StartWorkConfig, SetLocations, ReceiveStart, ReceiveEnd, TestStatus, ColourEdge,
                ReadNodes, ReadNode, NodesRead, CollectEdges, TimerDies, SendUpdate, graphVars,
                countVars
  <2>2. Shown' = Shown
    BY <2>1 DEF Shown, Links
  <2>3. master' = master \/ master'.at \in {"adding", "idle"}
    <3>1. master' = master \/ (\E u \in Uploads : StartWorkConfig(u)) \/ SetLocations
      BY <1>6, Zenon
         DEF ReceiveStart, ReceiveEnd, TestStatus, ColourEdge, ReadNodes, ReadNode, NodesRead,
             CollectEdges, TimerDies, SendUpdate, threadVars
    <3>2. SetLocations \/ (\E u \in Uploads : StartWorkConfig(u)) =>
              master'.at \in {"adding", "idle"}
      BY DEF StartWorkConfig, SetLocations, IdleMaster
    <3> QED
      BY <3>1, <3>2
  <2> QED
    BY <2>1, <2>2, <2>3 DEF TrueInv
<1> QED
  BY <1>1, <1>2, <1>3, <1>4, <1>5, <1>6 DEF WebGraphNext, TimerStep

(* What the timer has stays true, and what it takes in is. *)
LEMMA HeldStaysTrue ==
    ASSUME GraphInv, MasterStep, resets' = 0, TrueInv
    PROVE  HeldIsTrue'
<1>1. /\ resets = 0 /\ master.at # "clearing"
      /\ Known \subseteq Known' /\ Shown \subseteq Shown' /\ RealNodes \subseteq RealNodes'
  BY GraphGrows
<1>2. HeldIsTrue /\ timer \in Timers
  BY <1>1 DEF TrueInv, GraphInv, ThreadTypeOK
<1>3. ASSUME timer'.nodes = timer.nodes, timer'.edges = timer.edges, timer'.held = "live",
             timer'.at # "nodes"
      PROVE  HeldIsTrue'
  BY <1>1, <1>2, <1>3 DEF HeldIsTrue
<1>4. ASSUME timer'.nodes = {}, timer'.edges = {}, timer'.held = "live", timer'.at # "nodes"
      PROVE  HeldIsTrue'
  BY <1>4 DEF HeldIsTrue
<1>5. CASE ReadNodes
  <2>1. /\ timer'.nodes = {} /\ timer'.edges = {} /\ timer'.held = "live"
        /\ timer'.next = NextFrom(0)
    BY <1>5 DEF ReadNodes, IdleTimer
  <2>2. NextFrom(0) # End => Table[NextFrom(0)] \in Known
    BY NextFromIsPlace
  <2> QED
    BY <1>1, <2>1, <2>2 DEF HeldIsTrue
<1>11. CASE ReadNode
  <2> DEFINE n == Table[timer.next]
  <2>1. PICK taken \in BOOLEAN :
            /\ n = Root /\ taken => timer.held # "live"
            /\ timer' = [timer EXCEPT
                 !.nodes = IF taken THEN @ \cup {<<n, timer.held>>} ELSE @,
                 !.held = "live",
                 !.next = NextFrom(timer.next)]
    BY <1>11 DEF ReadNode
  <2>2. n \in Known
    BY <1>2, <1>11 DEF HeldIsTrue, ReadNode
  <2>3. taken => n \in RealNodes
    BY <1>2, <2>1, <2>2 DEF HeldIsTrue, RealNodes
  <2>4. \A r \in timer'.nodes : r[1] \in RealNodes
    <3>1. timer'.nodes = IF taken THEN timer.nodes \cup {<<n, timer.held>>} ELSE timer.nodes
      BY <1>2, <2>1 DEF Timers
    <3> HIDE DEF n
    <3> QED
      BY <1>2, <2>3, <3>1 DEF HeldIsTrue
  <2>5. timer'.edges = timer.edges /\ timer'.held = "live" /\ timer'.next = NextFrom(timer.next)
    BY <1>2, <2>1 DEF Timers
  <2>6. NextFrom(timer.next) # End => Table[NextFrom(timer.next)] \in Known
    BY NextFromIsPlace
  <2> QED
    BY <1>1, <1>2, <2>4, <2>5, <2>6 DEF HeldIsTrue
<1>12. CASE NodesRead
  BY <1>2, <1>3, <1>12 DEF NodesRead, Timers, HeldIsTrue
<1>6. CASE CollectEdges
  <2> DEFINE more == {<<l, "live">> : l \in {m \in downstreamNodes[timer.cur] : m[1] # Root}}
  <2>1. timer' = [timer EXCEPT !.at = "edges", !.edges = @ \cup more]
        /\ timer.cur \in DOMAIN downstreamNodes
    BY <1>6 DEF CollectEdges
  <2>2. \A r \in more : r[1] \in Shown
    BY <2>1 DEF Shown, Links
  <2> HIDE DEF more
  <2>3. /\ timer'.nodes = timer.nodes /\ timer'.edges = timer.edges \cup more
        /\ timer'.held = timer.held /\ timer'.at = "edges"
    BY <1>2, <2>1 DEF Timers
  <2> QED
    BY <1>1, <1>2, <2>2, <2>3 DEF HeldIsTrue
<1>7. CASE NextNode
  BY <1>2, <1>3, <1>7 DEF NextNode, Timers, HeldIsTrue
<1>8. CASE TimerDies \/ SendUpdate
  BY <1>4, <1>8 DEF TimerDies, SendUpdate, IdleTimer
<1>9. CASE ResetNodes \/ ResetEdges
  <2>1. ResetNodes => resets' = resets + 1
    BY DEF ResetNodes
  <2>2. ResetEdges => master.at = "clearing"
    BY DEF ResetEdges
  <2> QED
    BY <1>1, <1>9, <2>1, <2>2
<1>10. CASE timer' = timer
  BY <1>1, <1>2, <1>10 DEF HeldIsTrue
<1> QED
  BY <1>5, <1>6, <1>7, <1>8, <1>9, <1>10, <1>11, <1>12
     DEF MasterStep, WebGraphNext, TimerStep, StartWorkConfig, AddEdgeStep, AddMissingNode,
         AddMissingSet, AddLink, SetLocations, ReceiveStart, ReceiveEnd, ReportNoEdge, TestStatus,
         ColourEdge, threadVars

(* The updates in flight stay true, and the next one is. *)
LEMMA SentStaysTrue ==
    ASSUME GraphInv, MasterStep, resets' = 0, TrueInv
    PROVE  SentIsTrue'
<1>1. resets = 0 /\ RealNodes \subseteq RealNodes' /\ Shown \subseteq Shown'
  BY GraphGrows
<1>2. HeldIsTrue /\ SentIsTrue
  BY <1>1 DEF TrueInv
<1>3. CASE updates' = updates
  BY <1>1, <1>2, <1>3 DEF SentIsTrue, MsgNodeIds, MsgEdgeIds
<1>4. CASE SendUpdate
  <2> DEFINE msg == [nodes |-> CurrentNodes(timer.nodes), edges |-> CurrentEdges(timer.edges)]
  <2>1. MsgNodeIds(msg) \subseteq RealNodes /\ MsgEdgeIds(msg) \subseteq Shown
    BY <1>2 DEF HeldIsTrue, MsgNodeIds, MsgEdgeIds, CurrentNodes, CurrentEdges
  <2>2. updates' = updates \/ updates' = Append(updates, msg)
    BY <1>4 DEF SendUpdate, UpdateWebClient
  <2> HIDE DEF msg
  <2>3. CASE updates' = Append(updates, msg)
    <3>1. updates \in Seq(UpdateMsg)
      BY DEF GraphInv, WebGraphTypeOK
    <3>2. DOMAIN updates' = 1 .. Len(updates) + 1 /\ DOMAIN updates = 1 .. Len(updates)
          /\ Len(updates) \in Nat
      BY <2>3, <3>1
    <3>3. \A i \in 1 .. Len(updates) : updates'[i] = updates[i]
      BY <2>3, <3>1
    <3>4. updates'[Len(updates) + 1] = msg
      BY <2>3, <3>1
    <3>5. ASSUME NEW i \in DOMAIN updates'
          PROVE  MsgNodeIds(updates'[i]) \subseteq RealNodes /\ MsgEdgeIds(updates'[i]) \subseteq Shown
      <4>1. CASE i \in DOMAIN updates
        BY <1>2, <3>2, <3>3, <4>1 DEF SentIsTrue
      <4>2. CASE i = Len(updates) + 1
        BY <2>1, <3>4, <4>2
      <4> QED
        BY <3>2, <3>5, <4>1, <4>2
    <3> QED
      BY <1>1, <3>5 DEF SentIsTrue, MsgNodeIds, MsgEdgeIds
  <2> QED
    BY <1>3, <2>2, <2>3
<1> QED
  BY <1>3, <1>4
     DEF MasterStep, WebGraphNext, TimerStep, StartWorkConfig, AddEdgeStep, AddMissingNode,
         AddMissingSet, AddLink, SetLocations, ResetNodes, ResetEdges, ReceiveStart, ReceiveEnd,
         ReportNoEdge, TestStatus, ColourEdge, ReadNodes, ReadNode, NodesRead, NextNode,
         CollectEdges, TimerDies

(* The page only takes updates away. *)
LEMMA PageKeepsTrue ==
    ASSUME GraphInv, TrueInv, UNCHANGED webGraphVars,
           updates' = updates \/ updates' = <<>> \/ (updates # <<>> /\ updates' = Tail(updates))
    PROVE  TrueInv'
<1>1. UNCHANGED <<nodesMap, downstreamNodes, master, timer, resets>>
  BY DEF webGraphVars, graphVars, threadVars, countVars
<1>2. Known' = Known /\ RealNodes' = RealNodes /\ Shown' = Shown
  BY <1>1 DEF Known, RealNodes, Shown, Links
<1>3. HeldIsTrue => HeldIsTrue'
  BY <1>1, <1>2 DEF HeldIsTrue
<1>4. SentIsTrue => SentIsTrue'
  <2>1. ASSUME NEW i \in DOMAIN updates', SentIsTrue
        PROVE  \E j \in DOMAIN updates : updates'[i] = updates[j]
    <3>1. updates \in Seq(UpdateMsg)
      BY DEF GraphInv, WebGraphTypeOK
    <3>2. CASE updates' = <<>>
      BY <2>1, <3>2
    <3>3. CASE updates # <<>> /\ updates' = Tail(updates)
      <4>1. DOMAIN updates' = 1 .. Len(updates) - 1 /\ DOMAIN updates = 1 .. Len(updates)
            /\ Len(updates) \in Nat
        BY <3>1, <3>3
      <4>2. updates'[i] = updates[i + 1] /\ i + 1 \in DOMAIN updates
        <5>1. i \in 1 .. Len(updates) - 1
          BY <2>1, <4>1
        <5>2. \A j \in 1 .. Len(updates) - 1 : Tail(updates)[j] = updates[j + 1]
          BY <3>1, <3>3
        <5>3. updates' = Tail(updates)
          BY <3>3
        <5>4. updates'[i] = updates[i + 1]
          BY <5>1, <5>2, <5>3, Zenon
        <5>5. i + 1 \in DOMAIN updates
          BY <4>1, <5>1
        <5> QED
          BY <5>4, <5>5
      <4> QED
        BY <4>2
    <3> QED
      BY <2>1, <3>2, <3>3
  <2> QED
    BY <1>2, <2>1 DEF SentIsTrue, MsgNodeIds, MsgEdgeIds
<1> QED
  BY <1>1, <1>3, <1>4 DEF TrueInv

(* While nobody resets the simulation, every update in flight to the page names
   only nodes and links of the Master's graph (Master.java, WebClientGraph.java). *)
THEOREM UpdatesTellTheTruth == Spec => []UpdatesAreTrue
<1> DEFINE Inv == GraphInv /\ TrueInv
<1>1. Init => Inv
  <2> SUFFICES ASSUME Init PROVE Inv
    OBVIOUS
  <2>1. GraphInv
    BY InitGraphInv DEF Init
  <2>2. /\ DOMAIN updates = {} /\ timer.nodes = {} /\ timer.edges = {} /\ master.at = "idle"
        /\ timer.held = "live" /\ timer.at = "idle"
    BY DEF Init, WebGraphInit, IdleTimer, IdleMaster
  <2> QED
    BY <2>1, <2>2 DEF TrueInv, HeldIsTrue, SentIsTrue
<1>2. Inv /\ [Next]_vars => Inv'
  <2> SUFFICES ASSUME Inv, [Next]_vars PROVE TrueInv'
    BY StepGraphInv
  <2>1. CASE MasterStep
    BY <2>1, GraphGrows, HeldStaysTrue, SentStaysTrue DEF TrueInv
  <2>2. CASE ClientStep \/ Connect
    BY <2>2, PageTakesUpdates, PageKeepsTrue
  <2>3. CASE UNCHANGED vars
    BY <2>3, PageKeepsTrue DEF vars
  <2> QED
    BY <2>1, <2>2, <2>3 DEF Next
<1>3. Inv => UpdatesAreTrue
  BY DEF TrueInv, SentIsTrue, UpdatesAreTrue
<1> QED
  BY <1>1, <1>2, <1>3, PTL DEF Spec

-----------------------------------------------------------------------------
(* What the page shows. *)

SigmaShape == s = [alive |-> s.alive, graph |-> s.graph]
ScreenInv == SigmaShape /\ ScreenIsCurrent

\* Putting another graph in a sigma instance changes nothing else of it.
LEMMA OtherGraph ==
    ASSUME SigmaShape, NEW g, s' = [s EXCEPT !.graph = g]
    PROVE  s'.alive = s.alive /\ s'.graph = g /\ SigmaShape'
BY DEF SigmaShape

(* An update that makes or fills the graph draws it, or ends in an exception. *)
LEMMA FillKeepsScreen ==
    ASSUME ScreenInv, CreateGraph \/ RebuildGraph
    PROVE  ScreenInv'
<1>1. CASE CreateGraph
  <2> DEFINE made == Read(EmptyGraph, NodesOf(Head(updates)), EdgesOf(Head(updates).edges))
  <2> HIDE DEF made
  <2>1. CASE s' = [alive |-> TRUE, graph |-> made] /\ Refresh(s'.graph)
    BY <2>1 DEF ScreenInv, SigmaShape, ScreenIsCurrent, Refresh, Colours
  <2>2. CASE UNCHANGED viewVars
    BY <2>2 DEF ScreenInv, SigmaShape, ScreenIsCurrent, viewVars, Colours
  <2> QED
    BY <1>1, <2>1, <2>2 DEF CreateGraph, made
<1>2. CASE RebuildGraph
  <2>1. PICK g : s' = [s EXCEPT !.graph = g]
    BY <1>2 DEF RebuildGraph
  <2>2. s'.alive = s.alive /\ s'.graph = g /\ SigmaShape'
    BY <2>1, OtherGraph DEF ScreenInv
  <2>3. IF ~threw' THEN Refresh(s'.graph) ELSE UNCHANGED <<drawn, hovered>>
    BY <1>2 DEF RebuildGraph
  <2>4. ~threw' => drawn' = Colours(s'.graph) /\ hovered' = NodeIds(s'.graph)
    BY <2>3 DEF Refresh
  <2> QED
    BY <2>2, <2>4 DEF ScreenInv, ScreenIsCurrent, Colours
<1> QED
  BY <1>1, <1>2

(* An update in place draws the graph unless all its colours are what they were,
   or an exception came first. *)
LEMMA UpdateKeepsScreen ==
    ASSUME ScreenInv, UpdateGraph
    PROVE  ScreenInv'
<1> DEFINE h == Recoloured(s.graph, Head(updates))
           missing == FirstMissing(s.graph, Head(updates))
<1>1. IF NodeIds(s.graph) \subseteq MsgNodeIds(Head(updates))
      THEN /\ s' = [s EXCEPT !.graph = h]
           /\ IF missing = 0 /\ h # s.graph
              THEN Refresh(h) /\ threw' = FALSE
              ELSE threw' = (threw \/ missing # 0) /\ UNCHANGED <<drawn, hovered>>
      ELSE threw' = TRUE /\ UNCHANGED <<s, drawn, hovered>>
  BY DEF UpdateGraph
<1> HIDE DEF h, missing
<1>2. CASE threw' = TRUE /\ UNCHANGED <<s, drawn, hovered>>
  BY <1>2 DEF ScreenInv, SigmaShape, ScreenIsCurrent
<1>3. ASSUME s' = [s EXCEPT !.graph = h],
             IF missing = 0 /\ h # s.graph
             THEN Refresh(h) /\ threw' = FALSE
             ELSE threw' = (threw \/ missing # 0) /\ UNCHANGED <<drawn, hovered>>
      PROVE  ScreenInv'
  <2>1. s'.alive = s.alive /\ s'.graph = h /\ SigmaShape'
    BY <1>3, OtherGraph DEF ScreenInv
  <2>2. CASE missing = 0 /\ h # s.graph
    BY <1>3, <2>1, <2>2 DEF ScreenInv, ScreenIsCurrent, Refresh, Colours
  <2>3. CASE missing # 0
    <3>1. threw'
      BY <1>3, <2>3, Zenon
    <3> QED
      BY <2>1, <3>1 DEF ScreenInv, ScreenIsCurrent
  <2>4. CASE missing = 0 /\ h = s.graph
    <3>1. threw' => threw
      BY <1>3, <2>4, Zenon
    <3>2. threw => threw'
      BY <1>3, <2>4, Zenon
    <3>3. UNCHANGED <<drawn, hovered>>
      BY <1>3, <2>4
    <3> QED
      BY <2>1, <2>4, <3>1, <3>2, <3>3 DEF ScreenInv, ScreenIsCurrent, Colours
  <2> QED
    BY <2>2, <2>3, <2>4
<1> QED
  BY <1>1, <1>2, <1>3

(* The updates that bring nothing new are not drawn, those that end in an
   exception leave the screen behind; otherwise the colours on the screen are
   those of the graph and its nodes answer to the mouse (displayGraph.js). *)
THEOREM ScreenFollowsGraph == Spec => []ScreenIsCurrent
<1>1. Init => ScreenInv
  BY DEF Init, WebClientInit, NoSigma, ScreenInv, SigmaShape, ScreenIsCurrent
<1>2. ScreenInv /\ [Next]_vars => ScreenInv'
  <2> SUFFICES ASSUME ScreenInv, [Next]_vars PROVE ScreenInv'
    OBVIOUS
  <2>1. CASE PageStep
    BY <2>1, FillKeepsScreen, UpdateKeepsScreen DEF PageStep
  <2>2. CASE UNCHANGED viewVars
    BY <2>2 DEF viewVars, ScreenInv, SigmaShape, ScreenIsCurrent, Colours
  <2>3. CASE Reload
    BY <2>3 DEF Reload, NoSigma, ScreenInv, SigmaShape, ScreenIsCurrent
  <2> QED
    BY <2>1, <2>2, <2>3
       DEF Next, MasterStep, ClientStep, Connect, MouseStep, vars, webClientVars
<1>3. ScreenInv => ScreenIsCurrent
  BY DEF ScreenInv
<1> QED
  BY <1>1, <1>2, <1>3, PTL DEF Spec

-----------------------------------------------------------------------------
(* The graph of the page and what its methods keep in order. *)

\* The array q holds each member of S once and nothing else.
Lists(q, S) == q \in Seq(S) /\ IsInjective(q) /\ ToSet(q) = S

GraphFields ==
    {"nodesArray", "edgesArray", "nodesIndex", "edgesIndex",
     "inNeighborsIndex", "outNeighborsIndex", "allNeighborsIndex",
     "inNeighborsCount", "outNeighborsCount", "allNeighborsCount"}
IsGraph(g) == DOMAIN g = GraphFields

SourceOf(g, e) == g.edgesIndex[e].source
TargetOf(g, e) == g.edgesIndex[e].target
IdsInto(g, n) == {e \in EdgeIds(g) : TargetOf(g, e) = n}
IdsOutOf(g, n) == {e \in EdgeIds(g) : SourceOf(g, e) = n}

\* The edges under their ids, with both ends in the graph.
EdgesOK(g) ==
    \A e \in EdgeIds(g) :
       /\ g.edgesIndex[e] = Edge(e, SourceOf(g, e), TargetOf(g, e), g.edgesIndex[e].data)
       /\ SourceOf(g, e) \in NodeIds(g) /\ TargetOf(g, e) \in NodeIds(g)

DomainsOK(g) ==
    /\ DOMAIN g.inNeighborsIndex = NodeIds(g)
    /\ DOMAIN g.outNeighborsIndex = NodeIds(g)
    /\ DOMAIN g.allNeighborsIndex = NodeIds(g)
    /\ DOMAIN g.inNeighborsCount = NodeIds(g)
    /\ DOMAIN g.outNeighborsCount = NodeIds(g)
    /\ DOMAIN g.allNeighborsCount = NodeIds(g)

\* What is kept of the neighbourhood of a node, over the ids of the edges.
NeighboursOK(g) ==
    \A n \in NodeIds(g) :
       /\ g.inNeighborsIndex[n] = {<<SourceOf(g, e), e>> : e \in IdsInto(g, n)}
       /\ g.outNeighborsIndex[n] = {<<TargetOf(g, e), e>> : e \in IdsOutOf(g, n)}
       /\ g.allNeighborsIndex[n] = g.inNeighborsIndex[n] \cup g.outNeighborsIndex[n]

DegreesOK(g) ==
    \A n \in NodeIds(g) :
       /\ g.inNeighborsCount[n] = Cardinality(IdsInto(g, n))
       /\ g.outNeighborsCount[n] = Cardinality(IdsOutOf(g, n))
       /\ g.allNeighborsCount[n] = g.inNeighborsCount[n] + g.outNeighborsCount[n]

ArraysOK(g) == /\ Lists(g.nodesArray, NodeIds(g)) /\ Lists(g.edgesArray, EdgeIds(g))
               /\ IsFiniteSet(EdgeIds(g))

GraphOK(g) ==
    /\ IsGraph(g) /\ ArraysOK(g) /\ EdgesOK(g) /\ DomainsOK(g) /\ NeighboursOK(g)
    /\ DegreesOK(g)

(* A new member at the end of the array. *)
LEMMA ListsOneMore ==
    ASSUME NEW q, NEW S, NEW x, Lists(q, S), x \notin S
    PROVE  Lists(Append(q, x), S \cup {x})
<1> DEFINE T == S \cup {x}
           r == Append(q, x)
<1>1. q \in Seq(T) /\ x \in T
  BY SeqMonotonic, S \subseteq T DEF Lists
<1>2. /\ r \in Seq(T) /\ Len(r) = Len(q) + 1
      /\ \A i \in 1 .. Len(q) : r[i] = q[i]
      /\ r[Len(q) + 1] = x
  <2> HIDE DEF T
  <2> QED
    BY <1>1, AppendProperties
<1>3. Len(q) \in Nat /\ DOMAIN q = 1 .. Len(q)
  <2> HIDE DEF T
  <2> QED
  BY <1>1
<1>4. DOMAIN r = 1 .. Len(q) + 1
  <2> HIDE DEF T
  <2> QED
  BY <1>2
<1>5. \A i \in 1 .. Len(q) : q[i] \in S
  BY <1>3 DEF Lists
<1> HIDE DEF r
<1>6. IsInjective(r)
  BY <1>2, <1>3, <1>4, <1>5 DEF Lists, IsInjective
<1>7. ToSet(r) = T
  <2>1. ASSUME NEW y \in T PROVE \E i \in DOMAIN r : r[i] = y
    <3>1. CASE y = x
      <4>1. Len(q) + 1 \in DOMAIN r
        BY <1>3, <1>4
      <4> QED
        BY <4>1, <1>2, <3>1
    <3>2. CASE y \in S
      <4>1. PICK i \in DOMAIN q : q[i] = y
        BY <3>2 DEF Lists, ToSet
      <4>2. i \in DOMAIN r /\ r[i] = y
        BY <4>1, <1>2, <1>3, <1>4
      <4> QED
        BY <4>2
    <3> QED
      BY <3>1, <3>2
  <2>2. ASSUME NEW i \in DOMAIN r PROVE r[i] \in T
    BY <1>2, <1>3, <1>4, <1>5
  <2> HIDE DEF T
  <2> QED
    BY <2>1, <2>2 DEF ToSet
<1> HIDE DEF T
<1>8. Lists(r, T)
  BY <1>2, <1>6, <1>7 DEF Lists
<1> QED
  BY <1>8 DEF r, T

LEMMA ListsNothing == Lists(<<>>, {})
BY DEF Lists, IsInjective, ToSet

IsEmptyGraph(g) ==
    /\ IsGraph(g)
    /\ \A f \in GraphFields : g[f] = <<>>

(* A graph of which every field is empty. *)
LEMMA NothingOK ==
    ASSUME NEW g, IsEmptyGraph(g)
    PROVE  GraphOK(g) /\ NodeIds(g) = {} /\ EdgeIds(g) = {}
<1>1. NodeIds(g) = {} /\ EdgeIds(g) = {}
  BY DEF IsEmptyGraph, GraphFields, NodeIds, EdgeIds
<1>2. IsGraph(g)
  BY DEF IsEmptyGraph
<1>3. ArraysOK(g)
  <2>1. g.nodesArray = <<>> /\ g.edgesArray = <<>>
    BY DEF IsEmptyGraph, GraphFields
  <2> QED
    BY <1>1, <2>1, ListsNothing, FS_EmptySet DEF ArraysOK
<1>4. DomainsOK(g)
  BY <1>1 DEF DomainsOK, IsEmptyGraph, GraphFields
<1>5. EdgesOK(g) /\ NeighboursOK(g) /\ DegreesOK(g)
  BY <1>1 DEF EdgesOK, NeighboursOK, DegreesOK
<1> QED
  BY <1>1, <1>2, <1>3, <1>4, <1>5 DEF GraphOK

(* The graph of a new sigma instance has nothing in it, nor has one that is
   cleared. *)
LEMMA EmptyGraphIsEmpty == IsEmptyGraph(EmptyGraph)
BY DEF IsEmptyGraph, IsGraph, GraphFields, EmptyGraph

LEMMA ClearedIsEmpty ==
    ASSUME NEW g, IsGraph(g)
    PROVE  IsEmptyGraph(Clear(g))
<1>1. IsGraph(Clear(g))
  BY DEF IsGraph, Clear
<1>2. Clear(g).nodesArray = <<>>
  BY DEF IsGraph, GraphFields, Clear
<1>3. Clear(g).edgesArray = <<>>
  BY DEF IsGraph, GraphFields, Clear
<1>4. Clear(g).nodesIndex = <<>>
  BY DEF IsGraph, GraphFields, Clear
<1>5. Clear(g).edgesIndex = <<>>
  BY DEF IsGraph, GraphFields, Clear
<1>6. Clear(g).inNeighborsIndex = <<>>
  BY DEF IsGraph, GraphFields, Clear
<1>7. Clear(g).outNeighborsIndex = <<>>
  BY DEF IsGraph, GraphFields, Clear
<1>8. Clear(g).allNeighborsIndex = <<>>
  BY DEF IsGraph, GraphFields, Clear
<1>9. Clear(g).inNeighborsCount = <<>>
  BY DEF IsGraph, GraphFields, Clear
<1>10. Clear(g).outNeighborsCount = <<>>
  BY DEF IsGraph, GraphFields, Clear
<1>11. Clear(g).allNeighborsCount = <<>>
  BY DEF IsGraph, GraphFields, Clear
<1> DEFINE h == Clear(g)
<1> HIDE DEF h
<1>12. \A f \in GraphFields : h[f] = <<>>
  BY <1>2, <1>3, <1>4, <1>5, <1>6, <1>7, <1>8, <1>9, <1>10, <1>11 DEF GraphFields, h
<1> QED
  BY <1>1, <1>12 DEF IsEmptyGraph, h

\* What addNode leaves in each field.
NodeAdded(g, n, h) ==
    /\ IsGraph(h)
    /\ h.nodesArray = Append(g.nodesArray, n.id)
    /\ h.nodesIndex = Put(g.nodesIndex, n.id, n.data)
    /\ h.edgesArray = g.edgesArray
    /\ h.edgesIndex = g.edgesIndex
    /\ h.inNeighborsIndex = Put(g.inNeighborsIndex, n.id, {})
    /\ h.outNeighborsIndex = Put(g.outNeighborsIndex, n.id, {})
    /\ h.allNeighborsIndex = Put(g.allNeighborsIndex, n.id, {})
    /\ h.inNeighborsCount = Put(g.inNeighborsCount, n.id, 0)
    /\ h.outNeighborsCount = Put(g.outNeighborsCount, n.id, 0)
    /\ h.allNeighborsCount = Put(g.allNeighborsCount, n.id, 0)

LEMMA AddNodeFields ==
    ASSUME NEW g, IsGraph(g), NEW n
    PROVE  NodeAdded(g, n, AddNode(g, n))
<1> DEFINE h == AddNode(g, n)
<1>1. IsGraph(h)
  BY DEF IsGraph, AddNode
<1>2. h.nodesArray = Append(g.nodesArray, n.id)
  BY DEF IsGraph, GraphFields, AddNode
<1>3. h.nodesIndex = Put(g.nodesIndex, n.id, n.data)
  BY DEF IsGraph, GraphFields, AddNode
<1>4. h.edgesArray = g.edgesArray
  BY DEF IsGraph, GraphFields, AddNode
<1>5. h.edgesIndex = g.edgesIndex
  BY DEF IsGraph, GraphFields, AddNode
<1>6. h.inNeighborsIndex = Put(g.inNeighborsIndex, n.id, {})
  BY DEF IsGraph, GraphFields, AddNode
<1>7. h.outNeighborsIndex = Put(g.outNeighborsIndex, n.id, {})
  BY DEF IsGraph, GraphFields, AddNode
<1>8. h.allNeighborsIndex = Put(g.allNeighborsIndex, n.id, {})
  BY DEF IsGraph, GraphFields, AddNode
<1>9. h.inNeighborsCount = Put(g.inNeighborsCount, n.id, 0)
  BY DEF IsGraph, GraphFields, AddNode
<1>10. h.outNeighborsCount = Put(g.outNeighborsCount, n.id, 0)
  BY DEF IsGraph, GraphFields, AddNode
<1>11. h.allNeighborsCount = Put(g.allNeighborsCount, n.id, 0)
  BY DEF IsGraph, GraphFields, AddNode
<1> HIDE DEF h
<1> QED
  BY <1>1, <1>2, <1>3, <1>4, <1>5, <1>6, <1>7, <1>8, <1>9, <1>10, <1>11 DEF NodeAdded, h

\* What addEdge leaves in each field.
EdgeAdded(g, e, h) ==
    /\ IsGraph(h)
    /\ h.nodesArray = g.nodesArray
    /\ h.nodesIndex = g.nodesIndex
    /\ h.edgesArray = Append(g.edgesArray, e.id)
    /\ h.edgesIndex = Put(g.edgesIndex, e.id, e)
    /\ h.inNeighborsIndex = Joined(g.inNeighborsIndex, e.target, <<e.source, e.id>>)
    /\ h.outNeighborsIndex = Joined(g.outNeighborsIndex, e.source, <<e.target, e.id>>)
    /\ h.allNeighborsIndex = Joined(Joined(g.allNeighborsIndex, e.source, <<e.target, e.id>>),
                                 e.target, <<e.source, e.id>>)
    /\ h.inNeighborsCount = Raised(g.inNeighborsCount, e.target)
    /\ h.outNeighborsCount = Raised(g.outNeighborsCount, e.source)
    /\ h.allNeighborsCount = Raised(Raised(g.allNeighborsCount, e.target), e.source)

LEMMA AddEdgeFields ==
    ASSUME NEW g, IsGraph(g), NEW e
    PROVE  EdgeAdded(g, e, AddEdge(g, e))
<1> DEFINE h == AddEdge(g, e)
<1>1. IsGraph(h)
  BY DEF IsGraph, AddEdge
<1>2. h.nodesArray = g.nodesArray
  BY DEF IsGraph, GraphFields, AddEdge
<1>3. h.nodesIndex = g.nodesIndex
  BY DEF IsGraph, GraphFields, AddEdge
<1>4. h.edgesArray = Append(g.edgesArray, e.id)
  BY DEF IsGraph, GraphFields, AddEdge
<1>5. h.edgesIndex = Put(g.edgesIndex, e.id, e)
  BY DEF IsGraph, GraphFields, AddEdge
<1>6. h.inNeighborsIndex = Joined(g.inNeighborsIndex, e.target, <<e.source, e.id>>)
  BY DEF IsGraph, GraphFields, AddEdge
<1>7. h.outNeighborsIndex = Joined(g.outNeighborsIndex, e.source, <<e.target, e.id>>)
  BY DEF IsGraph, GraphFields, AddEdge
<1>8. h.allNeighborsIndex = Joined(Joined(g.allNeighborsIndex, e.source, <<e.target, e.id>>),
                                  e.target, <<e.source, e.id>>)
  BY DEF IsGraph, GraphFields, AddEdge
<1>9. h.inNeighborsCount = Raised(g.inNeighborsCount, e.target)
  BY DEF IsGraph, GraphFields, AddEdge
<1>10. h.outNeighborsCount = Raised(g.outNeighborsCount, e.source)
  BY DEF IsGraph, GraphFields, AddEdge
<1>11. h.allNeighborsCount = Raised(Raised(g.allNeighborsCount, e.target), e.source)
  BY DEF IsGraph, GraphFields, AddEdge
<1> HIDE DEF h
<1> QED
  BY <1>1, <1>2, <1>3, <1>4, <1>5, <1>6, <1>7, <1>8, <1>9, <1>10, <1>11 DEF EdgeAdded, h


\* The index f with one entry more, with a member more in one entry, or with a
\* counter one higher.
PutIn(f, k, v, h) ==
    /\ DOMAIN h = DOMAIN f \cup {k} /\ h[k] = v
    /\ \A x \in DOMAIN f : x # k => h[x] = f[x]
JoinedIn(f, k, p, h) ==
    /\ DOMAIN h = DOMAIN f /\ h[k] = f[k] \cup {p}
    /\ \A x \in DOMAIN f : x # k => h[x] = f[x]
RaisedIn(f, k, h) ==
    /\ DOMAIN h = DOMAIN f /\ h[k] = f[k] + 1
    /\ \A x \in DOMAIN f : x # k => h[x] = f[x]

LEMMA PutIsIn == ASSUME NEW f, NEW k, NEW v PROVE PutIn(f, k, v, Put(f, k, v))
BY DEF Put, PutIn

LEMMA JoinedIsIn == ASSUME NEW f, NEW k \in DOMAIN f, NEW p PROVE JoinedIn(f, k, p, Joined(f, k, p))
BY DEF Joined, JoinedIn

LEMMA RaisedIsIn == ASSUME NEW f, NEW k \in DOMAIN f PROVE RaisedIn(f, k, Raised(f, k))
BY DEF Raised, RaisedIn

(* addNode keeps the graph in order; the node has no neighbours yet. *)
LEMMA AddNodeOK ==
    ASSUME NEW g, GraphOK(g), NEW n, CanAddNode(g, n), NEW h, h = AddNode(g, n)
    PROVE  GraphOK(h) /\ NodeIds(h) = NodeIds(g) \cup {n.id} /\ EdgeIds(h) = EdgeIds(g)
<1> DEFINE id == n.id
           data == n.data
<1>1. IsGraph(g) /\ ArraysOK(g) /\ EdgesOK(g) /\ DomainsOK(g) /\ NeighboursOK(g) /\ DegreesOK(g)
  BY DEF GraphOK
<1>2. id \notin NodeIds(g)
  BY DEF CanAddNode
<1>3. /\ IsGraph(h)
      /\ h.nodesArray = Append(g.nodesArray, id)
      /\ h.nodesIndex = Put(g.nodesIndex, id, data)
      /\ h.edgesArray = g.edgesArray
      /\ h.edgesIndex = g.edgesIndex
      /\ h.inNeighborsIndex = Put(g.inNeighborsIndex, id, {})
      /\ h.outNeighborsIndex = Put(g.outNeighborsIndex, id, {})
      /\ h.allNeighborsIndex = Put(g.allNeighborsIndex, id, {})
      /\ h.inNeighborsCount = Put(g.inNeighborsCount, id, 0)
      /\ h.outNeighborsCount = Put(g.outNeighborsCount, id, 0)
      /\ h.allNeighborsCount = Put(g.allNeighborsCount, id, 0)
  <2>1. NodeAdded(g, n, h)
    BY <1>1, AddNodeFields, Zenon
  <2> QED
    BY <2>1 DEF NodeAdded
<1> HIDE DEF id, data
<1>4. NodeIds(h) = NodeIds(g) \cup {id} /\ EdgeIds(h) = EdgeIds(g)
  BY <1>3 DEF NodeIds, EdgeIds, Put
<1>5. ArraysOK(h)
  BY <1>1, <1>2, <1>3, <1>4, ListsOneMore DEF ArraysOK
<1>6. EdgesOK(h)
  BY <1>1, <1>3, <1>4 DEF EdgesOK, SourceOf, TargetOf
<1>7. /\ PutIn(g.inNeighborsIndex, id, {}, h.inNeighborsIndex)
      /\ PutIn(g.outNeighborsIndex, id, {}, h.outNeighborsIndex)
      /\ PutIn(g.allNeighborsIndex, id, {}, h.allNeighborsIndex)
      /\ PutIn(g.inNeighborsCount, id, 0, h.inNeighborsCount)
      /\ PutIn(g.outNeighborsCount, id, 0, h.outNeighborsCount)
      /\ PutIn(g.allNeighborsCount, id, 0, h.allNeighborsCount)
  BY <1>3, PutIsIn, ZenonT(30)
<1>8. DomainsOK(h)
  BY <1>1, <1>4, <1>7 DEF DomainsOK, PutIn
<1>9. \A x : IdsInto(h, x) = IdsInto(g, x) /\ IdsOutOf(h, x) = IdsOutOf(g, x)
  BY <1>3, <1>4 DEF IdsInto, IdsOutOf, SourceOf, TargetOf
<1>10. IdsInto(h, id) = {} /\ IdsOutOf(h, id) = {}
  <2>1. \A e \in EdgeIds(g) : SourceOf(g, e) # id /\ TargetOf(g, e) # id
    BY <1>1, <1>2 DEF EdgesOK
  <2> QED
    BY <1>9, <2>1 DEF IdsInto, IdsOutOf
<1>11. \A x \in NodeIds(g) :
          /\ h.inNeighborsIndex[x] = g.inNeighborsIndex[x]
          /\ h.outNeighborsIndex[x] = g.outNeighborsIndex[x]
          /\ h.allNeighborsIndex[x] = g.allNeighborsIndex[x]
          /\ h.inNeighborsCount[x] = g.inNeighborsCount[x]
          /\ h.outNeighborsCount[x] = g.outNeighborsCount[x]
          /\ h.allNeighborsCount[x] = g.allNeighborsCount[x]
  BY <1>1, <1>2, <1>7 DEF DomainsOK, PutIn
<1>12. /\ h.inNeighborsIndex[id] = {} /\ h.outNeighborsIndex[id] = {}
       /\ h.allNeighborsIndex[id] = {} /\ h.inNeighborsCount[id] = 0
       /\ h.outNeighborsCount[id] = 0 /\ h.allNeighborsCount[id] = 0
  BY <1>7 DEF PutIn
<1>13. NeighboursOK(h)
  <2>1. ASSUME NEW x \in NodeIds(g)
        PROVE  /\ h.inNeighborsIndex[x] = {<<SourceOf(h, e), e>> : e \in IdsInto(h, x)}
               /\ h.outNeighborsIndex[x] = {<<TargetOf(h, e), e>> : e \in IdsOutOf(h, x)}
               /\ h.allNeighborsIndex[x] = h.inNeighborsIndex[x] \cup h.outNeighborsIndex[x]
    <3>1. /\ g.inNeighborsIndex[x] = {<<SourceOf(g, e), e>> : e \in IdsInto(g, x)}
          /\ g.outNeighborsIndex[x] = {<<TargetOf(g, e), e>> : e \in IdsOutOf(g, x)}
          /\ g.allNeighborsIndex[x] = g.inNeighborsIndex[x] \cup g.outNeighborsIndex[x]
      BY <1>1 DEF NeighboursOK
    <3>2. \A e : SourceOf(h, e) = SourceOf(g, e) /\ TargetOf(h, e) = TargetOf(g, e)
      BY <1>3 DEF SourceOf, TargetOf
    <3> QED
      BY <1>9, <1>11, <3>1, <3>2
  <2> QED
    BY <1>4, <1>10, <1>12, <2>1 DEF NeighboursOK
<1>14. DegreesOK(h)
  <2>1. ASSUME NEW x \in NodeIds(g)
        PROVE  /\ h.inNeighborsCount[x] = Cardinality(IdsInto(h, x))
               /\ h.outNeighborsCount[x] = Cardinality(IdsOutOf(h, x))
               /\ h.allNeighborsCount[x] = h.inNeighborsCount[x] + h.outNeighborsCount[x]
    BY <1>1, <1>9, <1>11 DEF DegreesOK
  <2>2. Cardinality({}) = 0
    BY FS_EmptySet
  <2>3. /\ h.inNeighborsCount[id] = Cardinality(IdsInto(h, id))
        /\ h.outNeighborsCount[id] = Cardinality(IdsOutOf(h, id))
        /\ h.allNeighborsCount[id] = h.inNeighborsCount[id] + h.outNeighborsCount[id]
    BY <1>10, <1>12, <2>2
  <2>4. \A x \in NodeIds(h) : x \in NodeIds(g) \/ x = id
    BY <1>4
  <2> QED
    BY <2>1, <2>3, <2>4, Zenon DEF DegreesOK
<1> QED
  BY <1>3, <1>4, <1>5, <1>6, <1>8, <1>13, <1>14 DEF GraphOK, id

(* addEdge keeps the graph in order, also where both ends are one node. *)
LEMMA AddEdgeOK ==
    ASSUME NEW g, GraphOK(g), NEW e, CanAddEdge(g, e), NEW h, h = AddEdge(g, e),
           e = Edge(e.id, e.source, e.target, e.data)
    PROVE  GraphOK(h) /\ NodeIds(h) = NodeIds(g) /\ EdgeIds(h) = EdgeIds(g) \cup {e.id}
<1> DEFINE id == e.id
           src == e.source
           tgt == e.target
<1>1. IsGraph(g) /\ ArraysOK(g) /\ EdgesOK(g) /\ DomainsOK(g) /\ NeighboursOK(g) /\ DegreesOK(g)
  BY DEF GraphOK
<1>2. id \notin EdgeIds(g) /\ src \in NodeIds(g) /\ tgt \in NodeIds(g)
  BY DEF CanAddEdge
<1>3. /\ IsGraph(h)
      /\ h.nodesArray = g.nodesArray
      /\ h.nodesIndex = g.nodesIndex
      /\ h.edgesArray = Append(g.edgesArray, id)
      /\ h.edgesIndex = Put(g.edgesIndex, id, e)
      /\ h.inNeighborsIndex = Joined(g.inNeighborsIndex, tgt, <<src, id>>)
      /\ h.outNeighborsIndex = Joined(g.outNeighborsIndex, src, <<tgt, id>>)
      /\ h.allNeighborsIndex = Joined(Joined(g.allNeighborsIndex, src, <<tgt, id>>),
                                      tgt, <<src, id>>)
      /\ h.inNeighborsCount = Raised(g.inNeighborsCount, tgt)
      /\ h.outNeighborsCount = Raised(g.outNeighborsCount, src)
      /\ h.allNeighborsCount = Raised(Raised(g.allNeighborsCount, tgt), src)
  <2>1. EdgeAdded(g, e, h)
    BY <1>1, AddEdgeFields, Zenon
  <2> QED
    BY <2>1 DEF EdgeAdded
<1> HIDE DEF id, src, tgt
<1>4. NodeIds(h) = NodeIds(g) /\ EdgeIds(h) = EdgeIds(g) \cup {id}
  BY <1>3 DEF NodeIds, EdgeIds, Put
<1>5. ArraysOK(h)
  <2>1. Lists(h.edgesArray, EdgeIds(h))
    BY <1>1, <1>2, <1>3, <1>4, ListsOneMore DEF ArraysOK
  <2>2. IsFiniteSet(EdgeIds(h))
    BY <1>1, <1>4, FS_AddElement DEF ArraysOK
  <2> QED
    BY <1>1, <1>3, <1>4, <2>1, <2>2 DEF ArraysOK
<1>6. h.edgesIndex[id] = e /\ \A x \in EdgeIds(g) : h.edgesIndex[x] = g.edgesIndex[x]
  BY <1>2, <1>3 DEF Put, EdgeIds
<1>7. /\ SourceOf(h, id) = src /\ TargetOf(h, id) = tgt
      /\ \A x \in EdgeIds(g) : SourceOf(h, x) = SourceOf(g, x) /\ TargetOf(h, x) = TargetOf(g, x)
  BY <1>6 DEF SourceOf, TargetOf, src, tgt
<1>8. EdgesOK(h)
  <2>1. ASSUME NEW x \in EdgeIds(g)
        PROVE  /\ h.edgesIndex[x] = Edge(x, SourceOf(h, x), TargetOf(h, x), h.edgesIndex[x].data)
               /\ SourceOf(h, x) \in NodeIds(h) /\ TargetOf(h, x) \in NodeIds(h)
    BY <1>1, <1>4, <1>6, <1>7 DEF EdgesOK
  <2>2. h.edgesIndex[id] = Edge(id, SourceOf(h, id), TargetOf(h, id), h.edgesIndex[id].data)
    BY <1>6, <1>7 DEF id, src, tgt
  <2> QED
    BY <1>2, <1>4, <1>7, <2>1, <2>2 DEF EdgesOK
<1>9. /\ JoinedIn(g.inNeighborsIndex, tgt, <<src, id>>, h.inNeighborsIndex)
      /\ JoinedIn(g.outNeighborsIndex, src, <<tgt, id>>, h.outNeighborsIndex)
      /\ RaisedIn(g.inNeighborsCount, tgt, h.inNeighborsCount)
      /\ RaisedIn(g.outNeighborsCount, src, h.outNeighborsCount)
  BY <1>1, <1>2, <1>3, JoinedIsIn, RaisedIsIn, ZenonT(30) DEF DomainsOK
<1>10. PICK mid : /\ JoinedIn(g.allNeighborsIndex, src, <<tgt, id>>, mid)
                  /\ JoinedIn(mid, tgt, <<src, id>>, h.allNeighborsIndex)
  <2> DEFINE mid == Joined(g.allNeighborsIndex, src, <<tgt, id>>)
  <2>1. JoinedIn(g.allNeighborsIndex, src, <<tgt, id>>, mid)
    BY <1>1, <1>2, JoinedIsIn, Zenon DEF DomainsOK
  <2>2. tgt \in DOMAIN mid
    BY <1>1, <1>2, <2>1 DEF DomainsOK, JoinedIn
  <2>3. JoinedIn(mid, tgt, <<src, id>>, h.allNeighborsIndex)
    BY <1>3, <2>2, JoinedIsIn, Zenon
  <2> QED
    BY <2>1, <2>3
<1>11. PICK low : RaisedIn(g.allNeighborsCount, tgt, low) /\ RaisedIn(low, src, h.allNeighborsCount)
  <2> DEFINE low == Raised(g.allNeighborsCount, tgt)
  <2>1. RaisedIn(g.allNeighborsCount, tgt, low)
    BY <1>1, <1>2, RaisedIsIn, Zenon DEF DomainsOK
  <2>2. src \in DOMAIN low
    BY <1>1, <1>2, <2>1 DEF DomainsOK, RaisedIn
  <2>3. RaisedIn(low, src, h.allNeighborsCount)
    BY <1>3, <2>2, RaisedIsIn, Zenon
  <2> QED
    BY <2>1, <2>3
<1>12. DomainsOK(h)
  BY <1>1, <1>4, <1>9, <1>10, <1>11 DEF DomainsOK, JoinedIn, RaisedIn
<1>13. ASSUME NEW n \in NodeIds(g)
       PROVE  /\ IdsInto(h, n) = IF n = tgt THEN IdsInto(g, n) \cup {id} ELSE IdsInto(g, n)
              /\ IdsOutOf(h, n) = IF n = src THEN IdsOutOf(g, n) \cup {id} ELSE IdsOutOf(g, n)
  BY <1>2, <1>4, <1>7 DEF IdsInto, IdsOutOf
<1>14. ASSUME NEW n \in NodeIds(g)
       PROVE  /\ id \notin IdsInto(g, n) /\ id \notin IdsOutOf(g, n)
              /\ IsFiniteSet(IdsInto(g, n)) /\ IsFiniteSet(IdsOutOf(g, n))
  BY <1>1, <1>2, FS_Subset DEF ArraysOK, IdsInto, IdsOutOf
<1>15. NeighboursOK(h)
  <2>1. ASSUME NEW n \in NodeIds(g)
        PROVE  h.inNeighborsIndex[n] = {<<SourceOf(h, x), x>> : x \in IdsInto(h, n)}
    <3>1. g.inNeighborsIndex[n] = {<<SourceOf(g, x), x>> : x \in IdsInto(g, n)}
      BY <1>1 DEF NeighboursOK
    <3>2. \A x \in IdsInto(g, n) : SourceOf(h, x) = SourceOf(g, x)
      BY <1>7 DEF IdsInto
    <3>3. CASE n = tgt
      <4>1. h.inNeighborsIndex[n] = g.inNeighborsIndex[n] \cup {<<src, id>>}
        BY <1>9, <3>3 DEF JoinedIn
      <4>2. IdsInto(h, n) = IdsInto(g, n) \cup {id}
        BY <1>13, <3>3
      <4> QED
        BY <1>7, <3>1, <3>2, <4>1, <4>2
    <3>4. CASE n # tgt
      <4>1. h.inNeighborsIndex[n] = g.inNeighborsIndex[n]
        BY <1>1, <1>9, <3>4 DEF JoinedIn, DomainsOK
      <4>2. IdsInto(h, n) = IdsInto(g, n)
        BY <1>13, <3>4
      <4> QED
        BY <3>1, <3>2, <4>1, <4>2
    <3> QED
      BY <3>3, <3>4
  <2>2. ASSUME NEW n \in NodeIds(g)
        PROVE  h.outNeighborsIndex[n] = {<<TargetOf(h, x), x>> : x \in IdsOutOf(h, n)}
    <3>1. g.outNeighborsIndex[n] = {<<TargetOf(g, x), x>> : x \in IdsOutOf(g, n)}
      BY <1>1 DEF NeighboursOK
    <3>2. \A x \in IdsOutOf(g, n) : TargetOf(h, x) = TargetOf(g, x)
      BY <1>7 DEF IdsOutOf
    <3>3. CASE n = src
      <4>1. h.outNeighborsIndex[n] = g.outNeighborsIndex[n] \cup {<<tgt, id>>}
        BY <1>9, <3>3 DEF JoinedIn
      <4>2. IdsOutOf(h, n) = IdsOutOf(g, n) \cup {id}
        BY <1>13, <3>3
      <4> QED
        BY <1>7, <3>1, <3>2, <4>1, <4>2
    <3>4. CASE n # src
      <4>1. h.outNeighborsIndex[n] = g.outNeighborsIndex[n]
        BY <1>1, <1>9, <3>4 DEF JoinedIn, DomainsOK
      <4>2. IdsOutOf(h, n) = IdsOutOf(g, n)
        BY <1>13, <3>4
      <4> QED
        BY <3>1, <3>2, <4>1, <4>2
    <3> QED
      BY <3>3, <3>4
  <2>3. ASSUME NEW n \in NodeIds(g)
        PROVE  h.allNeighborsIndex[n] = h.inNeighborsIndex[n] \cup h.outNeighborsIndex[n]
    <3>1. g.allNeighborsIndex[n] = g.inNeighborsIndex[n] \cup g.outNeighborsIndex[n]
      BY <1>1 DEF NeighboursOK
    <3>2. DOMAIN mid = NodeIds(g)
      BY <1>1, <1>10 DEF JoinedIn, DomainsOK
    <3>3. mid[n] = IF n = src THEN g.allNeighborsIndex[n] \cup {<<tgt, id>>}
                              ELSE g.allNeighborsIndex[n]
      BY <1>1, <1>10 DEF JoinedIn, DomainsOK
    <3>4. h.allNeighborsIndex[n] = IF n = tgt THEN mid[n] \cup {<<src, id>>} ELSE mid[n]
      BY <1>10, <3>2 DEF JoinedIn
    <3>5. h.inNeighborsIndex[n] = IF n = tgt THEN g.inNeighborsIndex[n] \cup {<<src, id>>}
                                             ELSE g.inNeighborsIndex[n]
      BY <1>1, <1>9 DEF JoinedIn, DomainsOK
    <3>6. h.outNeighborsIndex[n] = IF n = src THEN g.outNeighborsIndex[n] \cup {<<tgt, id>>}
                                              ELSE g.outNeighborsIndex[n]
      BY <1>1, <1>9 DEF JoinedIn, DomainsOK
    <3> QED
      BY <3>1, <3>3, <3>4, <3>5, <3>6
  <2> QED
    BY <1>4, <2>1, <2>2, <2>3 DEF NeighboursOK
<1>16. DegreesOK(h)
  <2>1. ASSUME NEW n \in NodeIds(g)
        PROVE  /\ h.inNeighborsCount[n] = Cardinality(IdsInto(h, n))
               /\ h.outNeighborsCount[n] = Cardinality(IdsOutOf(h, n))
               /\ h.allNeighborsCount[n] = h.inNeighborsCount[n] + h.outNeighborsCount[n]
    <3> DEFINE i == Cardinality(IdsInto(g, n))
               o == Cardinality(IdsOutOf(g, n))
    <3>1. i \in Nat /\ o \in Nat
      BY <1>14, FS_CardinalityType
    <3>2. /\ Cardinality(IdsInto(g, n) \cup {id}) = i + 1
          /\ Cardinality(IdsOutOf(g, n) \cup {id}) = o + 1
      BY <1>14, FS_AddElement
    <3>3. /\ Cardinality(IdsInto(h, n)) = IF n = tgt THEN i + 1 ELSE i
          /\ Cardinality(IdsOutOf(h, n)) = IF n = src THEN o + 1 ELSE o
      BY <1>13, <3>2
    <3>4. g.inNeighborsCount[n] = i /\ g.outNeighborsCount[n] = o /\ g.allNeighborsCount[n] = i + o
      BY <1>1 DEF DegreesOK
    <3> HIDE DEF i, o
    <3>5. h.inNeighborsCount[n] = IF n = tgt THEN i + 1 ELSE i
      BY <1>1, <1>9, <3>4 DEF RaisedIn, DomainsOK
    <3>6. h.outNeighborsCount[n] = IF n = src THEN o + 1 ELSE o
      BY <1>1, <1>9, <3>4 DEF RaisedIn, DomainsOK
    <3>7. DOMAIN low = NodeIds(g) /\ low[n] = IF n = tgt THEN i + o + 1 ELSE i + o
      BY <1>1, <1>11, <3>4 DEF RaisedIn, DomainsOK
    <3>8. h.allNeighborsCount[n] = IF n = src THEN low[n] + 1 ELSE low[n]
      BY <1>11, <3>7 DEF RaisedIn
    <3> QED
      BY <3>1, <3>3, <3>5, <3>6, <3>7, <3>8
  <2> QED
    BY <1>4, <2>1 DEF DegreesOK
<1> QED
  BY <1>3, <1>4, <1>5, <1>8, <1>12, <1>15, <1>16 DEF GraphOK, id

(* Other data on the edges, with the same ends: the rest of the graph is as it was. *)
LEMMA OtherDataOK ==
    ASSUME NEW g, GraphOK(g), NEW f, DOMAIN f = EdgeIds(g),
           \A e \in EdgeIds(g) : f[e] = Edge(e, SourceOf(g, e), TargetOf(g, e), f[e].data),
           NEW h, h = [g EXCEPT !.edgesIndex = f]
    PROVE  GraphOK(h) /\ NodeIds(h) = NodeIds(g) /\ EdgeIds(h) = EdgeIds(g)
<1>1. IsGraph(g) /\ ArraysOK(g) /\ EdgesOK(g) /\ DomainsOK(g) /\ NeighboursOK(g) /\ DegreesOK(g)
  BY DEF GraphOK
<1>2. IsGraph(h) /\ h.edgesIndex = f
  BY <1>1 DEF IsGraph, GraphFields
<1>3. /\ h.nodesArray = g.nodesArray /\ h.nodesIndex = g.nodesIndex
      /\ h.edgesArray = g.edgesArray
  BY <1>1 DEF IsGraph, GraphFields
<1>4. /\ h.inNeighborsIndex = g.inNeighborsIndex
      /\ h.outNeighborsIndex = g.outNeighborsIndex
      /\ h.allNeighborsIndex = g.allNeighborsIndex
  BY <1>1 DEF IsGraph, GraphFields
<1>5. /\ h.inNeighborsCount = g.inNeighborsCount
      /\ h.outNeighborsCount = g.outNeighborsCount
      /\ h.allNeighborsCount = g.allNeighborsCount
  BY <1>1 DEF IsGraph, GraphFields
<1>6. NodeIds(h) = NodeIds(g) /\ EdgeIds(h) = EdgeIds(g)
  BY <1>2, <1>3 DEF NodeIds, EdgeIds
<1>7. \A e \in EdgeIds(g) : SourceOf(h, e) = SourceOf(g, e) /\ TargetOf(h, e) = TargetOf(g, e)
  BY <1>2 DEF SourceOf, TargetOf, Edge
<1>8. EdgesOK(h)
  BY <1>1, <1>2, <1>6, <1>7 DEF EdgesOK
<1>9. ArraysOK(h) /\ DomainsOK(h)
  BY <1>1, <1>3, <1>4, <1>5, <1>6 DEF ArraysOK, DomainsOK
<1>10. \A n : IdsInto(h, n) = IdsInto(g, n) /\ IdsOutOf(h, n) = IdsOutOf(g, n)
  BY <1>6, <1>7 DEF IdsInto, IdsOutOf
<1>11. ASSUME NEW n
       PROVE  /\ {<<SourceOf(h, e), e>> : e \in IdsInto(h, n)}
                    = {<<SourceOf(g, e), e>> : e \in IdsInto(g, n)}
              /\ {<<TargetOf(h, e), e>> : e \in IdsOutOf(h, n)}
                    = {<<TargetOf(g, e), e>> : e \in IdsOutOf(g, n)}
  <2>1. \A e \in IdsInto(g, n) : SourceOf(h, e) = SourceOf(g, e)
    BY <1>7 DEF IdsInto
  <2>2. \A e \in IdsOutOf(g, n) : TargetOf(h, e) = TargetOf(g, e)
    BY <1>7 DEF IdsOutOf
  <2> QED
    BY <1>10, <2>1, <2>2
<1>12. NeighboursOK(h)
  BY <1>1, <1>4, <1>6, <1>11 DEF NeighboursOK
<1>13. DegreesOK(h)
  BY <1>1, <1>5, <1>6, <1>10 DEF DegreesOK
<1> QED
  BY <1>2, <1>6, <1>8, <1>9, <1>12, <1>13 DEF GraphOK

(* The invariant over ids says what Coherent says over the edges themselves. *)
LEMMA GraphOKIsCoherent ==
    ASSUME NEW g, GraphOK(g)
    PROVE  Coherent(g)
<1> DEFINE E == {g.edgesIndex[e] : e \in EdgeIds(g)}
           Into(n) == {e \in E : e.target = n}
           OutOf(n) == {e \in E : e.source = n}
<1>1. IsGraph(g) /\ ArraysOK(g) /\ EdgesOK(g) /\ DomainsOK(g) /\ NeighboursOK(g) /\ DegreesOK(g)
  BY DEF GraphOK
<1>2. ASSUME NEW e \in EdgeIds(g)
      PROVE  /\ g.edgesIndex[e].id = e
             /\ g.edgesIndex[e].source = SourceOf(g, e)
             /\ g.edgesIndex[e].target = TargetOf(g, e)
             /\ {SourceOf(g, e), TargetOf(g, e)} \subseteq NodeIds(g)
  <2>1. PICK data : g.edgesIndex[e] = Edge(e, SourceOf(g, e), TargetOf(g, e), data)
    BY <1>1 DEF EdgesOK
  <2>2. SourceOf(g, e) \in NodeIds(g) /\ TargetOf(g, e) \in NodeIds(g)
    BY <1>1 DEF EdgesOK
  <2>3. g.edgesIndex[e].id = e
    BY <2>1 DEF Edge
  <2> QED
    BY <2>2, <2>3 DEF SourceOf, TargetOf
<1>3. \A e \in E : {e.source, e.target} \subseteq NodeIds(g)
  BY <1>2
<1>4. ASSUME NEW n
      PROVE  /\ {<<e.source, e.id>> : e \in Into(n)}
                    = {<<SourceOf(g, e), e>> : e \in IdsInto(g, n)}
             /\ {<<e.target, e.id>> : e \in OutOf(n)}
                    = {<<TargetOf(g, e), e>> : e \in IdsOutOf(g, n)}
  <2>1. \A e \in IdsInto(g, n) : g.edgesIndex[e] \in Into(n)
    BY <1>2 DEF IdsInto
  <2>2. \A x \in Into(n) : \E e \in IdsInto(g, n) : x = g.edgesIndex[e]
    BY <1>2 DEF IdsInto
  <2>3. \A e \in IdsOutOf(g, n) : g.edgesIndex[e] \in OutOf(n)
    BY <1>2 DEF IdsOutOf
  <2>4. \A x \in OutOf(n) : \E e \in IdsOutOf(g, n) : x = g.edgesIndex[e]
    BY <1>2 DEF IdsOutOf
  <2>5. IdsInto(g, n) \subseteq EdgeIds(g) /\ IdsOutOf(g, n) \subseteq EdgeIds(g)
    BY DEF IdsInto, IdsOutOf
  <2> HIDE DEF Into, OutOf
  <2> QED
    BY <1>2, <2>1, <2>2, <2>3, <2>4, <2>5
<1>5. ASSUME NEW S \in SUBSET EdgeIds(g), NEW T, T = {g.edgesIndex[e] : e \in S}
      PROVE  Cardinality(T) = Cardinality(S)
  <2> DEFINE f == [e \in S |-> g.edgesIndex[e]]
  <2>1. IsFiniteSet(S)
    BY <1>1, FS_Subset DEF ArraysOK
  <2>2. f \in [S -> T] /\ \A x \in T : \E e \in S : f[e] = x
    BY <1>5
  <2>3. \A x, y \in S : f[x] = f[y] => x = y
    BY <1>2
  <2>4. f \in Bijection(S, T)
    <3> HIDE DEF f
    <3> QED
      BY <2>2, <2>3 DEF Bijection, Injection, Surjection, IsInjective
  <2>5. ExistsBijection(S, T)
    BY <2>4 DEF ExistsBijection
  <2> QED
    BY <2>1, <2>5, FS_Bijection
<1>6. ASSUME NEW n
      PROVE  /\ Cardinality(Into(n)) = Cardinality(IdsInto(g, n))
             /\ Cardinality(OutOf(n)) = Cardinality(IdsOutOf(g, n))
  <2>1. Into(n) = {g.edgesIndex[e] : e \in IdsInto(g, n)}
    BY <1>2 DEF IdsInto
  <2>2. OutOf(n) = {g.edgesIndex[e] : e \in IdsOutOf(g, n)}
    BY <1>2 DEF IdsOutOf
  <2>3. IdsInto(g, n) \in SUBSET EdgeIds(g) /\ IdsOutOf(g, n) \in SUBSET EdgeIds(g)
    BY DEF IdsInto, IdsOutOf
  <2> HIDE DEF Into, OutOf
  <2> QED
    BY <1>5, <2>1, <2>2, <2>3
<1> HIDE DEF E, Into, OutOf
<1>7. /\ IsInjective(g.nodesArray) /\ ToSet(g.nodesArray) = NodeIds(g)
      /\ IsInjective(g.edgesArray) /\ ToSet(g.edgesArray) = EdgeIds(g)
  BY <1>1 DEF ArraysOK, Lists
<1>8. \A f \in {"inNeighborsIndex", "outNeighborsIndex", "allNeighborsIndex",
                "inNeighborsCount", "outNeighborsCount", "allNeighborsCount"} :
         DOMAIN g[f] = NodeIds(g)
  BY <1>1 DEF DomainsOK
<1>9. ASSUME NEW n \in NodeIds(g)
      PROVE  /\ g.inNeighborsIndex[n] = {<<e.source, e.id>> : e \in Into(n)}
             /\ g.outNeighborsIndex[n] = {<<e.target, e.id>> : e \in OutOf(n)}
             /\ g.allNeighborsIndex[n] = g.inNeighborsIndex[n] \cup g.outNeighborsIndex[n]
  BY <1>1, <1>4 DEF NeighboursOK
<1>10. ASSUME NEW n \in NodeIds(g)
       PROVE  /\ Degree(g, n, "in") = Cardinality(Into(n))
              /\ Degree(g, n, "out") = Cardinality(OutOf(n))
              /\ Degree(g, n, "all") = Degree(g, n, "in") + Degree(g, n, "out")
  <2>1. /\ Degree(g, n, "in") = g.inNeighborsCount[n]
        /\ Degree(g, n, "out") = g.outNeighborsCount[n]
        /\ Degree(g, n, "all") = g.allNeighborsCount[n]
    BY DEF Degree
  <2> QED
    BY <1>1, <1>6, <2>1 DEF DegreesOK
<1> QED
  BY <1>3, <1>7, <1>8, <1>9, <1>10, Zenon DEF Coherent, E, Into, OutOf

\* The graph after each of the calls of read: n nodes or edges of the array q.
AddedTo(g, thing, what) == IF what = "node" THEN AddNode(g, thing) ELSE AddEdge(g, thing)
Fills(f, g, q, n, what) ==
    f = [i \in 0..n |-> IF i = 0 THEN g ELSE AddedTo(f[i - 1], q[i], what)]

(* The function that read computes exists. *)
LEMMA FillerExists ==
    ASSUME NEW g, NEW q, NEW what, NEW n \in Nat
    PROVE  \E f : Fills(f, g, q, n, what)
<1> DEFINE Step(r, i) == AddedTo(r, q[i], what)
           S == {i \in Nat : ~ \E f : Fills(f, g, q, i, what)}
<1>1. CASE S = {}
  BY <1>1
<1>2. CASE S # {}
  <2>1. PICK i \in S : \A j \in S : i <= j
    <3>1. S \in SUBSET Nat
      OBVIOUS
    <3> HIDE DEF S
    <3> QED
      BY <1>2, <3>1, FirstExists
  <2>2. CASE i = 0
    <3> DEFINE f == [j \in 0..0 |-> g]
    <3>1. f = [j \in 0..0 |-> IF j = 0 THEN g ELSE Step(f[j - 1], j)]
      <4> HIDE DEF Step
      <4> QED
        OBVIOUS
    <3> HIDE DEF f
    <3>2. Fills(f, g, q, i, what)
      BY <2>2, <3>1 DEF Fills
    <3> QED
      BY <2>1, <3>2, Zenon
  <2>3. CASE i > 0
    <3>1. i - 1 \in Nat /\ i - 1 \notin S
      BY <2>1, <2>3
    <3>2. PICK f : Fills(f, g, q, i - 1, what)
      BY <3>1
    <3>3. f = [j \in 0..(i - 1) |-> IF j = 0 THEN g ELSE Step(f[j - 1], j)]
      BY <3>2 DEF Fills
    <3> HIDE DEF Step
    <3> DEFINE last == IF i = 0 THEN g ELSE Step(f[i - 1], i)
               h == [j \in 0..i |-> IF j = i THEN last ELSE f[j]]
    <3> HIDE DEF last
    <3>4. ASSUME NEW j \in 0..i
          PROVE  h[j] = IF j = 0 THEN g ELSE Step(h[j - 1], j)
      <4>1. CASE j < i
        <5>1. j \in 0..(i - 1) /\ j # i /\ j - 1 # i
          BY <4>1
        <5>2. h[j] = f[j] /\ (j # 0 => h[j - 1] = f[j - 1])
          BY <5>1
        <5>3. f[j] = IF j = 0 THEN g ELSE Step(f[j - 1], j)
          BY <3>3, <5>1
        <5> HIDE DEF h
        <5> QED
          BY <5>2, <5>3
      <4>2. CASE j = i
        <5>1. h[j] = last /\ (j # 0 => h[j - 1] = f[j - 1])
          BY <4>2
        <5> HIDE DEF h
        <5> QED
          BY <4>2, <5>1 DEF last
      <4>3. j < i \/ j = i
        BY <2>1
      <4> QED
        BY <4>1, <4>2, <4>3, Zenon
    <3>5. h = [j \in 0..i |-> h[j]]
      OBVIOUS
    <3> HIDE DEF h
    <3>6. h = [j \in 0..i |-> IF j = 0 THEN g ELSE Step(h[j - 1], j)]
      BY <3>4, <3>5, Zenon
    <3>7. Fills(h, g, q, i, what)
      BY <3>6 DEF Fills, Step
    <3> QED
      BY <2>1, <3>7
  <2> QED
    BY <2>1, <2>2, <2>3
<1> QED
  BY <1>1, <1>2

LEMMA FilledWithNodes ==
    ASSUME NEW g, NEW q, Len(q) \in Nat
    PROVE  \E f : Fills(f, g, q, Len(q), "node") /\ WithNodes(g, q) = f[Len(q)]
<1> DEFINE Is(f) == f = [i \in 0..Len(q) |-> IF i = 0 THEN g ELSE AddNode(f[i - 1], q[i])]
           read == CHOOSE f : Is(f)
<1>1. \A f : Fills(f, g, q, Len(q), "node") <=> Is(f)
  BY DEF Fills, AddedTo
<1>2. \E f : Is(f)
  BY <1>1, FillerExists
<1>3. WithNodes(g, q) = read[Len(q)]
  BY DEF WithNodes
<1>4. Is(read)
  <2> HIDE DEF Is
  <2> QED
    BY <1>2
<1> HIDE DEF read
<1> QED
  BY <1>1, <1>3, <1>4

LEMMA FilledWithEdges ==
    ASSUME NEW g, NEW q, Len(q) \in Nat
    PROVE  \E f : Fills(f, g, q, Len(q), "edge") /\ WithEdges(g, q) = f[Len(q)]
<1> DEFINE Is(f) == f = [i \in 0..Len(q) |-> IF i = 0 THEN g ELSE AddEdge(f[i - 1], q[i])]
           read == CHOOSE f : Is(f)
<1>1. \A f : Fills(f, g, q, Len(q), "edge") <=> Is(f)
  BY DEF Fills, AddedTo
<1>2. \E f : Is(f)
  BY <1>1, FillerExists
<1>3. WithEdges(g, q) = read[Len(q)]
  BY DEF WithEdges
<1>4. Is(read)
  <2> HIDE DEF Is
  <2> QED
    BY <1>2
<1> HIDE DEF read
<1> QED
  BY <1>1, <1>3, <1>4

\* What read is given: as many ids as things, none of them in the graph yet, and
\* edges between the nodes N.
Ids(q) == {q[i].id : i \in 1..Len(q)}
Distinct(q) == Len(q) \in Nat /\ \A i, j \in 1..Len(q) : q[i].id = q[j].id => i = j
NewIds(q, S) == \A i \in 1..Len(q) : q[i].id \notin S
Joins(q, N) ==
    \A i \in 1..Len(q) :
       /\ q[i].source \in N /\ q[i].target \in N
       /\ q[i] = Edge(q[i].id, q[i].source, q[i].target, q[i].data)

(* Nodes with new ids, all different: each is added, and the graph stays in order. *)
LEMMA WithNodesOK ==
    ASSUME NEW g, GraphOK(g), NEW q, Distinct(q), NewIds(q, NodeIds(g))
    PROVE  /\ GraphOK(WithNodes(g, q))
           /\ EdgeIds(WithNodes(g, q)) = EdgeIds(g)
           /\ NodeIds(WithNodes(g, q)) = NodeIds(g) \cup Ids(q)
<1> USE DEF Ids, Distinct, NewIds
<1>1. PICK f : Fills(f, g, q, Len(q), "node") /\ WithNodes(g, q) = f[Len(q)]
  BY FilledWithNodes
<1>2. f[0] = g
  BY <1>1 DEF Fills
<1>3. ASSUME NEW i \in 1..Len(q)
      PROVE  f[i] = AddNode(f[i - 1], q[i])
  BY <1>1 DEF Fills, AddedTo
<1> DEFINE Good(i) == /\ GraphOK(f[i]) /\ EdgeIds(f[i]) = EdgeIds(g)
                      /\ NodeIds(f[i]) = NodeIds(g) \cup {q[j].id : j \in 1..i}
<1>4. Good(0)
  BY <1>2
<1>5. ASSUME NEW i \in 1..Len(q), Good(i - 1)
      PROVE  Good(i)
  <2>1. i - 1 \in Nat /\ i \notin 1..(i - 1) /\ 1..i = (1..(i - 1)) \cup {i}
        /\ 1..(i - 1) \subseteq 1..Len(q)
    OBVIOUS
  <2>2. q[i].id \notin NodeIds(f[i - 1])
    BY <1>5, <2>1, SMTT(20)
  <2>3. CanAddNode(f[i - 1], q[i])
    BY <1>5, <2>2 DEF CanAddNode
  <2>4. /\ GraphOK(f[i]) /\ EdgeIds(f[i]) = EdgeIds(f[i - 1])
        /\ NodeIds(f[i]) = NodeIds(f[i - 1]) \cup {q[i].id}
    BY <1>3, <1>5, <2>3, AddNodeOK
  <2> QED
    BY <1>5, <2>1, <2>4
<1>6. Good(Len(q))
  <2> DEFINE S == {i \in 0..Len(q) : ~Good(i)}
  <2> HIDE DEF Good
  <2>1. CASE S = {}
    BY <2>1
  <2>2. CASE S # {}
    <3>1. PICK i \in S : \A j \in S : i <= j
      <4>1. S \in SUBSET Nat
        OBVIOUS
      <4> HIDE DEF S
      <4> QED
        BY <2>2, <4>1, FirstExists
    <3>2. i \in 1..Len(q) /\ i - 1 \in 0..Len(q) /\ ~ (i <= i - 1)
      BY <1>4, <3>1
    <3>3. Good(i - 1)
      BY <3>1, <3>2
    <3> QED
      BY <1>5, <3>1, <3>2, <3>3
  <2> QED
    BY <2>1, <2>2
<1> QED
  BY <1>1, <1>6

(* Edges with new ids, all different, between nodes of the graph: each is added. *)
LEMMA WithEdgesOK ==
    ASSUME NEW g, GraphOK(g), NEW q, Distinct(q), NewIds(q, EdgeIds(g)), Joins(q, NodeIds(g))
    PROVE  /\ GraphOK(WithEdges(g, q))
           /\ NodeIds(WithEdges(g, q)) = NodeIds(g)
           /\ EdgeIds(WithEdges(g, q)) = EdgeIds(g) \cup Ids(q)
<1> USE DEF Ids, Distinct, NewIds, Joins
<1>1. PICK f : Fills(f, g, q, Len(q), "edge") /\ WithEdges(g, q) = f[Len(q)]
  BY FilledWithEdges
<1>2. f[0] = g
  BY <1>1 DEF Fills
<1>3. ASSUME NEW i \in 1..Len(q)
      PROVE  f[i] = AddEdge(f[i - 1], q[i])
  BY <1>1 DEF Fills, AddedTo
<1> DEFINE Good(i) == /\ GraphOK(f[i]) /\ NodeIds(f[i]) = NodeIds(g)
                      /\ EdgeIds(f[i]) = EdgeIds(g) \cup {q[j].id : j \in 1..i}
<1>4. Good(0)
  BY <1>2
<1>5. ASSUME NEW i \in 1..Len(q), Good(i - 1)
      PROVE  Good(i)
  <2>1. i - 1 \in Nat /\ i \notin 1..(i - 1) /\ 1..i = (1..(i - 1)) \cup {i}
        /\ 1..(i - 1) \subseteq 1..Len(q)
    OBVIOUS
  <2>2. q[i].id \notin EdgeIds(f[i - 1])
    BY <1>5, <2>1
  <2>3. CanAddEdge(f[i - 1], q[i])
    BY <1>5, <2>2 DEF CanAddEdge
  <2>4. /\ GraphOK(f[i]) /\ NodeIds(f[i]) = NodeIds(f[i - 1])
        /\ EdgeIds(f[i]) = EdgeIds(f[i - 1]) \cup {q[i].id}
    BY <1>3, <1>5, <2>3, AddEdgeOK
  <2> QED
    BY <1>5, <2>1, <2>4
<1>6. Good(Len(q))
  <2> DEFINE S == {i \in 0..Len(q) : ~Good(i)}
  <2> HIDE DEF Good
  <2>1. CASE S = {}
    BY <2>1
  <2>2. CASE S # {}
    <3>1. PICK i \in S : \A j \in S : i <= j
      <4>1. S \in SUBSET Nat
        OBVIOUS
      <4> HIDE DEF S
      <4> QED
        BY <2>2, <4>1, FirstExists
    <3>2. i \in 1..Len(q) /\ i - 1 \in 0..Len(q) /\ ~ (i <= i - 1)
      BY <1>4, <3>1
    <3>3. Good(i - 1)
      BY <3>1, <3>2
    <3> QED
      BY <1>5, <3>1, <3>2, <3>3
  <2> QED
    BY <2>1, <2>2
<1> QED
  BY <1>1, <1>6

(* read: into a graph without edges, so that the ends of the edges are among the
   nodes read. *)
LEMMA ReadOK ==
    ASSUME NEW g, IsEmptyGraph(g), NEW nodes, Distinct(nodes), NEW edges, Distinct(edges),
           Joins(edges, Ids(nodes))
    PROVE  /\ GraphOK(Read(g, nodes, edges))
           /\ NodeIds(Read(g, nodes, edges)) = Ids(nodes)
           /\ EdgeIds(Read(g, nodes, edges)) = Ids(edges)
<1> DEFINE m == WithNodes(g, nodes)
           h == WithEdges(m, edges)
<1>1. GraphOK(g) /\ NodeIds(g) = {} /\ EdgeIds(g) = {}
  BY NothingOK
<1>2. NewIds(nodes, NodeIds(g))
  BY <1>1 DEF NewIds
<1>3. GraphOK(m) /\ EdgeIds(m) = EdgeIds(g) /\ NodeIds(m) = NodeIds(g) \cup Ids(nodes)
  BY <1>1, <1>2, WithNodesOK, Zenon
<1>4. NodeIds(m) = Ids(nodes) /\ EdgeIds(m) = {}
  BY <1>1, <1>3
<1> HIDE DEF m
<1>5. NewIds(edges, EdgeIds(m)) /\ Joins(edges, NodeIds(m))
  BY <1>4 DEF NewIds
<1>6. GraphOK(h) /\ NodeIds(h) = NodeIds(m) /\ EdgeIds(h) = EdgeIds(m) \cup Ids(edges)
  BY <1>3, <1>5, WithEdgesOK, Zenon
<1>7. Read(g, nodes, edges) = h
  BY DEF Read, m, h
<1> HIDE DEF h
<1> QED
  BY <1>4, <1>6, <1>7

-----------------------------------------------------------------------------
(* What an update holds. *)

\* No id comes with two places or two colours.
OncePerId(R) == \A x, y \in R : x[1] = y[1] => x = y
MsgOK(msg) == msg \in UpdateMsg /\ OncePerId(msg.nodes) /\ OncePerId(msg.edges)

(* The order in which the JSON has the members of a finite set: each once. *)
LEMMA ArrayOfSet ==
    ASSUME NEW S, IsFiniteSet(S), NEW q, q = SetToSeq(S)
    PROVE  /\ Len(q) \in Nat
           /\ \A i \in 1..Len(q) : q[i] \in S
           /\ \A i, j \in 1..Len(q) : q[i] = q[j] => i = j
           /\ \A x \in S : \E i \in 1..Len(q) : q[i] = x
<1> DEFINE n == Cardinality(S)
<1>1. n \in Nat /\ ExistsBijection(1..n, S)
  BY FS_CardinalityType
<1> HIDE DEF n
<1>2. \E f \in [1..n -> S] : IsInjective(f)
  BY <1>1 DEF ExistsBijection, Bijection, Injection
<1>3. q \in [1..n -> S] /\ IsInjective(q)
  BY <1>2 DEF SetToSeq, n
<1>4. Len(q) = n /\ Len(q) \in Nat
  BY <1>1, <1>3
<1>5. \A i, j \in 1..Len(q) : q[i] = q[j] => i = j
  BY <1>3, <1>4 DEF IsInjective
<1>6. ASSUME NEW x \in S PROVE \E i \in 1..Len(q) : q[i] = x
  <2> DEFINE T == {q[i] : i \in 1..n}
  <2>1. T \in SUBSET S
    BY <1>3
  <2>2. q \in Bijection(1..n, T)
    <3>1. q \in [1..n -> T]
      BY <1>3
    <3>2. \A t \in T : \E i \in 1..n : q[i] = t
      OBVIOUS
    <3> HIDE DEF T
    <3> QED
      BY <1>3, <3>1, <3>2 DEF Bijection, Injection, Surjection
  <2>3. ExistsBijection(1..n, T)
    BY <2>2 DEF ExistsBijection
  <2>4. Cardinality(T) = n
    <3> HIDE DEF T
    <3> QED
      BY <1>1, <2>3, FS_CountingElements
  <2>5. S = T
    <3> HIDE DEF T
    <3> QED
      BY <2>1, <2>4, FS_Subset DEF n
  <2> QED
    BY <1>4, <2>5
<1> QED
  BY <1>3, <1>4, <1>5, <1>6

(* A set in which no two things have the same id makes an array of as many ids. *)
LEMMA DistinctArray ==
    ASSUME NEW S, IsFiniteSet(S), \A x, y \in S : x.id = y.id => x = y
    PROVE  /\ Distinct(SetToSeq(S)) /\ Ids(SetToSeq(S)) = {x.id : x \in S}
           /\ \A i \in 1..Len(SetToSeq(S)) : SetToSeq(S)[i] \in S
<1> DEFINE q == SetToSeq(S)
<1>1. /\ Len(q) \in Nat
      /\ \A i \in 1..Len(q) : q[i] \in S
      /\ \A i, j \in 1..Len(q) : q[i] = q[j] => i = j
      /\ \A x \in S : \E i \in 1..Len(q) : q[i] = x
  BY ArrayOfSet, Zenon
<1> HIDE DEF q
<1>2. Distinct(q)
  BY <1>1 DEF Distinct
<1>3. Ids(q) = {x.id : x \in S}
  BY <1>1 DEF Ids
<1> QED
  BY <1>1, <1>2, <1>3 DEF q

(* The table holds all the nodes: there are finitely many. *)
LEMMA NodesAreFinite == IsFiniteSet(Endpoint) /\ IsFiniteSet(NodeId)
<1> DEFINE n == Len(Table)
<1>1. n \in Nat /\ DOMAIN Table = 1..n /\ Table \in [1..n -> Endpoint]
  BY TableAssumption
<1>2. \A x \in Endpoint : \E i \in 1..n : Table[i] = x
  BY <1>1, TableAssumption
<1> HIDE DEF n
<1>3. Table \in Surjection(1..n, Endpoint)
  BY <1>1, <1>2 DEF Surjection
<1>4. IsFiniteSet(1..n)
  BY <1>1, FS_Interval
<1>5. IsFiniteSet(Endpoint)
  BY <1>3, <1>4, FS_Surjection
<1>6. NodeId \in SUBSET Endpoint
  BY DEF Endpoint
<1> QED
  BY <1>5, <1>6, FS_Subset

LEMMA FewPlacesAndColours ==
    IsFiniteSet(Endpoint \X {"placed", "nowhere"}) /\ IsFiniteSet((NodeId \X NodeId) \X Colour)
<1>1. IsFiniteSet({}) /\ \A x, y : IsFiniteSet({x}) /\ IsFiniteSet({x, y})
  <2>1. IsFiniteSet({})
    BY FS_EmptySet
  <2>2. ASSUME NEW x, NEW y PROVE IsFiniteSet({x}) /\ IsFiniteSet({x, y})
    <3>1. IsFiniteSet({} \cup {x})
      BY <2>1, FS_AddElement
    <3>2. IsFiniteSet({x} \cup {y})
      BY <3>1, FS_AddElement
    <3>3. {} \cup {x} = {x} /\ {x} \cup {y} = {x, y}
      OBVIOUS
    <3> QED
      BY <3>1, <3>2, <3>3
  <2> QED
    BY <2>1, <2>2
<1>2. IsFiniteSet(Colour)
  <2>1. IsFiniteSet({"blue", "green"} \cup {"red", "black"})
    BY <1>1, FS_Union
  <2>2. Colour = {"blue", "green"} \cup {"red", "black"}
    BY DEF Colour
  <2> QED
    BY <2>1, <2>2
<1>3. IsFiniteSet(Endpoint \X {"placed", "nowhere"})
  BY <1>1, NodesAreFinite, FS_Product
<1>4. IsFiniteSet(NodeId \X NodeId)
  BY NodesAreFinite, FS_Product
<1>5. IsFiniteSet((NodeId \X NodeId) \X Colour)
  BY <1>2, <1>4, FS_Product
<1> QED
  BY <1>3, <1>5

(* The nodes of an update, as the array that read is given. *)
LEMMA NodesOfUpdate ==
    ASSUME NEW msg, MsgOK(msg)
    PROVE  Distinct(NodesOf(msg)) /\ Ids(NodesOf(msg)) = MsgNodeIds(msg)
<1> DEFINE f == [n \in msg.nodes |-> Node(n[1], n[2])]
           S == {Node(n[1], n[2]) : n \in msg.nodes}
<1>1. msg.nodes \subseteq Endpoint \X {"placed", "nowhere"}
  BY DEF MsgOK, UpdateMsg
<1>2. IsFiniteSet(msg.nodes)
  BY <1>1, FewPlacesAndColours, FS_Subset
<1>3. IsFiniteSet(S)
  <2>1. f \in Surjection(msg.nodes, S)
    BY DEF Surjection
  <2> HIDE DEF f, S
  <2> QED
    BY <1>2, <2>1, FS_Surjection
<1>4. \A x, y \in S : x.id = y.id => x = y
  BY DEF MsgOK, OncePerId, Node
<1>5. {x.id : x \in S} = MsgNodeIds(msg)
  <2>1. \A n \in msg.nodes : Node(n[1], n[2]).id = n[1] /\ Node(n[1], n[2]) \in S
    BY DEF Node
  <2>2. \A x \in S : \E n \in msg.nodes : x = Node(n[1], n[2])
    OBVIOUS
  <2> HIDE DEF S
  <2> QED
    BY <2>1, <2>2 DEF MsgNodeIds
<1>6. NodesOf(msg) = SetToSeq(S)
  BY DEF NodesOf
<1> HIDE DEF S
<1> QED
  BY <1>3, <1>4, <1>5, <1>6, DistinctArray

(* The edges of an update that have both their ends. *)
LEMMA EdgesOfUpdate ==
    ASSUME NEW msg, MsgOK(msg), NEW E \in SUBSET (msg.edges \ Dangling(msg))
    PROVE  Distinct(EdgesOf(E)) /\ Joins(EdgesOf(E), MsgNodeIds(msg))
<1> DEFINE f == [e \in E |-> Edge(e[1], e[1][1], e[1][2], e[2])]
           S == {Edge(e[1], e[1][1], e[1][2], e[2]) : e \in E}
           q == EdgesOf(E)
<1>1. msg.edges \subseteq (NodeId \X NodeId) \X Colour
  BY DEF MsgOK, UpdateMsg
<1>2. IsFiniteSet(E)
  BY <1>1, FewPlacesAndColours, FS_Subset
<1>3. IsFiniteSet(S)
  <2>1. f \in Surjection(E, S)
    BY DEF Surjection
  <2> HIDE DEF f, S
  <2> QED
    BY <1>2, <2>1, FS_Surjection
<1>4. \A x, y \in S : x.id = y.id => x = y
  BY DEF MsgOK, OncePerId, Edge
<1>5. \A x \in S : /\ x.source \in MsgNodeIds(msg) /\ x.target \in MsgNodeIds(msg)
                   /\ x = Edge(x.id, x.source, x.target, x.data)
  BY DEF Dangling, HasEnds, Edge
<1>6. q = SetToSeq(S)
  BY DEF EdgesOf
<1> HIDE DEF S, q
<1>7. Distinct(q) /\ \A i \in 1..Len(q) : q[i] \in S
  BY <1>3, <1>4, <1>6, DistinctArray
<1>8. Joins(q, MsgNodeIds(msg))
  BY <1>5, <1>7 DEF Joins
<1> QED
  BY <1>7, <1>8 DEF q

-----------------------------------------------------------------------------
(* The timer meets every node of the table once, and what it holds and sends names
   no node and no edge twice. *)

NodesBefore(k) == \A r \in timer.nodes : \E i \in DOMAIN Table : i < k /\ Table[i] = r[1]
EdgesBefore(k) == \A r \in timer.edges : \E i \in DOMAIN Table : i < k /\ Table[i] = r[1][1]

\* The nodes taken so far, and then the nodes whose links are, come before the one in hand.
InTableOrder ==
    /\ timer.at = "nodes" => NodesBefore(timer.next) /\ timer.edges = {}
    /\ timer.at = "edges" => EdgesBefore(timer.next)
    /\ timer.at = "got" => \E p \in DOMAIN Table :
                              p < timer.next /\ timer.cur = Table[p] /\ EdgesBefore(p)
HeldOnce == OncePerId(timer.nodes) /\ OncePerId(timer.edges)
SentOnce == \A i \in DOMAIN updates : MsgOK(updates[i])

OnceInv == InTableOrder /\ HeldOnce /\ SentOnce

(* The iterator goes forward. *)
LEMMA NextFromIsLater ==
    ASSUME NEW i \in DOMAIN Table
    PROVE  i < NextFrom(i)
<1> DEFINE later == {j \in DOMAIN Table : j > i /\ Table[j] \in Known}
<1>1. DOMAIN Table = 1..Len(Table) /\ Len(Table) \in Nat
  BY TableAssumption
<1>2. later \in SUBSET Nat
  BY <1>1
<1>3. CASE later = {}
  BY <1>1, <1>3 DEF NextFrom, End
<1>4. CASE later # {}
  <2>1. \E j \in later : \A k \in later : j <= k
    <3> HIDE DEF later
    <3> QED
      BY <1>2, <1>4, FirstExists
  <2>2. NextFrom(i) = CHOOSE j \in later : \A k \in later : j <= k
    BY <1>4 DEF NextFrom
  <2>3. NextFrom(i) \in later
    <3> HIDE DEF later
    <3> QED
      BY <2>1, <2>2
  <2> QED
    BY <2>3
<1> QED
  BY <1>3, <1>4

\* What is read keeps its ids when it is made a message or a reset freezes it.
LEMMA CurrentOnce ==
    ASSUME HeldOnce
    PROVE  OncePerId(CurrentNodes(timer.nodes)) /\ OncePerId(CurrentEdges(timer.edges))
<1>1. ASSUME NEW x \in CurrentNodes(timer.nodes), NEW y \in CurrentNodes(timer.nodes), x[1] = y[1]
      PROVE  x = y
  <2>1. PICK r \in timer.nodes : x = <<r[1], IF r[2] = "live" THEN Place(r[1]) ELSE r[2]>>
    BY DEF CurrentNodes
  <2>2. PICK t \in timer.nodes : y = <<t[1], IF t[2] = "live" THEN Place(t[1]) ELSE t[2]>>
    BY DEF CurrentNodes
  <2>3. r = t
    BY <1>1, <2>1, <2>2 DEF HeldOnce, OncePerId
  <2> QED
    BY <2>1, <2>2, <2>3
<1>2. ASSUME NEW x \in CurrentEdges(timer.edges), NEW y \in CurrentEdges(timer.edges), x[1] = y[1]
      PROVE  x = y
  <2>1. PICK r \in timer.edges : x = <<r[1], IF r[2] = "live" THEN colour[r[1]] ELSE r[2]>>
    BY DEF CurrentEdges
  <2>2. PICK t \in timer.edges : y = <<t[1], IF t[2] = "live" THEN colour[t[1]] ELSE t[2]>>
    BY DEF CurrentEdges
  <2>3. r = t
    BY <1>2, <2>1, <2>2 DEF HeldOnce, OncePerId
  <2> QED
    BY <2>1, <2>2, <2>3
<1> QED
  BY <1>1, <1>2 DEF OncePerId

(* A reset in its two halves: what the timer holds keeps its ids. *)
LEMMA ResetKeepsOnce ==
    ASSUME GraphInv, OnceInv, ResetNodes \/ ResetEdges
    PROVE  InTableOrder' /\ HeldOnce'
<1>1. timer \in Timers
  BY DEF GraphInv, ThreadTypeOK
<1>2. /\ timer'.at = timer.at /\ timer'.next = timer.next /\ timer'.cur = timer.cur
      /\ timer'.nodes \in {timer.nodes, CurrentNodes(timer.nodes)}
      /\ timer'.edges \in {timer.edges, CurrentEdges(timer.edges)}
  BY <1>1 DEF ResetNodes, ResetEdges, Timers
<1>3. \A x \in timer'.edges : \E r \in timer.edges : r[1] = x[1]
  BY <1>2 DEF CurrentEdges
<1>4. \A k : EdgesBefore(k) => EdgesBefore(k)'
  BY <1>3 DEF EdgesBefore
<1>7. \A x \in timer'.nodes : \E r \in timer.nodes : r[1] = x[1]
  BY <1>2 DEF CurrentNodes
<1>8. \A k : NodesBefore(k) => NodesBefore(k)'
  BY <1>7 DEF NodesBefore
<1>9. timer.edges = {} => timer'.edges = {}
  BY <1>3
<1>5. InTableOrder'
  BY <1>2, <1>4, <1>8, <1>9 DEF OnceInv, InTableOrder
<1>6. HeldOnce'
  BY <1>2, CurrentOnce DEF OnceInv, HeldOnce
<1> QED
  BY <1>5, <1>6

(* The steps of the timer. *)
LEMMA TimerKeepsOnce ==
    ASSUME GraphInv, OnceInv, TimerStep
    PROVE  InTableOrder' /\ HeldOnce'
<1>1. timer \in Timers
  BY DEF GraphInv, ThreadTypeOK
<1>2. IdleTimer.nodes = {} /\ IdleTimer.edges = {} /\ IdleTimer.at = "idle"
  BY DEF IdleTimer
<1>3. CASE ReadNodes
  <2>1. timer'.at = "nodes" /\ timer'.edges = {} /\ timer'.nodes = {}
    BY <1>3 DEF ReadNodes, IdleTimer
  <2> QED
    BY <2>1 DEF InTableOrder, NodesBefore, HeldOnce, OncePerId
<1>8. CASE ReadNode
  <2> DEFINE n == Table[timer.next]
  <2>1. PICK taken \in BOOLEAN :
            timer' = [timer EXCEPT
                 !.nodes = IF taken THEN @ \cup {<<n, timer.held>>} ELSE @,
                 !.held = "live",
                 !.next = NextFrom(timer.next)]
    BY <1>8 DEF ReadNode
  <2>2. /\ timer'.at = timer.at /\ timer'.edges = timer.edges
        /\ timer'.next = NextFrom(timer.next)
        /\ timer'.nodes = IF taken THEN timer.nodes \cup {<<n, timer.held>>} ELSE timer.nodes
    BY <1>1, <2>1 DEF Timers
  <2>3. timer.at = "nodes" /\ timer.next # End
    BY <1>8 DEF ReadNode
  <2>4. timer.next \in DOMAIN Table
    BY <1>1, <2>3 DEF Timers
  <2>5. timer.next < timer'.next
    BY <2>2, <2>4, NextFromIsLater
  <2>6. DOMAIN Table \subseteq Nat /\ timer'.next \in Nat
    BY <2>2, NextFromIsPlace, TableAssumption DEF End
  <2>7. \A r \in timer.nodes : \E i \in DOMAIN Table : i < timer.next /\ Table[i] = r[1]
    BY <2>3 DEF OnceInv, InTableOrder, NodesBefore
  <2>8. \A r \in timer.nodes : r[1] # n
    BY <2>4, <2>6, <2>7, TableAssumption
  <2>9. timer.edges = {}
    BY <2>3 DEF OnceInv, InTableOrder
  <2>10. InTableOrder'
    <3>1. \A r \in timer.nodes : \E i \in DOMAIN Table : i < timer'.next /\ Table[i] = r[1]
      BY <2>4, <2>5, <2>6, <2>7
    <3>2. NodesBefore(timer.next)'
      <4>1. \A r \in timer'.nodes : r \in timer.nodes \/ r[1] = Table[timer.next]
        BY <2>2
      <4> QED
        BY <2>4, <2>5, <3>1, <4>1 DEF NodesBefore
    <3> QED
      BY <2>2, <2>3, <2>9, <3>2 DEF InTableOrder
  <2>11. OncePerId(timer.nodes) /\ OncePerId(timer.edges)
    BY DEF OnceInv, HeldOnce
  <2>12. OncePerId(timer'.nodes)
    <3> HIDE DEF n
    <3> QED
      BY <2>2, <2>8, <2>11 DEF OncePerId
  <2> QED
    BY <2>2, <2>10, <2>11, <2>12 DEF HeldOnce
<1>9. CASE NodesRead
  <2>1. timer'.at = "edges" /\ timer'.nodes = timer.nodes /\ timer'.edges = timer.edges
        /\ timer.at = "nodes"
    BY <1>1, <1>9 DEF NodesRead, Timers
  <2>2. timer'.edges = {}
    BY <2>1 DEF OnceInv, InTableOrder
  <2> QED
    BY <2>1, <2>2 DEF OnceInv, InTableOrder, EdgesBefore, HeldOnce
<1>4. CASE NextNode
  <2>1. /\ timer'.at = "got" /\ timer'.edges = timer.edges /\ timer'.nodes = timer.nodes
        /\ timer'.cur = Table[timer.next] /\ timer'.next = NextFrom(timer.next)
        /\ timer.at = "edges" /\ timer.next # End
    BY <1>1, <1>4 DEF NextNode, Timers
  <2>2. timer.next \in DOMAIN Table
    BY <1>1, <2>1 DEF Timers
  <2>3. timer.next < timer'.next
    BY <2>1, <2>2, NextFromIsLater
  <2>4. EdgesBefore(timer.next)
    BY <2>1 DEF OnceInv, InTableOrder
  <2>5. \A k : EdgesBefore(k) => EdgesBefore(k)'
    BY <2>1 DEF EdgesBefore
  <2>6. InTableOrder'
    <3>1. timer'.at \notin {"nodes", "edges"}
      BY <2>1
    <3>2. \E p \in DOMAIN Table : p < timer'.next /\ timer'.cur = Table[p] /\ EdgesBefore(p)'
      BY <2>1, <2>2, <2>3, <2>4, <2>5, Zenon
    <3> QED
      BY <3>1, <3>2 DEF InTableOrder
  <2> QED
    BY <2>1, <2>6 DEF OnceInv, HeldOnce
<1>5. CASE CollectEdges
  <2> DEFINE links == {m \in downstreamNodes[timer.cur] : m[1] # Root}
             new == {<<l, "live">> : l \in links}
  <2>1. /\ timer.at = "got" /\ timer'.at = "edges" /\ timer'.next = timer.next
        /\ timer'.nodes = timer.nodes /\ timer'.edges = timer.edges \cup new
        /\ timer.cur \in DOMAIN downstreamNodes
    BY <1>1, <1>5 DEF CollectEdges, Timers
  <2>2. PICK p \in DOMAIN Table : p < timer.next /\ timer.cur = Table[p] /\ EdgesBefore(p)
    BY <2>1 DEF OnceInv, InTableOrder
  <2>3. \A l \in links : l[1] = Table[p]
    BY <2>1, <2>2 DEF GraphInv, WebGraphTypeOK
  <2>4. \A x \in new : x[1][1] = Table[p] /\ x = <<x[1], "live">>
    BY <2>3
  <2> HIDE DEF links, new
  <2>5. DOMAIN Table \subseteq Nat /\ timer.next \in Nat
    BY <1>1, TableAssumption DEF End, Timers
  <2>6. \A r \in timer.edges : \E i \in DOMAIN Table : i < p /\ Table[i] = r[1][1]
    BY <2>2 DEF EdgesBefore
  <2>7. InTableOrder'
    <3>1. \A r \in timer.edges \cup new :
             \E i \in DOMAIN Table : i < timer.next /\ Table[i] = r[1][1]
      BY <2>2, <2>4, <2>5, <2>6
    <3> QED
      BY <2>1, <3>1 DEF InTableOrder, EdgesBefore
  <2>8. \A r \in timer.edges : r[1][1] # Table[p]
    BY <2>5, <2>6, TableAssumption
  <2>9. \A x, y \in timer.edges : x[1] = y[1] => x = y
    BY DEF OnceInv, HeldOnce, OncePerId
  <2>10. \A x, y \in timer.edges \cup new : x[1] = y[1] => x = y
    BY <2>4, <2>8, <2>9
  <2>11. OncePerId(timer.nodes)
    BY DEF OnceInv, HeldOnce
  <2> QED
    BY <2>1, <2>7, <2>10, <2>11 DEF HeldOnce, OncePerId
<1>6. CASE TimerDies
  <2>1. timer'.at = "dead" /\ timer'.nodes = {} /\ timer'.edges = {}
    BY <1>6 DEF TimerDies, IdleTimer
  <2> QED
    BY <2>1 DEF InTableOrder, HeldOnce, OncePerId
<1>7. CASE SendUpdate
  <2>1. timer' = IdleTimer
    BY <1>7 DEF SendUpdate
  <2> QED
    BY <1>2, <2>1 DEF InTableOrder, HeldOnce, OncePerId
<1> QED
  BY <1>3, <1>4, <1>5, <1>6, <1>7, <1>8, <1>9 DEF TimerStep

(* The updates in flight: the one that is sent is made of what the timer holds. *)
LEMMA MasterKeepsSentOnce ==
    ASSUME GraphInv, GraphInv', OnceInv, MasterStep
    PROVE  SentOnce'
<1>1. CASE updates' = updates
  BY <1>1 DEF OnceInv, SentOnce, MsgOK
<1>2. CASE SendUpdate
  <2> DEFINE msg == [nodes |-> CurrentNodes(timer.nodes), edges |-> CurrentEdges(timer.edges)]
  <2>1. OncePerId(msg.nodes) /\ OncePerId(msg.edges)
    BY CurrentOnce DEF OnceInv
  <2>2. updates' = updates \/ updates' = Append(updates, msg)
    BY <1>2 DEF SendUpdate, UpdateWebClient
  <2> HIDE DEF msg
  <2>3. CASE updates' = Append(updates, msg)
    <3>1. updates \in Seq(UpdateMsg) /\ updates' \in Seq(UpdateMsg)
      BY DEF GraphInv, WebGraphTypeOK
    <3>2. DOMAIN updates' = 1 .. Len(updates) + 1 /\ DOMAIN updates = 1 .. Len(updates)
          /\ Len(updates) \in Nat
      BY <2>3, <3>1
    <3>3. \A i \in 1 .. Len(updates) : updates'[i] = updates[i]
      BY <2>3, <3>1
    <3>4. updates'[Len(updates) + 1] = msg
      BY <2>3, <3>1
    <3>5. ASSUME NEW i \in DOMAIN updates'
          PROVE  MsgOK(updates'[i])
      <4>1. CASE i \in DOMAIN updates
        BY <3>2, <3>3, <4>1 DEF OnceInv, SentOnce
      <4>2. CASE i = Len(updates) + 1
        <5>1. updates'[i] \in UpdateMsg
          BY <3>1, <3>5
        <5> QED
          BY <2>1, <3>4, <4>2, <5>1 DEF MsgOK
      <4> QED
        BY <3>2, <3>5, <4>1, <4>2
    <3> QED
      BY <3>5 DEF SentOnce, MsgOK
  <2> QED
    BY <1>1, <2>2, <2>3
<1> QED
  BY <1>1, <1>2
     DEF MasterStep, WebGraphNext, TimerStep, StartWorkConfig, AddEdgeStep, AddMissingNode,
         AddMissingSet, AddLink, SetLocations, ResetNodes, ResetEdges, ReceiveStart, ReceiveEnd,
         ReportNoEdge, TestStatus, ColourEdge, ReadNodes, ReadNode, NodesRead, NextNode,
         CollectEdges, TimerDies

(* A step of the page leaves the timer alone and adds no update. *)
LEMMA OthersKeepOnce ==
    ASSUME GraphInv, OnceInv, UNCHANGED webGraphVars,
           updates' = updates \/ updates' = <<>> \/ (updates # <<>> /\ updates' = Tail(updates))
    PROVE  OnceInv'
<1>1. timer' = timer
  BY DEF webGraphVars, threadVars
<1>2. InTableOrder' /\ HeldOnce'
  BY <1>1 DEF OnceInv, InTableOrder, NodesBefore, EdgesBefore, HeldOnce, OncePerId
<1>3. updates \in Seq(UpdateMsg)
  BY DEF GraphInv, WebGraphTypeOK
<1>4. ASSUME NEW i \in DOMAIN updates'
      PROVE  \E j \in DOMAIN updates : updates'[i] = updates[j]
  <2>1. CASE updates' = <<>>
    BY <1>4, <2>1
  <2>2. CASE updates # <<>> /\ updates' = Tail(updates)
    <3>1. DOMAIN updates' = 1 .. Len(updates) - 1 /\ DOMAIN updates = 1 .. Len(updates)
          /\ Len(updates) \in Nat
      BY <1>3, <2>2
    <3>2. i \in 1 .. Len(updates) - 1 /\ i + 1 \in DOMAIN updates
      BY <1>4, <3>1
    <3>3. \A j \in 1 .. Len(updates) - 1 : Tail(updates)[j] = updates[j + 1]
      BY <1>3, <2>2
    <3>4. updates' = Tail(updates)
      BY <2>2
    <3>5. updates'[i] = updates[i + 1]
      BY <3>2, <3>3, <3>4, Zenon
    <3> QED
      BY <3>2, <3>5
  <2> QED
    BY <1>4, <2>1, <2>2
<1>5. SentOnce'
  BY <1>4 DEF OnceInv, SentOnce, MsgOK
<1> QED
  BY <1>2, <1>5 DEF OnceInv

LEMMA InitOnceInv == Init => OnceInv
<1> SUFFICES ASSUME Init PROVE OnceInv
  OBVIOUS
<1>1. timer.at = "idle" /\ timer.nodes = {} /\ timer.edges = {} /\ DOMAIN updates = {}
  BY DEF Init, WebGraphInit, IdleTimer
<1> QED
  BY <1>1 DEF OnceInv, InTableOrder, HeldOnce, OncePerId, SentOnce

LEMMA StepOnceInv == GraphInv /\ GraphInv' /\ OnceInv /\ [Next]_vars => OnceInv'
<1> SUFFICES ASSUME GraphInv, GraphInv', OnceInv, [Next]_vars PROVE OnceInv'
  OBVIOUS
<1>1. CASE MasterStep
  <2>1. SentOnce'
    BY <1>1, MasterKeepsSentOnce
  <2>2. CASE timer' = timer
    BY <2>1, <2>2 DEF OnceInv, InTableOrder, NodesBefore, EdgesBefore, HeldOnce, OncePerId
  <2>3. CASE timer' # timer
    <3>1. ResetNodes \/ ResetEdges \/ TimerStep
      BY <1>1, <2>3
         DEF MasterStep, WebGraphNext, StartWorkConfig, AddEdgeStep, AddMissingNode,
             AddMissingSet, AddLink, SetLocations, ReceiveStart, ReceiveEnd, ReportNoEdge,
             TestStatus, ColourEdge, threadVars
    <3> QED
      BY <2>1, <3>1, ResetKeepsOnce, TimerKeepsOnce DEF OnceInv
  <2> QED
    BY <2>2, <2>3
<1>2. CASE ClientStep \/ Connect
  BY <1>2, PageTakesUpdates, OthersKeepOnce
<1>3. CASE UNCHANGED vars
  BY <1>3, OthersKeepOnce DEF vars
<1> QED
  BY <1>1, <1>2, <1>3 DEF Next

-----------------------------------------------------------------------------
(* The graph of the page. *)

PageInv == SigmaShape /\ GraphOK(s.graph) /\ NodesOfOneUpdate

(* The graph that an update is read into has the nodes of the update. *)
LEMMA ReadUpdate ==
    ASSUME NEW msg, MsgOK(msg), NEW E \in SUBSET (msg.edges \ Dangling(msg)),
           NEW g, IsEmptyGraph(g)
    PROVE  /\ GraphOK(Read(g, NodesOf(msg), EdgesOf(E)))
           /\ NodeIds(Read(g, NodesOf(msg), EdgesOf(E))) = MsgNodeIds(msg)
<1>1. Distinct(NodesOf(msg)) /\ Ids(NodesOf(msg)) = MsgNodeIds(msg)
  BY NodesOfUpdate, Zenon
<1>2. Distinct(EdgesOf(E)) /\ Joins(EdgesOf(E), Ids(NodesOf(msg)))
  BY <1>1, EdgesOfUpdate
<1> QED
  BY <1>1, <1>2, ReadOK, ZenonT(30)

(* Copying the colours changes the data of edges and nothing else. *)
LEMMA RecolouredOK ==
    ASSUME NEW g, GraphOK(g), NEW msg
    PROVE  GraphOK(Recoloured(g, msg)) /\ NodeIds(Recoloured(g, msg)) = NodeIds(g)
<1> DEFINE colourIn == [l \in MsgEdgeIds(msg) |-> (CHOOSE e \in msg.edges : e[1] = l)[2]]
           missing == FirstMissing(g, msg)
           reached == ToSet(IF missing = 0 THEN g.edgesArray
                            ELSE SubSeq(g.edgesArray, 1, missing - 1))
           Coloured(e) == IF e \in reached THEN [g.edgesIndex[e] EXCEPT !.data = colourIn[e]]
                                            ELSE g.edgesIndex[e]
           f == [e \in EdgeIds(g) |-> Coloured(e)]
           h == [g EXCEPT !.edgesIndex = f]
<1>1. Recoloured(g, msg) = h
  BY DEF Recoloured
<1> HIDE DEF colourIn, reached, missing
<1>2. ASSUME NEW e \in EdgeIds(g)
      PROVE  f[e] = Edge(e, SourceOf(g, e), TargetOf(g, e), f[e].data)
  <2>1. PICK data : g.edgesIndex[e] = Edge(e, SourceOf(g, e), TargetOf(g, e), data)
    BY DEF GraphOK, EdgesOK
  <2>2. \E d : f[e] = Edge(e, SourceOf(g, e), TargetOf(g, e), d)
    <3> DEFINE src == SourceOf(g, e)
               tgt == TargetOf(g, e)
               x == g.edgesIndex[e]
    <3>1. f[e] = x \/ f[e] = [x EXCEPT !.data = colourIn[e]]
      OBVIOUS
    <3>2. x = [id |-> e, source |-> src, target |-> tgt, data |-> data]
      BY <2>1 DEF Edge
    <3> HIDE DEF src, tgt, x, f
    <3>3. f[e] = [id |-> e, source |-> src, target |-> tgt, data |-> data]
          \/ f[e] = [id |-> e, source |-> src, target |-> tgt, data |-> colourIn[e]]
      BY <3>1, <3>2
    <3> QED
      BY <3>3 DEF Edge, src, tgt
  <2> HIDE DEF f
  <2> QED
    BY <2>2 DEF Edge
<1>3. DOMAIN f = EdgeIds(g)
  OBVIOUS
<1> HIDE DEF f
<1>4. GraphOK(h) /\ NodeIds(h) = NodeIds(g)
  <2>1. \A e \in EdgeIds(g) : f[e] = Edge(e, SourceOf(g, e), TargetOf(g, e), f[e].data)
    BY <1>2
  <2> QED
    BY <1>3, <2>1, OtherDataOK, Zenon
<1> QED
  BY <1>1, <1>4, Zenon

(* The handlers of the page that change the graph, whole or up to the exception
   that ends them. *)
LEMMA UpdateKeepsPage ==
    ASSUME GraphInv, OnceInv, PageInv, PageStep
    PROVE  PageInv'
<1> DEFINE msg == Head(updates)
<1>1. MsgOK(msg)
  <2>1. updates # <<>> /\ updates \in Seq(UpdateMsg)
    BY DEF PageStep, CreateGraph, RebuildGraph, UpdateGraph, Receive, GraphInv, WebGraphTypeOK
  <2>2. 1 \in DOMAIN updates /\ msg = updates[1]
    BY <2>1
  <2> QED
    BY <2>2 DEF OnceInv, SentOnce
<1> HIDE DEF msg
<1>2. CASE CreateGraph
  <2> DEFINE made == Read(EmptyGraph, NodesOf(msg), EdgesOf(msg.edges))
  <2>1. \/ /\ Dangling(msg) = {} /\ s' = [alive |-> TRUE, graph |-> made]
           /\ lastMsg' = MsgNodeIds(msg)
        \/ UNCHANGED viewVars
    BY <1>2 DEF CreateGraph, msg
  <2>2. CASE UNCHANGED viewVars
    BY <2>2 DEF PageInv, SigmaShape, NodesOfOneUpdate, viewVars
  <2>3. CASE /\ Dangling(msg) = {} /\ s' = [alive |-> TRUE, graph |-> made]
             /\ lastMsg' = MsgNodeIds(msg)
    <3>1. msg.edges \in SUBSET (msg.edges \ Dangling(msg))
      BY <2>3
    <3>2. GraphOK(made) /\ NodeIds(made) = MsgNodeIds(msg)
      BY <1>1, <3>1, ReadUpdate, EmptyGraphIsEmpty, Zenon
    <3> HIDE DEF made
    <3>3. s'.graph = made /\ SigmaShape'
      BY <2>3 DEF SigmaShape
    <3> QED
      BY <2>3, <3>2, <3>3 DEF PageInv, NodesOfOneUpdate
  <2> QED
    BY <2>1, <2>2, <2>3
<1>3. CASE RebuildGraph
  <2>1. PICK added \in SUBSET (msg.edges \ Dangling(msg)) :
           s' = [s EXCEPT !.graph = Read(Clear(s.graph), NodesOf(msg), EdgesOf(added))]
    BY <1>3 DEF RebuildGraph, msg
  <2>2. lastMsg' = MsgNodeIds(msg)
    BY <1>3 DEF RebuildGraph, msg
  <2> DEFINE made == Read(Clear(s.graph), NodesOf(msg), EdgesOf(added))
  <2>3. IsEmptyGraph(Clear(s.graph))
    BY ClearedIsEmpty DEF PageInv, GraphOK
  <2>4. GraphOK(made) /\ NodeIds(made) = MsgNodeIds(msg)
    BY <1>1, <2>3, ReadUpdate, Zenon
  <2> HIDE DEF made
  <2>5. s'.graph = made /\ SigmaShape'
    BY <2>1, OtherGraph DEF PageInv, made
  <2> QED
    BY <2>2, <2>4, <2>5 DEF PageInv, NodesOfOneUpdate
<1>4. CASE UpdateGraph
  <2> DEFINE h == Recoloured(s.graph, msg)
  <2>1. (s' = [s EXCEPT !.graph = h] \/ s' = s) /\ lastMsg' = lastMsg
    BY <1>4 DEF UpdateGraph, msg
  <2>2. GraphOK(h) /\ NodeIds(h) = NodeIds(s.graph)
    BY RecolouredOK, Zenon DEF PageInv
  <2> HIDE DEF h
  <2>3. CASE s' = [s EXCEPT !.graph = h]
    <3>1. s'.alive = s.alive /\ s'.graph = h /\ SigmaShape'
      BY <2>3, OtherGraph DEF PageInv
    <3> QED
      BY <2>1, <2>2, <3>1 DEF PageInv, NodesOfOneUpdate
  <2>4. CASE s' = s
    BY <2>1, <2>4 DEF PageInv, SigmaShape, NodesOfOneUpdate
  <2> QED
    BY <2>1, <2>3, <2>4
<1> QED
  BY <1>2, <1>3, <1>4 DEF PageStep

LEMMA InitPageInv == Init => PageInv
<1> SUFFICES ASSUME Init PROVE PageInv
  OBVIOUS
<1>1. s = NoSigma
  BY DEF Init, WebClientInit
<1>2. s.graph = EmptyGraph /\ ~s.alive /\ SigmaShape
  BY <1>1 DEF NoSigma, SigmaShape
<1>3. GraphOK(s.graph)
  BY <1>2, EmptyGraphIsEmpty, NothingOK
<1> QED
  BY <1>2, <1>3 DEF PageInv, NodesOfOneUpdate

LEMMA StepPageInv == GraphInv /\ OnceInv /\ PageInv /\ [Next]_vars => PageInv'
<1> SUFFICES ASSUME GraphInv, OnceInv, PageInv, [Next]_vars PROVE PageInv'
  OBVIOUS
<1>1. CASE PageStep
  BY <1>1, UpdateKeepsPage
<1>2. CASE UNCHANGED viewVars
  BY <1>2 DEF viewVars, PageInv, SigmaShape, NodesOfOneUpdate
<1>3. CASE Reload
  <2>1. s' = NoSigma
    BY <1>3 DEF Reload
  <2>2. s'.graph = EmptyGraph /\ ~s'.alive /\ SigmaShape'
    BY <2>1 DEF NoSigma, SigmaShape
  <2>3. GraphOK(s'.graph)
    BY <2>2, EmptyGraphIsEmpty, NothingOK
  <2> QED
    BY <2>2, <2>3 DEF PageInv, NodesOfOneUpdate
<1> QED
  BY <1>1, <1>2, <1>3
     DEF Next, MasterStep, ClientStep, Connect, MouseStep, vars, webClientVars

(* Whatever updates the page gets, with nodes that an exception keeps from being
   drawn, links without an end, or a reload in between, the arrays, indexes and
   counters of its graph describe one and the same graph, none of whose edges
   lacks an end (sigma.classes.graph.js, refreshGraph of displayGraph.js). *)
THEOREM PageGraphIsCoherent == Spec => []PageGraphCoherent
<1> DEFINE Inv == GraphInv /\ OnceInv /\ PageInv
<1>1. Init => Inv
  BY InitGraphInv, InitOnceInv, InitPageInv DEF Init
<1>2. Inv /\ [Next]_vars => Inv'
  BY StepGraphInv, StepOnceInv, StepPageInv
<1>3. Inv => PageGraphCoherent
  BY GraphOKIsCoherent DEF PageInv, PageGraphCoherent
<1> QED
  BY <1>1, <1>2, <1>3, PTL DEF Spec

(* The page shows the nodes of one update and never those of two: of the last
   that made or rebuilt its graph (refreshGraph of displayGraph.js). *)
THEOREM PageShowsOneUpdate == Spec => []NodesOfOneUpdate
<1> DEFINE Inv == GraphInv /\ OnceInv /\ PageInv
<1>1. Init => Inv
  BY InitGraphInv, InitOnceInv, InitPageInv DEF Init
<1>2. Inv /\ [Next]_vars => Inv'
  BY StepGraphInv, StepOnceInv, StepPageInv
<1>3. Inv => NodesOfOneUpdate
  BY DEF PageInv
<1> QED
  BY <1>1, <1>2, <1>3, PTL DEF Spec

-----------------------------------------------------------------------------
(* The watchers. *)

Things == Endpoint \cup (NodeId \X NodeId)
Watch == [clicked : BOOLEAN, on : Things \cup {Null}, rows : SUBSET Things]
RowsFit(w) == IF w.on = Null THEN w.rows = {} ELSE w.on \in w.rows

WatchInv == watcher \in [Watched -> Watch] /\ \A k \in Watched : RowsFit(watcher[k])

\* What a handler does to one watcher leaves the other alone.
LEMMA OneWatcher ==
    ASSUME WatchInv, NEW k \in Watched, NEW w \in Watch, watcher' = [watcher EXCEPT ![k] = w],
           RowsFit(w)
    PROVE  WatchInv'
BY DEF WatchInv

LEMMA EmptyWatch == NoWatch \in Watch /\ RowsFit(NoWatch)
BY DEF NoWatch, Watch, RowsFit

LEMMA MouseKeepsWatch ==
    ASSUME WatchInv, MouseStep
    PROVE  WatchInv'
<1>1. ASSUME NEW k \in Watched, NEW x \in Thing(k), Over(k, x)
      PROVE  WatchInv'
  <2> DEFINE w == [watcher[k] EXCEPT !.on = x, !.rows = @ \cup {x}]
  <2>1. x # Null /\ x \in Things
    BY NullAssumption DEF Thing, Things
  <2>2. watcher[k] \in Watch /\ watcher \in [Watched -> Watch]
    BY DEF WatchInv
  <2>3. w \in Watch /\ w.on = x /\ w.rows = watcher[k].rows \cup {x}
    BY <2>1, <2>2 DEF Watch
  <2>4. RowsFit(w)
    BY <2>1, <2>3 DEF RowsFit
  <2>5. watcher' = [watcher EXCEPT ![k] = w]
    BY <1>1, <2>2 DEF Over
  <2> HIDE DEF w
  <2> QED
    BY <2>3, <2>4, <2>5, OneWatcher
<1>2. ASSUME NEW k \in Watched, Click(k)
      PROVE  WatchInv'
  <2> DEFINE w == [watcher[k] EXCEPT !.clicked = TRUE]
  <2>1. watcher[k] \in Watch /\ RowsFit(watcher[k])
    BY DEF WatchInv
  <2>2. w \in Watch /\ w.on = watcher[k].on /\ w.rows = watcher[k].rows
    BY <2>1 DEF Watch
  <2>3. RowsFit(w)
    BY <2>1, <2>2 DEF RowsFit
  <2>4. watcher' = [watcher EXCEPT ![k] = w]
    BY <1>2 DEF Click
  <2> HIDE DEF w
  <2> QED
    BY <2>2, <2>3, <2>4, OneWatcher
<1>3. ASSUME NEW k \in Watched, Out(k)
      PROVE  WatchInv'
  BY <1>3, OneWatcher, EmptyWatch DEF Out
<1>4. CASE ClickStage
  BY <1>4, EmptyWatch DEF ClickStage, WatchInv
<1> QED
  BY <1>1, <1>2, <1>3, <1>4 DEF MouseStep

(* A watcher table has rows exactly while something is on the watcher, and has
   the rows of that (overNode, outNode, clickNode, clickStage). *)
THEOREM WatchersHaveTheirRows == Spec => []WatcherHasItsRows
<1>1. Init => WatchInv
  BY EmptyWatch DEF Init, WebClientInit, WatchInv
<1>2. WatchInv /\ [Next]_vars => WatchInv'
  <2> SUFFICES ASSUME WatchInv, [Next]_vars PROVE WatchInv'
    OBVIOUS
  <2>1. CASE MouseStep
    BY <2>1, MouseKeepsWatch
  <2>2. CASE watcher' = watcher
    BY <2>2 DEF WatchInv
  <2>3. CASE Reload
    BY <2>3, EmptyWatch DEF Reload, WatchInv
  <2> QED
    BY <2>1, <2>2, <2>3
       DEF Next, MasterStep, ClientStep, PageStep, CreateGraph, RebuildGraph, UpdateGraph,
           Connect, vars, webClientVars
<1>3. WatchInv => WatcherHasItsRows
  BY DEF WatchInv, RowsFit, WatcherHasItsRows
<1> QED
  BY <1>1, <1>2, <1>3, PTL DEF Spec
=============================================================================
