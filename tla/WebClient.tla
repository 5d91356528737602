------------------------------- MODULE WebClient -------------------------------
(***************************************************************************)
(* The web page (displayGraph.js): it shows the updates of the Master in a *)
(* sigma graph, and the metrics of the node or edge under the mouse in a   *)
(* table each, the watchers.  A handler of the page runs to its end, or to *)
(* the exception that ends it.                                             *)
(***************************************************************************)
EXTENDS WebUpdates, SigmaGraph

CONSTANTS
    Null,        \* nodeIdOnWatcher and edgeIdOnWatcher without a value
    Watched,     \* the watchers that are looked at: "node", "edge"
    MaxReloads   \* bound: reloads of the page

ASSUME WatchedAssumption == Watched \subseteq {"node", "edge"}
ASSUME NullAssumption == Null \notin Endpoint /\ Null \notin NodeId \X NodeId

VARIABLES
    s,        \* the sigma instance: whether there is one, and its graph
    drawn,    \* the colours of the edges at the last s.refresh(), by id
    hovered,  \* the ids of the nodes that can be hovered: those of the last refresh
    watcher,  \* of the nodes and of the edges: whether it was clicked, the id on
              \* it, the ids with rows in its table
    lastMsg,  \* ghost: the node ids of the update that last rebuilt the graph
    threw,    \* ghost: an update ended in an exception since the last refresh
    reloads

viewVars == <<s, drawn, hovered, lastMsg, threw>>
webClientVars == <<viewVars, watcher, reloads>>

NoSigma == [alive |-> FALSE, graph |-> EmptyGraph]
Thing(k) == IF k = "node" THEN Endpoint ELSE NodeId \X NodeId
NoWatch == [clicked |-> FALSE, on |-> Null, rows |-> {}]
Colours(g) == [e \in EdgeIds(g) |-> g.edgesIndex[e].data]

WebClientInit ==
    /\ s = NoSigma /\ drawn = <<>> /\ hovered = {}
    /\ lastMsg = {} /\ threw = FALSE
    /\ watcher = [k \in Watched |-> NoWatch]
    /\ reloads = 0

WebClientTypeOK ==
    /\ s.alive \in BOOLEAN
    /\ NodeIds(s.graph) \subseteq Endpoint /\ EdgeIds(s.graph) \subseteq NodeId \X NodeId
    /\ DOMAIN drawn \subseteq NodeId \X NodeId /\ hovered \subseteq Endpoint
    /\ \A k \in Watched : watcher[k].rows \subseteq Thing(k)
    /\ reloads \in 0..MaxReloads
-----------------------------------------------------------------------------
NodesOf(msg) == SetToSeq({Node(n[1], n[2]) : n \in msg.nodes})
EdgesOf(E) == SetToSeq({Edge(e[1], e[1][1], e[1][2], e[2]) : e \in E})
MsgNodeIds(msg) == {n[1] : n \in msg.nodes}
MsgEdgeIds(msg) == {e[1] : e \in msg.edges}
HasEnds(msg, e) == {e[1][1], e[1][2]} \subseteq MsgNodeIds(msg)
Dangling(msg) == {e \in msg.edges : ~HasEnds(msg, e)}

NotGrown(msg) == Len(Nodes(s.graph)) >= Cardinality(msg.nodes)
SameSize(msg) == Len(Nodes(s.graph)) = Cardinality(msg.nodes)

RefreshDrawing(g) ==
    /\ drawn' = Colours(g)
    /\ UNCHANGED hovered

(* s.refresh(): the renderer draws the graph and the quadtree of the camera is
   indexed anew. *)
Refresh(g) ==
    /\ drawn' = Colours(g)
    /\ hovered' = NodeIds(g)

Receive == registered /\ updates # <<>> /\ updates' = Tail(updates) /\ UNCHANGED registered

(* The first update makes the sigma instance.  If the constructor throws, at an
   edge without an end, s is not assigned. *)
CreateGraph ==
    LET msg == Head(updates) IN
    /\ Receive /\ ~s.alive
    /\ IF Dangling(msg) = {}
       THEN /\ s' = [alive |-> TRUE,
                     graph |-> Read(EmptyGraph, NodesOf(msg), EdgesOf(msg.edges))]
            /\ Refresh(s'.graph) /\ lastMsg' = MsgNodeIds(msg) /\ threw' = FALSE
       ELSE UNCHANGED viewVars
    /\ UNCHANGED <<watcher, reloads>>

(* An update with another number of nodes: the graph is cleared and filled
   again.  addEdge throws at the first edge without an end: the edges before
   it, in whatever order the JSON has them, stay, and nothing is refreshed. *)
RebuildGraph ==
    LET msg == Head(updates) IN
    /\ Receive /\ s.alive /\ ~SameSize(msg)
    /\ \E added \in SUBSET (msg.edges \ Dangling(msg)) :
          /\ Dangling(msg) = {} => added = msg.edges
          /\ s' = [s EXCEPT !.graph = Read(Clear(@), NodesOf(msg), EdgesOf(added))]
    /\ lastMsg' = MsgNodeIds(msg)
    /\ threw' = (Dangling(msg) # {})
    /\ IF ~threw' THEN Refresh(s'.graph) ELSE UNCHANGED <<drawn, hovered>>
    /\ UNCHANGED <<watcher, reloads>>

(* The first edge of the array that the update lacks, 0 if there is none. *)
FirstMissing(g, msg) == SelectInSeq(g.edgesArray, LAMBDA e : e \notin MsgEdgeIds(msg))

(* The colours are copied by id, up to the first edge that the update lacks. *)
Recoloured(g, msg) ==
    LET colourIn == [l \in MsgEdgeIds(msg) |-> (CHOOSE e \in msg.edges : e[1] = l)[2]]
        missing == FirstMissing(g, msg)
        reached == ToSet(IF missing = 0 THEN g.edgesArray
                         ELSE SubSeq(g.edgesArray, 1, missing - 1))
        Coloured(e) == IF e \in reached THEN [g.edgesIndex[e] EXCEPT !.data = colourIn[e]]
                                         ELSE g.edgesIndex[e]
    IN [g EXCEPT !.edgesIndex = [e \in EdgeIds(g) |-> Coloured(e)]]

(* An update with as many nodes as the graph: colours and sizes are copied by
   id.  An id that the update lacks is an exception, at the nodes before
   anything is seen of it, at the edges after those that come first in the
   array.  A new edge is not looked at, nor is a place. *)
UpdateGraph ==
    LET msg == Head(updates)
        g == s.graph
        missing == FirstMissing(g, msg)
        h == Recoloured(g, msg)
    IN /\ Receive /\ s.alive /\ SameSize(msg)
       /\ IF NodeIds(g) \subseteq MsgNodeIds(msg)
          THEN /\ s' = [s EXCEPT !.graph = h]
               /\ IF missing = 0 /\ h # g
                  THEN Refresh(h) /\ threw' = FALSE
                  ELSE threw' = (threw \/ missing # 0) /\ UNCHANGED <<drawn, hovered>>
          ELSE threw' = TRUE /\ UNCHANGED <<s, drawn, hovered>>
       /\ UNCHANGED <<lastMsg, watcher, reloads>>
-----------------------------------------------------------------------------
(* overNode and overEdge: the handler looks the thing up by its id in the graph
   of now, though the mouse finds those of the last refresh; its rows are
   appended to whatever the table holds.  A thing that is gone is logged, or an
   exception before the table is touched. *)
Hoverable(k) == IF k = "node" THEN hovered ELSE DOMAIN drawn
Present(k) == IF k = "node" THEN NodeIds(s.graph) ELSE EdgeIds(s.graph)

Over(k, x) ==
    /\ s.alive /\ x \in Hoverable(k) \cap Present(k)
    /\ ~watcher[k].clicked
    /\ watcher' = [watcher EXCEPT ![k].on = x, ![k].rows = @ \cup {x}]

Click(k) ==
    /\ s.alive /\ Hoverable(k) # {}
    /\ watcher' = [watcher EXCEPT ![k].clicked = TRUE]

OutLeavingRows(k) ==
    /\ s.alive /\ ~watcher[k].clicked
    /\ watcher' = [watcher EXCEPT ![k].on = Null]

Out(k) ==
    /\ s.alive /\ ~watcher[k].clicked
    /\ watcher' = [watcher EXCEPT ![k] = NoWatch]

ClickStage ==
    /\ s.alive
    /\ watcher' = [k \in Watched |-> NoWatch]

(* The page is loaded again: everything of it starts anew, and it registers
   once its connection is open. *)
Reload ==
    /\ reloads < MaxReloads /\ registered
    /\ reloads' = reloads + 1
    /\ registered' = FALSE /\ updates' = <<>>
    /\ s' = NoSigma /\ drawn' = <<>> /\ hovered' = {}
    /\ lastMsg' = {} /\ threw' = FALSE
    /\ watcher' = [k \in Watched |-> NoWatch]

PageStep == CreateGraph \/ RebuildGraph \/ UpdateGraph
MouseStep ==
    /\ \/ \E k \in Watched : Click(k) \/ Out(k) \/ \E x \in Thing(k) : Over(k, x)
       \/ ClickStage
    /\ UNCHANGED <<viewVars, reloads, registered, updates>>
=============================================================================
