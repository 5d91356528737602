------------------------------ MODULE SigmaGraph ------------------------------
(***************************************************************************)
(* The graph of the sigma library (sigma.classes.graph.js): an array and   *)
(* an index of the nodes, an array and an index of the edges, three        *)
(* neighbourhood indexes and three degree counters, all kept by hand.      *)
(*                                                                         *)
(* A graph is a record.  An index of objects by id is a function whose     *)
(* domain is the set of the ids it holds; the container                    *)
(* inNeighborsIndex[t][s] of edges is the set of the pairs <<s, e>> in     *)
(* inNeighborsIndex[t], so that an empty container is no container.  What  *)
(* a node or an edge carries beside its ids is its data.                   *)
(***************************************************************************)
EXTENDS Naturals, Sequences, FiniteSets, SequencesExt

EmptyGraph ==
    [nodesArray |-> <<>>, edgesArray |-> <<>>,
     nodesIndex |-> <<>>, edgesIndex |-> <<>>,
     inNeighborsIndex |-> <<>>, outNeighborsIndex |-> <<>>, allNeighborsIndex |-> <<>>,
     inNeighborsCount |-> <<>>, outNeighborsCount |-> <<>>, allNeighborsCount |-> <<>>]

Node(id, data) == [id |-> id, data |-> data]
Edge(id, source, target, data) ==
    [id |-> id, source |-> source, target |-> target, data |-> data]

NodeIds(g) == DOMAIN g.nodesIndex
EdgeIds(g) == DOMAIN g.edgesIndex

Put(f, k, v) == [x \in DOMAIN f \cup {k} |-> IF x = k THEN v ELSE f[x]]
Without(f, k) == [x \in DOMAIN f \ {k} |-> f[x]]
Joined(f, k, p) == [f EXCEPT ![k] = @ \cup {p}]
Parted(f, k, p) == [f EXCEPT ![k] = @ \ {p}]
Raised(f, k) == [f EXCEPT ![k] = @ + 1]
Lowered(f, k) == [f EXCEPT ![k] = @ - 1]
-----------------------------------------------------------------------------
(* Each method throws exactly if its Can... is false; the graph is then as it
   was, since every check precedes the first assignment. *)
CanAddNode(g, n) == n.id \notin NodeIds(g)
CanAddEdge(g, e) == {e.source, e.target} \subseteq NodeIds(g) /\ e.id \notin EdgeIds(g)
CanDropNode(g, n) == n \in NodeIds(g)
CanDropEdge(g, e) == e \in EdgeIds(g)

AddNode(g, n) ==
    [g EXCEPT !.nodesArray = Append(@, n.id),
              !.nodesIndex = Put(@, n.id, n.data),
              !.inNeighborsIndex = Put(@, n.id, {}),
              !.outNeighborsIndex = Put(@, n.id, {}),
              !.allNeighborsIndex = Put(@, n.id, {}),
              !.inNeighborsCount = Put(@, n.id, 0),
              !.outNeighborsCount = Put(@, n.id, 0),
              !.allNeighborsCount = Put(@, n.id, 0)]

AddEdge(g, e) ==
    [g EXCEPT !.edgesArray = Append(@, e.id),
              !.edgesIndex = Put(@, e.id, e),
              !.inNeighborsIndex = Joined(@, e.target, <<e.source, e.id>>),
              !.outNeighborsIndex = Joined(@, e.source, <<e.target, e.id>>),
              !.allNeighborsIndex = Joined(Joined(@, e.source, <<e.target, e.id>>),
                                           e.target, <<e.source, e.id>>),
              !.inNeighborsCount = Raised(@, e.target),
              !.outNeighborsCount = Raised(@, e.source),
              !.allNeighborsCount = Raised(Raised(@, e.target), e.source)]

DropEdge(g, id) ==
    LET e == g.edgesIndex[id] IN
    [g EXCEPT !.edgesArray = SelectSeq(@, LAMBDA x : x # id),
              !.edgesIndex = Without(@, id),
              !.inNeighborsIndex = Parted(@, e.target, <<e.source, id>>),
              !.outNeighborsIndex = Parted(@, e.source, <<e.target, id>>),
              !.allNeighborsIndex = Parted(Parted(@, e.source, <<e.target, id>>),
                                           e.target, <<e.source, id>>),
              !.inNeighborsCount = Lowered(@, e.target),
              !.outNeighborsCount = Lowered(@, e.source),
              !.allNeighborsCount = Lowered(Lowered(@, e.source), e.target)]

(* dropNode drops the edges of the node from the end of the array on, through
   dropEdge; the loops over the indexes of the other nodes come last. *)
DropNode(g, id) ==
    LET Bound(e) == id \in {g.edgesIndex[e].source, g.edgesIndex[e].target}
        edgeless == FoldRight(LAMBDA e, h : DropEdge(h, e), SelectSeq(g.edgesArray, Bound), g)
        Forget(f) == [n \in DOMAIN f \ {id} |-> {p \in f[n] : p[1] # id}]
    IN [edgeless EXCEPT !.nodesArray = SelectSeq(@, LAMBDA x : x # id),
                        !.nodesIndex = Without(@, id),
                        !.inNeighborsIndex = Forget(@),
                        !.outNeighborsIndex = Forget(@),
                        !.allNeighborsIndex = Forget(@),
                        !.inNeighborsCount = Without(@, id),
                        !.outNeighborsCount = Without(@, id),
                        !.allNeighborsCount = Without(@, id)]

ClearKeepingEdges(g) ==
    [g EXCEPT !.nodesArray = <<>>, !.nodesIndex = <<>>,
              !.inNeighborsIndex = <<>>, !.outNeighborsIndex = <<>>,
              !.allNeighborsIndex = <<>>, !.inNeighborsCount = <<>>,
              !.outNeighborsCount = <<>>, !.allNeighborsCount = <<>>]

ClearNodesArrayOnly(g) == [g EXCEPT !.nodesArray = <<>>]

Clear(g) ==
    [g EXCEPT !.nodesArray = <<>>, !.edgesArray = <<>>,
              !.nodesIndex = <<>>, !.edgesIndex = <<>>,
              !.inNeighborsIndex = <<>>, !.outNeighborsIndex = <<>>,
              !.allNeighborsIndex = <<>>, !.inNeighborsCount = <<>>,
              !.outNeighborsCount = <<>>, !.allNeighborsCount = <<>>]

(* read: all the nodes, then all the edges, each through its method. *)
WithNodes(g, nodes) ==
    LET read[i \in 0..Len(nodes)] == IF i = 0 THEN g ELSE AddNode(read[i - 1], nodes[i])
    IN read[Len(nodes)]
WithEdges(g, edges) ==
    LET read[i \in 0..Len(edges)] == IF i = 0 THEN g ELSE AddEdge(read[i - 1], edges[i])
    IN read[Len(edges)]
Read(g, nodes, edges) == WithEdges(WithNodes(g, nodes), edges)

Nodes(g) == [i \in DOMAIN g.nodesArray |->
                 Node(g.nodesArray[i], g.nodesIndex[g.nodesArray[i]])]
Edges(g) == [i \in DOMAIN g.edgesArray |-> g.edgesIndex[g.edgesArray[i]]]
Degree(g, id, which) ==
    CASE which = "in" -> g.inNeighborsCount[id]
      [] which = "out" -> g.outNeighborsCount[id]
      [] OTHER -> g.allNeighborsCount[id]
-----------------------------------------------------------------------------
(* The arrays, the indexes and the counters describe one and the same graph,
   and no edge lacks an end (the bookkeeping of all the methods above). *)
Coherent(g) ==
    LET E == {g.edgesIndex[e] : e \in EdgeIds(g)}
        Into(n) == {e \in E : e.target = n}
        OutOf(n) == {e \in E : e.source = n}
    IN /\ IsInjective(g.nodesArray) /\ ToSet(g.nodesArray) = NodeIds(g)
       /\ IsInjective(g.edgesArray) /\ ToSet(g.edgesArray) = EdgeIds(g)
       /\ \A e \in E : {e.source, e.target} \subseteq NodeIds(g)
       /\ \A f \in {"inNeighborsIndex", "outNeighborsIndex", "allNeighborsIndex",
                    "inNeighborsCount", "outNeighborsCount", "allNeighborsCount"} :
             DOMAIN g[f] = NodeIds(g)
       /\ \A n \in NodeIds(g) :
             /\ g.inNeighborsIndex[n] = {<<e.source, e.id>> : e \in Into(n)}
             /\ g.outNeighborsIndex[n] = {<<e.target, e.id>> : e \in OutOf(n)}
             /\ g.allNeighborsIndex[n] = g.inNeighborsIndex[n] \cup g.outNeighborsIndex[n]
             /\ Degree(g, n, "in") = Cardinality(Into(n))
             /\ Degree(g, n, "out") = Cardinality(OutOf(n))
             /\ Degree(g, n, "all") = Degree(g, n, "in") + Degree(g, n, "out")
=============================================================================
