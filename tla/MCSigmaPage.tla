------------------------------ MODULE MCSigmaPage ------------------------------
(***************************************************************************)
(* Two nodes side by side and two edges of two types, on three renderers.  *)
(***************************************************************************)
EXTENDS SigmaPage, TLC

CONSTANTS node1, node2, node3, edge1, edge2, edge3, canvas, webgl, svg

MCOrder == <<canvas, webgl, svg>>
MCKind == [r \in {canvas, webgl, svg} |->
              IF r = canvas THEN "canvas" ELSE IF r = webgl THEN "webgl" ELSE "svg"]
MCAt == [n \in {node1, node2, node3} |-> IF n = node1 THEN 0 ELSE 2]
MCTypeOf == [x \in {edge1, edge2, edge3} |-> IF x = edge3 THEN "arrow" ELSE "def"]
MCMoreNodes == <<Node(node3, "")>>
MCMoreEdges == <<Edge(edge3, node3, node2, "")>>
MCFirstNodes == <<Node(node1, ""), Node(node2, "")>>
MCFirstEdges == <<Edge(edge1, node1, node2, ""), Edge(edge2, node2, node2, "")>>
MCFrames == {<<>>, <<1>>}
=============================================================================
