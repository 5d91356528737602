----------------------------- MODULE MCSigmaHover -----------------------------
(***************************************************************************)
(* Three nodes for TLC, two of them with an edge.  Four units to a pixel.  *)
(***************************************************************************)
EXTENDS SigmaHover, TLC

CONSTANTS node1, node2, node3

Px(x, y) == <<4 * x, 4 * y>>

MCOrder == <<node1, node2, node3>>
MCFirst == (node1 :> <<-82, -42>>) @@ (node2 :> <<78, 46>>) @@ (node3 :> <<-58, 130>>)
MCSize == [n \in {node1, node2, node3} |-> 24]
MCEdgeEnds == <<node1, node2>>
\* on node1, on node2, on the edge, and between nothing
MCMouse == {<<-72, -40>>, <<88, 40>>, <<8, 8>>, <<-70, 110>>}
MCCameras == {<<0, 0>>, <<160, 80>>}
MCChanging == {node2, "edge"}
Rect(x1, y1, x2, y2, h) == [x1 |-> x1, y1 |-> y1, x2 |-> x2, y2 |-> y2, height |-> h]
MCAreas == {Rect(100, 60, -120, 60, 140), Rect(-100, -100, 140, 80, 100), Rect(-60, -160, -60, 200, 60)}
=============================================================================
