---------------------------- MODULE SigmaEdgeQuad ----------------------------
(***************************************************************************)
(* The quadtree of the edges (sigma.classes.edgequad.js).  The file is a   *)
(* copy of that of SigmaQuad: the same cells and areas, twice as deep, over *)
(* the boxes of straight edges.  While the index is disabled it keeps what *)
(* it has and finds nothing.                                               *)
(***************************************************************************)
EXTENDS SigmaQuad

MaxEdgeLevel == 8

\* Variant: the source is taken to be on the left
LineToSquareFromSource(from, to, size) ==
    LET top == IF from[2] < to[2] THEN from[2] ELSE to[2]
        bottom == IF from[2] < to[2] THEN to[2] ELSE from[2]
    IN  Box(from[1] - size, to[1] + size, top - size, bottom + size)

\* By which end is on top, and which on the left
LineToSquare(from, to, size) ==
    LET top == IF from[2] < to[2] THEN from[2] ELSE to[2]
        height == (IF from[2] < to[2] THEN to[2] - from[2] ELSE from[2] - to[2]) + 2 * size
        left == IF from[1] < to[1] THEN from[1] ELSE to[1]
        right == IF from[1] < to[1] THEN to[1] ELSE from[1]
    IN  Box(left - size, right + size, top - size, top - size + height)

\* Whether index() has put the edge where point() looks for it
EdgeRetrievedAt(from, to, size, p, root, enabled) ==
    enabled /\ RetrievedAt(LineToSquare(from, to, size), p, root, MaxEdgeLevel)

\* Whether area() comes to a leaf where index() has put the edge
EdgeRetrievedIn(from, to, size, data, root, enabled) ==
    enabled /\ RetrievedIn(LineToSquare(from, to, size), data, root, MaxEdgeLevel)
=============================================================================
