------------------------------ MODULE SigmaQuad ------------------------------
(***************************************************************************)
(* The quadtree of the nodes (sigma.classes.quad.js).  An element is in a  *)
(* leaf when, in every cell from the root down to it, its square meets the *)
(* quarter where the leaf is.  So the tree need not be built: a query walks *)
(* down the cells, and finds what has been inserted on the same way.       *)
(* Lengths are integers, Unit of them to a pixel; y grows down.            *)
(***************************************************************************)
EXTENDS Integers, Sequences, FiniteSets, FiniteSetsExt

CONSTANT Unit

ASSUME UnitAssumption == Unit \in Nat \ {0} /\ Unit % 4 = 0

MaxLevel == 4

\* A box is the product of two closed intervals
Box(x1, x2, y1, y2) == [x1 |-> x1, x2 |-> x2, y1 |-> y1, y2 |-> y2]

PointToSquare(at, size) == Box(at[1] - size, at[1] + size, at[2] - size, at[2] + size)

\* Variant: quarters are rounded down
RoundDown(v) == Unit * (v \div Unit)

\* Math.round: to the nearest pixel, a half up
Round(v) == Unit * ((2 * v + Unit) \div (2 * Unit))

\* Quarters are numbered left to right and top down from 0
SplitSquare(b, i) ==
    LET x == b.x + (i % 2) * (b.width \div 2)
        y == b.y + (i \div 2) * (b.height \div 2)
    IN  Box(x, x + b.width \div 2, y, y + b.height \div 2)

QuadIndex(p, b) ==
    (IF p[1] < b.x + b.width \div 2 THEN 0 ELSE 1) + (IF p[2] < b.y + b.height \div 2 THEN 0 ELSE 2)

\* quadIndexes: a box and a quarter
Meets(r, c) == r.x2 >= c.x1 /\ r.x1 <= c.x2 /\ r.y2 >= c.y1 /\ r.y1 <= c.y2

\* The bounds of a child are rounded; those of its quarter in the parent are not
QuadSubdivide(b, i) ==
    LET subw == Round(b.width \div 2)
        subh == Round(b.height \div 2)
    IN  [x |-> Round(b.x) + (i % 2) * subw, y |-> Round(b.y) + (i \div 2) * subh,
         width |-> subw, height |-> subh]

Cells == [x : Int, y : Int, width : Int, height : Int]

\* quadInsert has put the square into the leaf that quadRetrievePoint reads
RetrievedAt(square, p, root, depth) ==
    LET leaf[k \in 0 .. depth, b \in Cells] ==
            \/ k = 0
            \/ \E i \in {QuadIndex(p, b)} : Meets(square, SplitSquare(b, i)) /\ leaf[k - 1, QuadSubdivide(b, i)]
    IN  leaf[depth, root]
-----------------------------------------------------------------------------
(* Areas: rectangles that may be turned, given as in the code by their first *)
(* two corners and a height.                                                 *)

IsAxisAligned(r) == r.x1 = r.x2 \/ r.y1 = r.y2

AxisAlignedTopPoints(r) ==
    CASE r.y1 = r.y2 /\ r.x1 < r.x2 -> Box(r.x1, r.x2, r.y1, r.y1 + r.height)
      [] r.x1 = r.x2 /\ r.y2 > r.y1 -> Box(r.x1 - r.height, r.x1, r.y1, r.y1 + r.height)
      [] r.x1 = r.x2 /\ r.y2 < r.y1 -> Box(r.x1, r.x2 + r.height, r.y2, r.y2 + r.height)
      [] OTHER -> Box(r.x2, r.x1, r.y1 - r.height, r.y1)

Side(r) == <<r.x2 - r.x1, r.y2 - r.y1>>

\* The length of the first side: a whole number, for the rectangles in use
WidthOf(r) == LET d == Side(r)
              IN  CHOOSE w \in 1 .. 1000 * Unit : w * w = d[1] * d[1] + d[2] * d[2]

Plus(p, q) == <<p[1] + q[1], p[2] + q[2]>>
Minus(p, q) == <<p[1] - q[1], p[2] - q[2]>>
Dot(p, q) == p[1] * q[1] + p[2] * q[2]

\* Corners in the order top left, top right, lower left, lower right
LowerLeftCoor(r) ==
    LET d == Side(r)
        w == WidthOf(r)
    IN  <<r.x1 - (d[2] * r.height) \div w, r.y1 + (d[1] * r.height) \div w>>

RectangleCorners(r) ==
    LET llc == LowerLeftCoor(r)
    IN  <<<<r.x1, r.y1>>, <<r.x2, r.y2>>, llc, Plus(llc, Side(r))>>

BoxCorners(c) == <<<<c.x1, c.y1>>, <<c.x2, c.y1>>, <<c.x1, c.y2>>, <<c.x2, c.y2>>>>

Axes(c1, c2) == {Minus(c1[2], c1[1]), Minus(c1[2], c1[4]), Minus(c2[1], c2[3]), Minus(c2[1], c2[2])}

\* The projections on an axis overlap; to project is to divide by its length,
\* and on an axis of no length nothing compares
AxisCollision(a, c1, c2) ==
    LET On(c) == {Dot(c[i], a) : i \in 1 .. 4}
    IN  /\ a # <<0, 0>>
        /\ \E u \in On(c1), v \in On(c2) : v <= u
        /\ \E u \in On(c1), v \in On(c2) : v >= u

Collision(c1, c2) == \A a \in Axes(c1, c2) : AxisCollision(a, c1, c2)

\* What area() makes of its rectangle, once, for every cell it comes to
RectData(r) ==
    IF IsAxisAligned(r) THEN [aligned |-> TRUE, top |-> AxisAlignedTopPoints(r)]
    ELSE [aligned |-> FALSE, corners |-> RectangleCorners(r)]

AreaMeets(data, c) ==
    IF data.aligned THEN Meets(data.top, c)
    ELSE \E corners \in {BoxCorners(c)} : Collision(data.corners, corners)

\* quadRetrieveArea comes to a leaf that holds the square
RetrievedIn(square, data, root, depth) ==
    LET leaf[k \in 0 .. depth, b \in Cells] ==
            \/ k = 0
            \/ \E i \in 0 .. 3 : /\ \E c \in {SplitSquare(b, i)} : Meets(square, c) /\ AreaMeets(data, c)
                                 /\ leaf[k - 1, QuadSubdivide(b, i)]
    IN  leaf[depth, root]
=============================================================================
