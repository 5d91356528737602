------------------------------ MODULE SigmaHover ------------------------------
(***************************************************************************)
(* What is under the mouse on a canvas: the two captors of the renderer    *)
(* (sigma.captors.mouse.js and touch.js), the hit tests that turn their    *)
(* events into over and out events (sigma.misc.bindEvents.js), the layer   *)
(* that draws what is hovered (sigma.misc.drawHovers.js), and the plugin   *)
(* that drags nodes (sigma.plugins.dragNodes.js).                          *)
(*                                                                         *)
(* The page has one thread; a step is an event with all that it calls.     *)
(* Points are places on the screen, from its middle.  The camera is moved  *)
(* but neither turned nor zoomed, and nodes stand where their coordinates  *)
(* say (autoRescale is off).  A hand rests before it lets go of the stage. *)
(***************************************************************************)
EXTENDS SigmaEdgeQuad, SequencesExt, Lists

CONSTANTS
    Order,      \* the nodes in the order of the graph
    First,      \* where each node is at first
    Size,       \* the size of each node
    EdgeEnds,   \* the nodes that the one edge connects
    EdgeSize,
    Precision,  \* edgeHoverPrecision
    Width, Height, \* of the screen
    Mouse,      \* places of the mouse on the screen
    Cameras,    \* where the stage may be dragged
    Areas,      \* rectangles for which the index is asked
    Changing,   \* nodes that the page hides or drops, and perhaps "edge"
    None,       \* no node; no place on the canvas
    MaxOps      \* bound on what the page does and on the gestures

ASSUME HoverAssumption ==
    /\ Order \in Seq(Range(Order))
    /\ Cardinality(Range(Order)) = Len(Order) /\ Len(Order) >= 2
    /\ Range(EdgeEnds) \subseteq Range(Order)

VARIABLES
    page,     \* the graph, the camera and the variables of all handlers, see Built
    mouse,    \* where the mouse is on the canvas, or None
    button,   \* its button is down
    careless, \* history: the mouse left the canvas from an edge, or a node was
              \* dropped before a render that was due
    ops

vars == <<page, mouse, button, careless, ops>>

Captors == {"mouse", "touch"}

Built == [place |-> First, gone |-> {}, hidden |-> {},  \* of the nodes and "edge"
          cam |-> <<0, 0>>, view |-> <<0, 0>>,  \* the camera, and at the last render
          pending |-> FALSE,              \* a render is due at the next frame
          threw |-> FALSE,
          at |-> None,                    \* mX and mY, which the captors share
          over |-> [c \in Captors |-> <<>>],      \* overNodes of each
          overEdge |-> [c \in Captors |-> FALSE],
          lit |-> {}, litEdge |-> FALSE,  \* hoveredNodes and hoveredEdges
          captor |-> None, startCam |-> <<0, 0>>, startAt |-> None, \* who drags the stage
          enabled |-> TRUE,               \* mouseEnabled, enableHovering, the index of edges
          stack |-> <<>>, index |-> {}, node |-> None, down |-> FALSE,
          listens |-> FALSE,              \* the plugin to mousedown
          drags |-> FALSE]                \* and to mousemove and mouseup
-----------------------------------------------------------------------------
(* Hit tests *)

Present(h) == Range(Order) \ h.gone
Nodes(h) == Kept(Order, Present(h))

\* getBoundaries: the centres of the nodes
Bounds(h) ==
    LET xs == {h.place[n][1] : n \in Present(h)}
        ys == {h.place[n][2] : n \in Present(h)}
    IN  [x |-> Min(xs), y |-> Min(ys), width |-> Max(xs) - Min(xs), height |-> Max(ys) - Min(ys)]

SquareOf(h, n) == PointToSquare(h.place[n], Size[n])

\* applyView: where the node was drawn
Shown(h, n) == Minus(h.place[n], h.view)

Distance2(p, q) == Dot(Minus(p, q), Minus(p, q))
OnDisc(h, n) == h.at # None /\ Distance2(h.at, Shown(h, n)) < Size[n] * Size[n]

InsertBySize(s, n) ==
    LET before == {m \in Range(s) : Size[m] >= Size[n]}
    IN  Kept(s, before) \o <<n>> \o Kept(s, Range(s) \ before)

GetNodes(h) ==
    IF h.at = None THEN <<>>
    ELSE LET p == Plus(h.at, h.cam)
             bounds == Bounds(h)
             hit == Kept(Nodes(h), {n \in Present(h) \ h.hidden :
                                       /\ OnDisc(h, n)
                                       /\ RetrievedAt(SquareOf(h, n), p, bounds, MaxLevel)})
             sorted[i \in 0 .. Len(hit)] ==
                 IF i = 0 THEN <<>> ELSE InsertBySize(sorted[i - 1], hit[i])
         IN  sorted[Len(hit)]

\* The distance of the line is less than epsilon; the products are kept small for
\* TLC by dividing by Unit twice
IsPointOnSegment(p, from, to, epsilon) ==
    LET cross == ((p[2] - from[2]) * (to[1] - from[1]) - (p[1] - from[1]) * (to[2] - from[2])) \div Unit
    IN  /\ cross * cross <= (epsilon * epsilon * Distance2(from, to) - 1) \div (Unit * Unit)
        /\ p[1] \in Min({from[1], to[1]}) .. Max({from[1], to[1]})
        /\ p[2] \in Min({from[2], to[2]}) .. Max({from[2], to[2]})

OnEdge(h) ==
    LET from == EdgeEnds[1]
        to == EdgeEnds[2]
    IN  /\ h.at # None /\ h.gone \cap {from, to} = {} /\ h.hidden \cap {from, to, "edge"} = {}
        /\ \A n \in {from, to} : Distance2(h.at, Shown(h, n)) > Size[n] * Size[n]
        /\ IsPointOnSegment(h.at, Shown(h, from), Shown(h, to), Max({EdgeSize, Precision}))

\* The screen with a margin
GetRectangle(c) ==
    [x1 |-> c[1] - (3 * Width) \div 4, y1 |-> c[2] - (3 * Height) \div 4,
     x2 |-> c[1] + (3 * Width) \div 4, y2 |-> c[2] - (3 * Height) \div 4,
     height |-> (3 * Height) \div 2]

OnScreen(h, n) == RetrievedIn(SquareOf(h, n), RectData(GetRectangle(h.cam)), Bounds(h), MaxLevel)

\* Whether getEdges finds the edge
GetEdges(h) ==
    /\ OnEdge(h)
    /\ EdgeRetrievedAt(h.place[EdgeEnds[1]], h.place[EdgeEnds[2]], EdgeSize,
                       Plus(h.at, h.cam), Bounds(h), h.enabled)
    /\ \E n \in Range(EdgeEnds) : OnScreen(h, n)
-----------------------------------------------------------------------------
(* The layer of what is hovered, and the plugin, which listen to over and out *)

\* draw() looks for the ends of the edge it draws
Draw(h) ==
    [h EXCEPT !.threw = @ \/ /\ h.litEdge /\ "edge" \notin h.hidden
                             /\ Range(EdgeEnds) \cap h.gone # {}]

NodeMouseOver(h, n) ==
    IF n \in h.index THEN h
    ELSE [h EXCEPT !.stack = Append(@, n), !.index = @ \cup {n},
                   !.node = IF h.down THEN @ ELSE n,
                   !.listens = @ \/ ~h.down]

\* Variant: the node that was last over is kept as the node to drag
TreatOutNodeKeeping(h, n) ==
    LET stack == Kept(h.stack, Range(h.stack) \ {n})
    IN  [h EXCEPT !.stack = stack, !.index = @ \ {n},
                  !.listens = @ /\ stack # <<>>]

\* splice(-1, 1) when the node is not in the stack: the last one goes
TreatOutNode(h, n) ==
    LET at == IF Contains(h.stack, n) THEN SelectInSeq(h.stack, LAMBDA m : m = n) ELSE Len(h.stack)
        stack == IF h.stack = <<>> THEN <<>> ELSE RemoveAt(h.stack, at)
        next == stack # <<>> /\ ~h.down
    IN  [h EXCEPT !.stack = stack, !.index = @ \ {n},
                  !.node = IF next THEN Last(stack) ELSE @,
                  !.listens = @ /\ next]

\* Handlers after one that threw are not called
OverNode(h, n) ==
    IF h.threw THEN h
    ELSE NodeMouseOver(IF n \in h.hidden THEN h ELSE Draw([h EXCEPT !.lit = @ \cup {n}]), n)

OutNode(h, n) ==
    IF h.threw THEN h ELSE TreatOutNode(Draw([h EXCEPT !.lit = @ \ {n}]), n)

\* overNode, or else outNode, for the nodes of a list, one after the other
\* (each state is bound in a set for TLC to evaluate it once)
Told(h, over, list) ==
    LET after[i \in 0 .. Len(list)] ==
            IF i = 0 THEN h
            ELSE CHOOSE r \in {IF over THEN OverNode(x, list[i]) ELSE OutNode(x, list[i]) :
                                   x \in {after[i - 1]}} : TRUE
    IN  after[Len(list)]

\* Variant: a node that is no longer under the mouse stays in overNodes
OnMoveNodesKeeping(h, c, nodes) ==
    LET newOver == Kept(nodes, Range(nodes) \ Range(h.over[c]))
        newOut == Kept(h.over[c], Range(h.over[c]) \ Range(nodes))
    IN  Told(Told([h EXCEPT !.over[c] = @ \o newOver], TRUE, newOver), FALSE, newOut)

\* First what is over, then what is out; first the nodes, then the edges
OnMoveNodes(h, c, nodes) ==
    LET newOver == Kept(nodes, Range(nodes) \ Range(h.over[c]))
        newOut == Kept(h.over[c], Range(h.over[c]) \ Range(nodes))
        moved == [h EXCEPT !.over[c] = Kept(@, Range(nodes)) \o newOver]
    IN  Told(Told(moved, TRUE, newOver), FALSE, newOut)

\* Variant: an edge that is no longer under the mouse is not told to the layer
OnMoveEdgesQuiet(h, c, edge) ==
    IF h.threw \/ h.overEdge[c] = edge THEN h
    ELSE Draw([h EXCEPT !.overEdge[c] = edge, !.litEdge = @ \/ edge])

OnMoveEdges(h, c, edge) ==
    IF h.threw \/ h.overEdge[c] = edge THEN h
    ELSE Draw([h EXCEPT !.overEdge[c] = edge, !.litEdge = edge])

OnMove(h, c) ==
    IF h.threw THEN h
    ELSE CHOOSE r \in {OnMoveEdges(x, c, GetEdges(h)) :
                            x \in {OnMoveNodes(h, c, nodes) : nodes \in {GetNodes(h)}}} : TRUE

\* The edges go without an event: outEdges stays empty
OnOut(h, c) ==
    Told([h EXCEPT !.over[c] = <<>>, !.overEdge[c] = FALSE], FALSE, h.over[c])

\* The handlers of "render", in the order in which they were bound
Render(h) ==
    CHOOSE r \in {Draw(y) : y \in {OnMove(x, "touch") :
                    x \in {OnMove([h EXCEPT !.view = h.cam], "mouse")}}} : TRUE

GoTo(h, c) == [h EXCEPT !.cam = c, !.pending = TRUE]
-----------------------------------------------------------------------------
(* The plugin drags a node *)

NodeMouseDown(h) ==
    LET down == [h EXCEPT !.down = TRUE]
    IN  IF h.node = None \/ Len(Nodes(h)) < 2 THEN down
        ELSE Render([down EXCEPT !.listens = FALSE, !.drags = TRUE, !.enabled = FALSE])

\* From the screen to the graph by the node that is first in the graph: it is
\* where it was drawn
DragTo(h, q) ==
    LET ref == Nodes(h)[1]
    IN  Render([h EXCEPT !.place[h.node] = Plus(Minus(q, Shown(h, ref)), h.place[ref])])

\* Variant: what was switched off for the drag stays off
NodeMouseUpLeaving(h) ==
    Render([h EXCEPT !.down = FALSE, !.listens = TRUE, !.drags = FALSE, !.node = None])

NodeMouseUp(h) ==
    CHOOSE r \in {[x EXCEPT !.node = None] :
        x \in {Render([h EXCEPT !.down = FALSE, !.listens = TRUE, !.drags = FALSE, !.enabled = TRUE])}} : TRUE

Click(h) ==
    [h EXCEPT !.down = FALSE, !.drags = FALSE, !.node = IF h.stack = <<>> THEN None ELSE @]
-----------------------------------------------------------------------------
(* Events.  The captor of the mouse hears of a button before the plugin does *)
(* when it goes down, after it when it goes up.                              *)

Init == /\ page = Render(Built)
        /\ mouse = None /\ button = FALSE /\ careless = FALSE /\ ops = 0

Operation == ops < MaxOps /\ ops' = ops + 1

\* The linear interpolation of a drag divides by the distances of the first two
\* nodes: a hand that aligns them is left out
Straight(h) ==
    LET n == Nodes(h)[1]
        m == Nodes(h)[2]
    IN  h.place[n][1] # h.place[m][1] /\ h.place[n][2] # h.place[m][2]

MouseMove ==
    \E q \in Mouse \ {mouse} :
       /\ ~page.threw /\ page.captor # "touch"
       /\ \E h \in {IF page.enabled THEN OnMove([page EXCEPT !.at = q], "mouse") ELSE page} :
          LET to == Minus(h.startCam, Minus(q, h.startAt))
          IN  page' = CASE h.enabled /\ h.captor = "mouse" /\ to # h.cam -> GoTo(h, to)
                        [] ~h.enabled /\ h.drags -> DragTo(h, q)
                        [] OTHER -> h
       /\ page'.cam \in Cameras /\ Straight(page')
       /\ mouse' = q
       /\ UNCHANGED <<button, careless, ops>>

MouseOut ==
    /\ mouse # None /\ ~page.threw
    /\ page' = IF page.enabled THEN OnOut(page, "mouse") ELSE page
    /\ careless' = (careless \/ (page.enabled /\ page.overEdge["mouse"]))
    /\ mouse' = None
    /\ UNCHANGED <<button, ops>>

\* A listener hears of an event when it was there before it and still is
MouseDown ==
    /\ mouse # None /\ ~button /\ page.captor # "touch" /\ ~page.threw
    /\ Operation
    /\ \E h \in {IF page.enabled
                 THEN OnMove([page EXCEPT !.captor = "mouse", !.startCam = page.cam,
                                          !.startAt = mouse, !.at = mouse], "mouse")
                 ELSE page} :
          page' = IF page.listens /\ h.listens /\ ~h.threw THEN NodeMouseDown(h) ELSE h
    /\ button' = TRUE
    /\ UNCHANGED <<mouse, careless>>

\* Outside the canvas the place is measured in whatever is there
UpHandler(h, p) ==
    IF h.enabled /\ h.captor = "mouse"
    THEN OnMove([h EXCEPT !.captor = None, !.at = p, !.pending = @ \/ h.startAt # p], "mouse")
    ELSE h

MouseUp ==
    /\ button /\ ~page.threw
    /\ \E p \in IF mouse = None THEN Mouse ELSE {mouse},
          h \in {IF page.drags THEN NodeMouseUp(page) ELSE page} :
       \E up \in {UpHandler(h, p)} :
          page' = IF mouse # None /\ up.enabled /\ ~up.threw THEN Click(up) ELSE up
    /\ button' = FALSE
    /\ UNCHANGED <<mouse, careless, ops>>

TouchStart ==
    \E p \in Mouse :
       /\ page.captor = None /\ ~button /\ ~page.threw
       /\ Operation
       /\ page' = [page EXCEPT !.captor = "touch", !.startCam = page.cam, !.startAt = p]
       /\ UNCHANGED <<mouse, button, careless>>

TouchMove ==
    \E q \in Mouse :
       LET to == Minus(page.startCam, Minus(q, page.startAt))
       IN  /\ page.captor = "touch" /\ ~page.threw
           /\ to # page.cam /\ to \in Cameras
           /\ page' = OnMove([GoTo(page, to) EXCEPT !.at = q], "touch")
           /\ UNCHANGED <<mouse, button, careless, ops>>

TouchEnd ==
    /\ page.captor = "touch" /\ ~page.threw
    /\ page' = [page EXCEPT !.captor = None]
    /\ UNCHANGED <<mouse, button, careless, ops>>

Frame ==
    /\ page.pending /\ ~page.threw
    /\ page' = Render([page EXCEPT !.pending = FALSE])
    /\ UNCHANGED <<mouse, button, careless, ops>>

(* What the page does, with the refresh that follows. *)
Hides ==
    \E x \in Changing :
       /\ ~page.threw /\ Operation
       /\ page' = Render([page EXCEPT !.hidden = IF x \in @ THEN @ \ {x} ELSE @ \cup {x}])
       /\ UNCHANGED <<mouse, button, careless>>

DropsNode ==
    \E n \in Present(page) \cap Changing :
       /\ Len(Nodes(page)) > 2 /\ ~page.threw /\ Operation
       /\ page' = Render([page EXCEPT !.gone = @ \cup {n}])
       /\ Straight(page')
       /\ careless' = (careless \/ page.pending)
       /\ UNCHANGED <<mouse, button>>

MovesCamera ==
    \E c \in Cameras \ {page.cam} :
       /\ ~page.threw /\ Operation
       /\ page' = GoTo(page, c)
       /\ UNCHANGED <<mouse, button, careless>>

Next ==
    \/ MouseMove \/ MouseOut \/ MouseDown \/ MouseUp
    \/ TouchStart \/ TouchMove \/ TouchEnd
    \/ Frame \/ Hides \/ DropsNode \/ MovesCamera

Spec == Init /\ [][Next]_vars
-----------------------------------------------------------------------------
\* What the user sees under the last place that the captors know
UnderMouse == {n \in Present(page) \ page.hidden : OnDisc(page, n)}

(* When no render is due, the layer of hovered nodes shows those under the  *)
(* mouse and no others, and the edge under it: although each captor keeps   *)
(* its own account, both write to one layer, and the nodes, the camera and  *)
(* the mouse move between their events (bindEvents, drawHovers, quad).      *)
HoverFollowsMouse ==
    ~page.threw /\ ~page.pending /\ mouse # None =>
        /\ page.lit = UnderMouse
        /\ OnEdge(page) /\ page.enabled /\ (\E n \in Range(EdgeEnds) : OnScreen(page, n))
              => page.litEdge

(* The node that the plugin begins to drag is one that was drawn under the  *)
(* mouse when the button went down, if no render was due (dragNodes,        *)
(* nodeMouseDown).                                                          *)
GrabsNodeUnderMouse ==
    [][~page.drags /\ page'.drags /\ ~page.pending =>
          /\ page'.node \in Range(Order)
          /\ Distance2(mouse, Shown(page, page'.node)) < Size[page'.node] * Size[page'.node]]_vars

(* With the button up and no finger down the mouse works again, and nothing *)
(* is dragged any more (nodeMouseUp, upHandler, handleLeave).               *)
InputComesBack ==
    ~page.threw /\ ~button /\ page.captor # "touch" =>
        page.enabled /\ ~page.drags /\ page.captor = None

\* Places of the mouse in the graph
Spots == {Plus(m, c) : m \in Mouse, c \in Cameras}

AreaData == {RectData(r) : r \in Areas}

Inside(p, data) ==
    IF data.aligned
    THEN LET b == data.top IN p[1] \in b.x1 .. b.x2 /\ p[2] \in b.y1 .. b.y2
    ELSE LET c == data.corners
             u == Minus(c[2], c[1])
             v == Minus(c[3], c[1])
         IN  Dot(Minus(p, c[1]), u) \in 0 .. Dot(u, u) /\ Dot(Minus(p, c[1]), v) \in 0 .. Dot(v, v)

HasArea(b) == b.width >= Unit /\ b.height >= Unit

(* Whatever the rounding of the cells, the index of nodes finds every node  *)
(* at every place of its disc, and in every area that its centre is in (a   *)
(* turned one if the nodes do not all lie within a pixel); and that of edges*)
(* finds the edge at every place that the hit test takes for it, and in     *)
(* every area that one of its ends is in, unless a drag has switched it off *)
(* (quad.point, quad.area, edgequad.point, edgequad.area).                  *)
IndexFindsAll ==
    \A bounds \in {Bounds(page)} :
        /\ \A n \in Present(page) : \A at \in {page.place[n]}, square \in {SquareOf(page, n)} :
              /\ \A p \in Spots :
                    Distance2(p, at) < Size[n] * Size[n] => RetrievedAt(square, p, bounds, MaxLevel)
              /\ \A data \in AreaData :
                    Inside(at, data) /\ (data.aligned \/ HasArea(bounds)) =>
                       RetrievedIn(square, data, bounds, MaxLevel)
        /\ Range(EdgeEnds) \cap page.gone = {} /\ page.enabled =>
           \A from \in {page.place[EdgeEnds[1]]}, to \in {page.place[EdgeEnds[2]]} :
              /\ \A p \in Spots :
                    IsPointOnSegment(p, from, to, Precision) =>
                       EdgeRetrievedAt(from, to, EdgeSize, p, bounds, page.enabled)
              /\ \A data \in AreaData :
                    (Inside(from, data) \/ Inside(to, data)) /\ (data.aligned \/ HasArea(bounds)) =>
                       EdgeRetrievedIn(from, to, EdgeSize, data, bounds, page.enabled)

(* No render ends in an exception, unless the mouse had left the canvas from *)
(* an edge or a node was dropped while a render was due (drawHovers, draw).  *)
RendersDoNotThrow == page.threw => careless
=============================================================================
