------------------------------ MODULE SigmaRender ------------------------------
(***************************************************************************)
(* The renderers of the sigma library and the core that calls them         *)
(* (sigma.core.js, sigma.renderers.canvas.js, .webgl.js and .svg.js).      *)
(*                                                                         *)
(* A page is a record w: the graph g and the hidden nodes and edges of the *)
(* user; indexed, the nodes in the quadtree of the camera; the camera cam; *)
(* frame, whether the camera has rendered since the last animation frame;  *)
(* raf, the callbacks that wait for the next one; sched, the scheduler;    *)
(* and what each renderer shows and keeps, view[r]:                        *)
(*   at            the place of the camera when it rendered last,          *)
(*   nodes, edges  the nodes and, in order, the edges drawn since,         *)
(*   pending       whether a batch of edges is under way (its jobs object),*)
(*   batch         what the closure of that job has in its variables,      *)
(*   arrays        the edges that webgl holds by type (edgeFloatArrays).   *)
(* A place is one coordinate and a ratio: At[n] is the cell of the quadtree*)
(* that holds n, and all the cells that the screen touches are drawn.      *)
(***************************************************************************)
EXTENDS Integers, Sequences, FiniteSets, SequencesExt, SigmaGraph

CONSTANTS
    Order,            \* the renderers, as Object.keys gives them
    Kind,             \* Kind[r] \in {"canvas", "webgl", "svg"}
    At,               \* the place of a node
    TypeOf,           \* the type of an edge, which chooses its webgl array
    BatchSize,        \* canvasEdgesBatchSize and webglEdgesBatchSize
    HideEdgesOnMove,  \* the setting
    Half              \* half of what the screen shows at ratio 1

Renderers == ToSet(Order)
None == "none"
CameraFrame == 0

NoBatch == [edges |-> <<>>, arrays |-> <<>>, start |-> 0, end |-> 0]

NewView == [alive |-> TRUE, at |-> None, nodes |-> {}, edges |-> <<>>,
            pending |-> FALSE, batch |-> NoBatch, arrays |-> <<>>]

Least(i, j) == IF i < j THEN i ELSE j
Distance(i, j) == IF i < j THEN j - i ELSE i - j

Place(cam) == [x |-> cam.x, ratio |-> cam.ratio]

\* quadtree.area of the rectangle of the camera: nodes that may be dropped
NodesOnScreen(w) ==
    {n \in w.indexed : Distance(At[n], w.cam.x) <= Half * w.cam.ratio}

Visible(w, e) == {e.id, e.source, e.target} \cap w.hidden = {}

EdgesOnScreen(w) ==
    SelectSeq(Edges(w.g), LAMBDA e : /\ {e.source, e.target} \cap NodesOnScreen(w) # {}
                                     /\ Visible(w, e))

DrawEdges(w) == ~(HideEdgesOnMove /\ (w.cam.isAnimated \/ w.cam.isMoving))
-----------------------------------------------------------------------------
WithView(w, r, v) == [w EXCEPT !.view[r] = v]

(* The jobs of the renderers.  A batch of canvas asks the graph for the ends *)
(* of each edge, and draws into contexts that a killed renderer has lost.    *)
CanvasJob(r, w) ==
    LET v == w.view[r]
        b == v.batch
        part == SubSeq(b.edges, b.start + 1, b.end)
        over == b.end = Len(b.edges)
        fails == \/ ~v.alive
                 \/ \E i \in DOMAIN part : ~({part[i].source, part[i].target} \subseteq NodeIds(w.g))
        next == b.end + 1
        drawn == [v EXCEPT !.edges = @ \o [i \in DOMAIN part |-> part[i].id],
                           !.pending = ~over,
                           !.batch = IF over THEN NoBatch
                                     ELSE [b EXCEPT !.start = next,
                                                    !.end = Least(Len(b.edges), next + BatchSize)]]
    IN  [w |-> IF fails THEN w ELSE WithView(w, r, drawn), again |-> ~over /\ ~fails, threw |-> fails]

\* The edges in a part of an array, without the places of hidden ones
Drawn(part) == SelectSeq(part, LAMBDA e : e # None)

(* A batch of webgl draws a part of the array of one type, then takes the
   array that the renderer has for the next of the types it knew when it began. *)
WebglJob(r, w) ==
    LET v == w.view[r]
        b == v.batch
        part == SubSeq(b.edges, b.start + 1, b.end)
        exhausted == b.end >= Len(b.edges)
        over == exhausted /\ b.arrays = <<>>
        held == {a \in ToSet(v.arrays) : a.type = Head(b.arrays).type}
        fails == exhausted /\ ~over /\ held = {}
        edges == (CHOOSE a \in held : TRUE).edges
        next == IF exhausted
                THEN [edges |-> edges, arrays |-> Tail(b.arrays), start |-> 0,
                      end |-> Least(BatchSize, Len(edges))]
                ELSE [b EXCEPT !.start = b.end, !.end = Least(b.end + BatchSize, Len(b.edges))]
        drawn == [v EXCEPT !.edges = @ \o Drawn(part)]
        done == [drawn EXCEPT !.pending = ~over, !.batch = IF over THEN NoBatch ELSE next]
    IN  [w |-> WithView(w, r, IF fails THEN drawn ELSE done),
         again |-> ~over /\ ~fails, threw |-> fails]

\* A task of the page's own, which ends when it has run as often as it should
Task == "task"

Job(id, w) ==
    CASE id = Task -> [w |-> w, again |-> FALSE, threw |-> FALSE]
      [] id # Task /\ Kind[id] = "canvas" -> CanvasJob(id, w)
      [] OTHER -> WebglJob(id, w)

C == INSTANCE Conrad WITH Body <- Job

\* What the loop of the scheduler does to the page
Scheduled(s) == [s.w EXCEPT !.sched = s.c, !.threw = @ \/ s.threw]
RunJobs(w, costs) == Scheduled(C!Loop(w.sched, w, costs))
-----------------------------------------------------------------------------
(* render of the three renderers.  The first two kill the job that they have *)
(* under way and give a new one to the scheduler, which may run it at once.  *)
KillOwnJob(w, r) ==
    IF w.view[r].pending /\ C!HasJob(w.sched, r)
    THEN [w EXCEPT !.sched = C!KillJob(@, r)] ELSE w

StartBatch(w, r, edges, arrays, costs) ==
    LET begun == [w.view[r] EXCEPT !.pending = TRUE,
                                   !.batch = [edges |-> edges, arrays |-> arrays, start |-> 0,
                                              end |-> Least(Len(edges), BatchSize)]]
    IN  Scheduled(C!AddJob(w.sched, WithView(w, r, begun), C!NewJob(r, C!NoJob, 0), costs))

\* The renderer draws the nodes, and at once these edges
Cleared(w, r, nodes, edges) ==
    WithView(w, r, [w.view[r] EXCEPT !.at = Place(w.cam), !.nodes = nodes \ w.hidden,
                                     !.edges = edges])

\* Variant: the job that draws the edges of the last view goes on
RenderCanvasOverJob(w, r, costs) ==
    LET clear == Cleared(w, r, NodesOnScreen(w), <<>>)
    IN  IF DrawEdges(w) /\ ~C!HasJob(clear.sched, r)
        THEN StartBatch(clear, r, EdgesOnScreen(clear), <<>>, costs) ELSE clear

RenderCanvas(w, r, costs) ==
    LET clear == KillOwnJob(Cleared(w, r, NodesOnScreen(w), <<>>), r)
    IN  IF DrawEdges(w) THEN StartBatch(clear, r, EdgesOnScreen(clear), <<>>, costs) ELSE clear

RenderWebgl(w, r, costs) ==
    LET clear == KillOwnJob(Cleared(w, r, {}, <<>>), r)
        arrays == w.view[r].arrays
    IN  IF DrawEdges(w) /\ arrays # <<>>
        THEN StartBatch(clear, r, Head(arrays).edges, Tail(arrays), costs) ELSE clear

RenderSvg(w, r) ==
    LET shown == IF DrawEdges(w) THEN EdgesOnScreen(w) ELSE <<>>
    IN  Cleared(w, r, NodesOnScreen(w), [i \in DOMAIN shown |-> shown[i].id])

Render(w, r, costs) ==
    CASE ~w.view[r].alive -> w
      [] w.view[r].alive /\ Kind[r] = "canvas" -> RenderCanvas(w, r, costs)
      [] w.view[r].alive /\ Kind[r] = "webgl" -> RenderWebgl(w, r, costs)
      [] OTHER -> RenderSvg(w, r)

\* (each state is bound in a set for TLC to evaluate it once)
RenderAll(w, costs) ==
    LET rendered[n \in 0 .. Len(Order)] ==
            IF n = 0 THEN w
            ELSE CHOOSE u \in {Render(v, Order[n], costs) : v \in {rendered[n - 1]}} : TRUE
    IN  rendered[Len(Order)]

(* renderCamera: unless it is forced, once in an animation frame. *)
RenderCamera(w, force, costs) ==
    CASE force -> RenderAll(w, costs)
      [] ~force /\ w.frame -> w
      [] OTHER -> [RenderAll(w, costs) EXCEPT !.frame = TRUE, !.raf = Append(@, CameraFrame)]

\* The edges of one type, with nothing in the place of a hidden one
Slots(w, type) ==
    LET edges == SelectSeq(Edges(w.g), LAMBDA e : TypeOf[e.id] = type)
    IN  [i \in DOMAIN edges |-> IF Visible(w, edges[i]) THEN edges[i].id ELSE None]

Arrays(w) ==
    LET types == FoldLeft(LAMBDA ts, e : IF Contains(ts, TypeOf[e.id]) THEN ts
                                         ELSE Append(ts, TypeOf[e.id]), <<>>, Edges(w.g))
    IN  [i \in DOMAIN types |-> [type |-> types[i], edges |-> Slots(w, types[i])]]

(* process of each renderer: webgl makes its arrays again. *)
Process(w) ==
    [w EXCEPT !.view = [r \in Renderers |->
        IF Kind[r] = "webgl" /\ w.view[r].alive
        THEN [w.view[r] EXCEPT !.arrays = Arrays(w)] ELSE w.view[r]]]

(* refresh: the quadtree, then process of every renderer, then render. *)
Refresh(w, costs) == RenderAll(Process([w EXCEPT !.indexed = NodeIds(w.g)]), costs)

(* killRenderer: the job of the renderer is not told. *)
KillRenderer(w, r) == WithView(w, r, [w.view[r] EXCEPT !.alive = FALSE])
-----------------------------------------------------------------------------
(* The screen shows the graph: each living renderer what it should draw at   *)
(* the place of the camera, each edge once.  canvas leaves out an edge after *)
(* each batch but the last (line 251), so it is held to the first batch.     *)
ShowsGraph(w, r) ==
    LET v == w.view[r]
        onScreen == {e.id : e \in ToSet(EdgesOnScreen(w))}
        visible == {e.id : e \in {f \in ToSet(Edges(w.g)) : Visible(w, f)}}
    IN  /\ v.at = Place(w.cam)
        /\ Cardinality(ToSet(v.edges)) = Len(v.edges)
        /\ Kind[r] # "webgl" => v.nodes = NodesOnScreen(w) \ w.hidden
        /\ CASE Kind[r] = "webgl" -> ToSet(v.edges) = visible
             [] Kind[r] = "svg" -> ToSet(v.edges) = onScreen
             [] OTHER -> /\ ToSet(v.edges) \subseteq onScreen
                         /\ Cardinality(onScreen) <= BatchSize => ToSet(v.edges) = onScreen
=============================================================================
