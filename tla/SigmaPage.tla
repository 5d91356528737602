------------------------------- MODULE SigmaPage -------------------------------
(***************************************************************************)
(* A page that shows a graph with the sigma library: what the page does to *)
(* the graph and to the renderers, what the user does with the mouse       *)
(* (sigma.captors.mouse.js), and the timers and animation frames between.  *)
(* The page has one thread: an event is one step, with all it calls.       *)
(***************************************************************************)
EXTENDS SigmaCamera

CONSTANTS
    FirstNodes, FirstEdges, \* sequences: the graph that the page begins with
    MoreNodes, MoreEdges,   \* what it may read once
    Hideable,          \* what it hides and shows
    Frames,            \* what the jobs of one loop may cost: a set of sequences
    Mouse,             \* places of the mouse, from the middle of the screen
    Inertia,           \* mouseInertiaRatio
    Captor,            \* the renderer that the mouse is over
    MaxOps             \* bound on what the page does, and the user begins

\* The renderers are in a list; the page's own job has another id; time does not
\* run backwards.
ASSUME PageAssumption ==
    /\ Order \in Seq(Renderers) /\ Task \notin Renderers
    /\ \A costs \in Frames : costs \in Seq(Nat)

VARIABLES
    page,      \* the record of SigmaRender
    mouse,     \* the variables of the captor; at, where it was last seen; back,
               \* whether the last drag has ended unseen
    stale,     \* history: the graph has changed since the last refresh
    careless,  \* history: something was dropped and the page not refreshed at
               \* once, or a renderer killed in the middle of a batch
    used,      \* history: the ids that the graph has had
    ops

vars == <<page, mouse, stale, careless, used, ops>>

NewMouse == [down |-> FALSE, moving |-> FALSE, hasDragged |-> FALSE, timer |-> FALSE, startX |-> 0,
             lastX |-> 0, start |-> 0, at |-> 0, back |-> FALSE]

(* The constructor: the renderers, the graph, and the first refresh. *)
Built == [g |-> Read(EmptyGraph, FirstNodes, FirstEdges), hidden |-> {}, indexed |-> {},
          cam |-> NewCamera, frame |-> FALSE, raf |-> <<>>, running |-> <<>>,
          sched |-> C!NewConrad, threw |-> FALSE, view |-> [r \in Renderers |-> NewView]]

Init == /\ \E costs \in Frames \ {<<>>} : page = Refresh(Built, costs)
        /\ mouse = NewMouse
        /\ stale = FALSE /\ careless = FALSE /\ ops = 0
        /\ used = NodeIds(page.g) \cup EdgeIds(page.g)

Operation == ops < MaxOps /\ ops' = ops + 1

(* A change of the graph or of what is hidden, and perhaps a refresh in the *)
(* same turn; drops, whether something leaves the graph.                    *)
Change(changed, drops) ==
    /\ Operation
    /\ \E refresh \in BOOLEAN, costs \in Frames \ {<<>>} :
          /\ page' = IF refresh THEN Refresh(changed, costs) ELSE changed
          /\ stale' = ~refresh
          /\ careless' = (careless \/ (drops /\ ~refresh))
    /\ used' = used \cup NodeIds(changed.g) \cup EdgeIds(changed.g)
    /\ UNCHANGED mouse

Reads ==
    LET new == {n.id : n \in ToSet(MoreNodes)}
    IN  /\ used \cap new = {}
        /\ \A e \in ToSet(MoreEdges) : {e.source, e.target} \subseteq NodeIds(page.g) \cup new
        /\ Change([page EXCEPT !.g = Read(@, MoreNodes, MoreEdges)], FALSE)

DropsNode == \E n \in NodeIds(page.g) : Change([page EXCEPT !.g = DropNode(@, n)], TRUE)
DropsEdge == \E e \in EdgeIds(page.g) : Change([page EXCEPT !.g = DropEdge(@, e)], TRUE)
Clears == page.g # EmptyGraph /\ Change([page EXCEPT !.g = Clear(@)], TRUE)
Hides == \E x \in Hideable \cap (NodeIds(page.g) \cup EdgeIds(page.g)) :
            Change([page EXCEPT !.hidden = IF x \in @ THEN @ \ {x} ELSE @ \cup {x}], FALSE)

KillsRenderer ==
    \E r \in Renderers :
       /\ page.view[r].alive
       /\ Operation
       /\ page' = KillRenderer(page, r)
       /\ careless' = (careless \/ page.view[r].pending)
       /\ UNCHANGED <<mouse, stale, used>>

(* A job of the page's own, alone or after the batches of a renderer. *)
Schedules ==
    \E after \in {C!NoJob} \cup {r \in Renderers : page.view[r].pending},
       count \in 1..2, costs \in Frames \ {<<>>} :
       /\ ~C!HasJob(page.sched, Task)
       /\ Operation
       /\ page' = Scheduled(C!AddJob(page.sched, page, C!NewJob(Task, after, count), costs))
       /\ UNCHANGED <<mouse, stale, careless, used>>
-----------------------------------------------------------------------------
(* The handlers of the captor; a killed renderer has removed them. *)
User == page.view[Captor].alive /\ UNCHANGED <<stale, careless, used>>

Down ==
    \E m \in Mouse :
       /\ User /\ Operation /\ ~mouse.down
       /\ mouse' = [mouse EXCEPT !.down = TRUE, !.hasDragged = FALSE, !.startX = page.cam.x, !.lastX = page.cam.x,
                                 !.start = m, !.at = m]
       /\ UNCHANGED page

(* A move with the button down drags the camera, whatever moved it before. *)
Move ==
    \E m \in Mouse, costs \in Frames \ {<<>>} :
       LET still == [KillAllAnimations(page) EXCEPT !.cam.isMoving = TRUE]
           x == mouse.startX - (m - mouse.start) * page.cam.ratio
           dragged == x # page.cam.x
       IN /\ User /\ mouse.down /\ UNCHANGED ops
          /\ mouse' = [mouse EXCEPT !.moving = TRUE, !.hasDragged = TRUE, !.timer = TRUE, !.at = m,
                                    !.lastX = IF dragged THEN page.cam.x ELSE @]
          /\ page' = IF dragged THEN GoTo(still, [x |-> x, ratio |-> page.cam.ratio], costs)
                                ELSE still

(* The hand rests: dragTimeout, long enough for an animation frame before. *)
DragTimeout ==
    /\ mouse.timer /\ page.raf = <<>>
    /\ mouse' = [mouse EXCEPT !.moving = FALSE, !.timer = FALSE]
    /\ UNCHANGED <<page, stale, careless, used, ops>>

(* The button goes up after a rest, and what the camera does last may not be     *)
(* drawn: the hand is back where it went down, or the wheel is still zooming and *)
(* the update of the one takes the place of the other's in the next frame.       *)
EndsUnseen == IF mouse.at = mouse.start THEN mouse.back \/ mouse.hasDragged
              ELSE page.running # <<>> \/ page.frame

(* Variant: the camera still counts as moving when the hand rested before. *)
UpAfterRest ==
    \E costs \in Frames \ {<<>>} :
       LET still == [page EXCEPT !.cam.isMoving = FALSE]
           thrown == page.cam.x + Inertia * (page.cam.x - mouse.lastX)
       IN /\ User /\ mouse.down /\ UNCHANGED ops
          /\ mouse' = [mouse EXCEPT !.down = FALSE, !.moving = FALSE, !.timer = FALSE,
                                    !.back = ~mouse.moving /\ EndsUnseen]
          /\ page' = IF mouse.moving
                     THEN Animate(KillAllAnimations(still), [x |-> thrown, ratio |-> page.cam.ratio])
                     ELSE page

(* The button goes up where the mouse was last seen: an animation by inertia, or the camera where it is. *)
Up ==
    \E costs \in Frames \ {<<>>} :
       LET still == [page EXCEPT !.cam.isMoving = FALSE]
           thrown == page.cam.x + Inertia * (page.cam.x - mouse.lastX)
       IN /\ User /\ mouse.down /\ UNCHANGED ops
          /\ mouse' = [mouse EXCEPT !.down = FALSE, !.moving = FALSE, !.timer = FALSE,
                                    !.back = ~mouse.moving /\ EndsUnseen]
          /\ page' = CASE mouse.moving -> Animate(KillAllAnimations(still),
                                                  [x |-> thrown, ratio |-> page.cam.ratio])
                       [] ~mouse.moving /\ mouse.start # mouse.at -> GoTo(still, Place(page.cam), costs)
                       [] OTHER -> still

(* The wheel, whether the button is up or down. *)
Wheel ==
    \E m \in Mouse, out \in BOOLEAN :
       /\ User /\ Operation
       /\ page' = ZoomTo(page, m, IF out THEN 2 * page.cam.ratio ELSE page.cam.ratio \div 2)
       /\ page' # page
       /\ UNCHANGED mouse

DoubleClick ==
    \E m \in Mouse :
       /\ User /\ Operation /\ ~mouse.down
       /\ page' = ZoomTo(page, m, page.cam.ratio \div 2)
       /\ page' # page
       /\ UNCHANGED mouse
-----------------------------------------------------------------------------
Frame ==
    /\ page.raf # <<>>
    /\ \E done \in BOOLEAN, costs \in Frames \ {<<>>} : page' = AnimationFrame(page, done, costs)
    /\ UNCHANGED <<mouse, stale, careless, used, ops>>

(* The timer of the scheduler; its loop may come too late to run a job. *)
Loop ==
    /\ page.sched.timers > 0
    /\ \E costs \in Frames :
          page' = RunJobs([page EXCEPT !.sched.timers = @ - 1], costs)
    /\ UNCHANGED <<mouse, stale, careless, used, ops>>

Next ==
    \/ Reads \/ DropsNode \/ DropsEdge \/ Clears \/ Hides \/ KillsRenderer
    \/ Schedules
    \/ Down \/ Move \/ DragTimeout \/ Up \/ Wheel \/ DoubleClick
    \/ Frame \/ Loop

Spec == Init /\ [][Next]_vars
-----------------------------------------------------------------------------
(* The graph keeps its invariants through every method; batches lie in their *)
(* edges (the bookkeeping of graph.js, canvas 200-252, webgl 296-360).       *)
TypeOK ==
    /\ Coherent(page.g)
    /\ \A r \in Renderers :
          LET b == page.view[r].batch
          IN  b.start <= Len(b.edges) /\ b.end <= Len(b.edges) /\ b.start <= b.end
    /\ page.frame = Contains(page.raf, CameraFrame)
    /\ ops \in 0..MaxOps

(* conrad.js keeps its lists, its line by priority and its timer coherent.   *)
SchedulerIsCoherent == C!SchedulerCoherent(page.sched, page.threw)

(* A page that refreshes as soon as it drops something, and kills no renderer *)
(* in the middle of a batch, never makes a job throw: an exception would stop *)
(* the scheduler for ever (conrad.js 271, 356).                               *)
CarefulPageNeverFreezes == page.threw => careless

AtRest ==
    /\ ~mouse.down /\ ~mouse.back
    /\ page.running = <<>>
    /\ ~stale /\ ~page.threw

(* Once the hand and the camera rest, and the batches are done, every         *)
(* renderer shows the graph at the place of the camera, with the edges that   *)
(* hideEdgesOnMove hid.  (A hand that comes back and rests where it went down,  *)
(* and one that lets go while the wheel zooms, are left out: an update is lost  *)
(* then, see the README.)                                                     *)
ScreenCatchesUp ==
    AtRest => \A r \in Renderers :
                 page.view[r].alive /\ ~page.view[r].pending => ShowsGraph(page, r)
=============================================================================
