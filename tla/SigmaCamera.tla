------------------------------ MODULE SigmaCamera ------------------------------
(***************************************************************************)
(* The camera of the sigma library and its animations                      *)
(* (sigma.classes.camera.js, sigma.misc.animation.js, sigma.utils.zoomTo). *)
(* An animation is in running, and its step among the callbacks raf that   *)
(* wait for the next animation frame.                                      *)
(***************************************************************************)
EXTENDS SigmaRender

CONSTANTS ZoomMin, ZoomMax

NewCamera == [x |-> 0, ratio |-> 1, isAnimated |-> FALSE, isMoving |-> FALSE]

(* goTo; the page renders on coordinatesUpdated. *)
GoTo(w, place, costs) ==
    LET moved == [w EXCEPT !.cam.x = place.x, !.cam.ratio = place.ratio]
    IN  RenderCamera(moved, moved.cam.isAnimated, costs)

(* animation.camera: an id that no other animation has, and a first frame. *)
Animate(w, place) ==
    LET id == CHOOSE i \in 1..(Len(w.running) + 1) :
                 \A k \in DOMAIN w.running : w.running[k].id # i
    IN  [w EXCEPT !.running = Append(@, [id |-> id, from |-> Place(w.cam), to |-> place]),
                  !.raf = Append(@, id)]

(* animation.killAll(camera). *)
KillAllAnimations(w) ==
    IF w.running = <<>> THEN w
    ELSE [w EXCEPT !.running = <<>>, !.cam.isAnimated = FALSE,
                   !.raf = C!Kept(@, {CameraFrame})]

(* One intermediate place stands for all of them. *)
HalfWay(a) == [x |-> (a.from.x + a.to.x) \div 2, ratio |-> (a.from.ratio + a.to.ratio) \div 2]

(* The step of an animation; done, whether its time is over.  The last goTo *)
(* renders as any other update of the camera does, the others are forced.   *)
AnimationStep(w, id, done, costs) ==
    LET a == CHOOSE b \in ToSet(w.running) : b.id = id
    IN  IF done
        THEN [GoTo([w EXCEPT !.cam.isAnimated = FALSE], a.to, costs)
                EXCEPT !.running = C!Other(@, id)]
        ELSE [GoTo([w EXCEPT !.cam.isAnimated = TRUE], HalfWay(a), costs)
                EXCEPT !.raf = Append(@, id)]

(* An animation frame calls all that waited for it, in order. *)
AnimationFrame(w, done, costs) ==
    LET called[n \in 0 .. Len(w.raf)] ==
            IF n = 0 THEN [w EXCEPT !.raf = <<>>]
            ELSE CHOOSE u \in {IF w.raf[n] = CameraFrame THEN [v EXCEPT !.frame = FALSE]
                               ELSE AnimationStep(v, w.raf[n], done, costs) : v \in {called[n - 1]}} : TRUE
    IN  called[Len(w.raf)]

(* zoomTo with a duration, around a point at m from the middle of the screen. *)
ZoomTo(w, m, ratio) ==
    LET wished == IF ratio < ZoomMin THEN ZoomMin ELSE Least(ratio, ZoomMax)
    IN  IF wished = w.cam.ratio THEN w
        ELSE Animate(KillAllAnimations(w),
                     [x |-> w.cam.x + m * (w.cam.ratio - wished), ratio |-> wished])
=============================================================================
