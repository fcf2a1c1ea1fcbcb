---------------------------- MODULE CanvasWidgets ----------------------------
(***************************************************************************)
(* Components that draw on a canvas frame by frame: Particles,             *)
(* FlickeringGrid and IconCloud.                                           *)
(***************************************************************************)
EXTENDS Page

CONSTANTS
    Quantities,     \* the values of the quantity prop of Particles
    Icons           \* the images of an IconCloud

ASSUME QuantitiesAssumption == Quantities \subseteq Nat

-----------------------------------------------------------------------------
(* Particles.  circles is the list of them: the number of each that         *)
(* initCanvas made, and 0 for one that an animation frame made later.      *)
(* made is how many initCanvas made, left are the ones that have left the  *)
(* canvas since.                                                           *)

\* initCanvas: resizeCanvas empties the list and makes quantity circles, and
\* drawParticles makes quantity more.
initCanvas(state) ==
    [state EXCEPT !.circles = [i \in 1 .. 2 * state.quantity |-> i],
                  !.made = 2 * state.quantity, !.left = {}]

\* A list without its element i, with a new circle at the end.
Replaced(circles, i) ==
    SubSeq(circles, 1, i - 1) \o SubSeq(circles, i + 1, Len(circles)) \o <<0>>

\* animate visits the positions of the list while it replaces, at each of the
\* positions leaving, the circle that is outside.  Mutant: the loop goes over a
\* copy of the list.
moveOverCopy(state, leaving) ==
    LET after[i \in 0 .. Len(state.circles)] ==
          IF i = 0 THEN state.circles
          ELSE IF i \in leaving THEN Replaced(after[i - 1], i) ELSE after[i - 1]
    IN [state EXCEPT !.circles = after[Len(state.circles)],
                     !.left = @ \cup {state.circles[i] : i \in leaving}]

\* The circle at a position is the one that is there by then.
moveCircles(state, leaving) ==
    LET after[i \in 0 .. Len(state.circles)] ==
          IF i = 0 THEN state.circles
          ELSE IF i \in leaving THEN Replaced(after[i - 1], i) ELSE after[i - 1]
    IN [state EXCEPT !.circles = after[Len(state.circles)],
                     !.left = @ \cup {after[i - 1][i] : i \in leaving}]

\* The three effects after the mount: the list is made, a frame drawn and the
\* next requested, the listeners added; the refresh effect makes the list again.
ParticlesInit ==
    /\ widget = "particles"
    /\ \E q \in Quantities :
          ui = initCanvas([mounted |-> TRUE, quantity |-> q, circles |-> <<>>,
                           made |-> 0, left |-> {}, mouse |-> FALSE])
    /\ pending = Register(Nothing, {"frame", "resize", "pointer"})

ParticlesFrame ==
    /\ On("particles") /\ Fires("frame")
    /\ \E leaving \in SUBSET DOMAIN ui.circles :
          Becomes(moveCircles(ui, leaving), Register(Cancel(pending, {"frame"}), {"frame"}))

\* handleResize: the timer restarts.
ParticlesResize ==
    /\ On("particles") /\ pending["resize"] > 0
    /\ Becomes(ui, Register(Cancel(pending, {"timer"}), {"timer"}))

ParticlesTimeout ==
    /\ On("particles") /\ Fires("timer")
    /\ Becomes(initCanvas(ui), Cancel(pending, {"timer"}))

\* The mouse moves; only a position inside the canvas is kept.
ParticlesPointer(inside) ==
    /\ On("particles") /\ pending["pointer"] > 0
    /\ Becomes([ui EXCEPT !.mouse = @ \/ inside], pending)

\* What the cleanup of the drawing effect cancels.  Mutant: not the timer.
ParticlesStopsNoTimer(calls) == Cancel(calls, {"frame", "resize"})

ParticlesStops(calls) == Cancel(calls, {"frame", "timer", "resize"})

\* Another color: the drawing effect runs again, its first frame included.
ParticlesColor ==
    /\ On("particles")
    /\ \E leaving \in SUBSET (1 .. 2 * ui.quantity) :
          Becomes(moveCircles(initCanvas(ui), leaving),
                  Register(ParticlesStops(pending), {"frame", "resize"}))

\* refresh changes.
ParticlesRefresh == On("particles") /\ Becomes(initCanvas(ui), pending)

\* Another quantity: no effect depends on it.
ParticlesQuantity(q) ==
    On("particles") /\ Becomes([ui EXCEPT !.quantity = q], pending)

-----------------------------------------------------------------------------
(* FlickeringGrid.  cells is the size gridParams was made for.             *)

FlickerInit ==
    /\ widget = "flicker"
    /\ ui = [mounted |-> TRUE, isInView |-> FALSE, cells |-> 1]
    /\ pending = Register(Nothing, {"resize", "view"})

FlickerStops(calls) == Cancel(calls, {"frame", "resize", "view"})

\* The effect runs again, the canvas of size w, inView seen.  Mutant: without
\* the cleanup.
FlickerRestarts(seen, w) ==
    Becomes([ui EXCEPT !.isInView = seen, !.cells = w],
            RegisterIf(seen, Register(Cancel(pending, {"resize", "view"}),
                                      {"resize", "view"}), {"frame"}))

FlickerEffect(seen, w) ==
    Becomes([ui EXCEPT !.isInView = seen, !.cells = w],
            RegisterIf(seen, Register(FlickerStops(pending), {"resize", "view"}),
                       {"frame"}))

\* The intersection observer reports; React skips an equal state.
FlickerView(seen, w) ==
    /\ On("flicker") /\ pending["view"] > 0 /\ seen # ui.isInView
    /\ FlickerEffect(seen, w)

\* Other props.
FlickerProps(w) == On("flicker") /\ FlickerEffect(ui.isInView, w)

\* updateCanvasSize
FlickerResize(w) ==
    /\ On("flicker") /\ pending["resize"] > 0
    /\ Becomes([ui EXCEPT !.cells = w], pending)

FlickerFrame ==
    /\ On("flicker") /\ Fires("frame")
    /\ Becomes(ui, RegisterIf(ui.isInView, Cancel(pending, {"frame"}), {"frame"}))

-----------------------------------------------------------------------------
(* IconCloud with image URLs.  loads are the images on their way, by the   *)
(* value of the images prop they belong to; loaded is imagesLoadedRef,     *)
(* canvases the offscreen canvases that hold their image, drawn the icons   *)
(* on the visible canvas.  late records that an image of replaced images   *)
(* was marked loaded in the array of the new ones.                         *)

\* Mutant: a paused cloud stops whatever it waits for.
shouldContinueUnlessPaused(state) ==
    ~state.isPaused \/ state.isDragging \/ state.targetRotation

shouldContinue(state) ==
    \/ ~state.isPaused \/ state.isDragging \/ state.targetRotation
    \/ state.loaded # Icons

\* animate draws, and requests a frame iff it goes on.
animate(state, calls) ==
    Becomes([state EXCEPT !.drawn = state.loaded \cap state.canvases],
            RegisterIf(shouldContinue(state), calls, {"frame"}))

\* The drawing effect after a change of the state.
CloudEffect(state, calls) == animate(state, Cancel(calls, {"frame"}))

CloudInit ==
    /\ widget = "cloud"
    /\ \E reduced \in BOOLEAN :
          ui = [mounted |-> TRUE, isPaused |-> reduced, isDragging |-> FALSE,
                targetRotation |-> FALSE, images |-> 1, loads |-> {1} \X Icons,
                loaded |-> {}, canvases |-> {}, drawn |-> {}, late |-> FALSE]
    /\ pending = Register(Nothing, {"frame", "view"})

CloudFrame ==
    /\ On("cloud") /\ Fires("frame")
    /\ animate(ui, Cancel(pending, {"frame"}))

\* The frame that ends a rotation clears it, which runs the effect again.
CloudRotated ==
    /\ On("cloud") /\ Fires("frame") /\ ui.targetRotation
    /\ CloudEffect([ui EXCEPT !.targetRotation = FALSE], pending)

\* img.onload of icon i, images value g; it has no cleanup, and may run when
\* the component is gone.
CloudLoaded(g, i) ==
    /\ widget = "cloud" /\ <<g, i>> \in ui.loads
    /\ Becomes([ui EXCEPT !.loads = @ \ {<<g, i>>}, !.loaded = @ \cup {i},
                          !.canvases = IF g = ui.images THEN @ \cup {i} ELSE @,
                          !.late = @ \/ g # ui.images], pending)

\* Other images: new offscreen canvases, positions, and the drawing effect.
CloudImages ==
    /\ On("cloud") /\ ui.images = 1
    /\ CloudEffect([ui EXCEPT !.images = 2, !.loads = @ \cup ({2} \X Icons),
                              !.loaded = {}, !.canvases = {}], pending)

\* The button, or the media query.
CloudPause(paused) ==
    /\ On("cloud") /\ paused # ui.isPaused
    /\ CloudEffect([ui EXCEPT !.isPaused = paused], pending)

\* handleMouseDown, on an icon or beside.
CloudMouseDown(hit) ==
    /\ On("cloud")
    /\ CloudEffect([ui EXCEPT !.isDragging = TRUE, !.targetRotation = @ \/ hit],
                   pending)

\* handleMouseMove moves the position, which runs the effect again.
CloudMouseMove == On("cloud") /\ CloudEffect(ui, pending)

CloudMouseUp ==
    /\ On("cloud") /\ ui.isDragging
    /\ CloudEffect([ui EXCEPT !.isDragging = FALSE], pending)

-----------------------------------------------------------------------------

CanvasInit == ParticlesInit \/ FlickerInit \/ CloudInit

CanvasNext ==
    \/ ParticlesFrame \/ ParticlesResize \/ ParticlesTimeout
    \/ \E inside \in BOOLEAN : ParticlesPointer(inside)
    \/ ParticlesColor \/ ParticlesRefresh
    \/ \E q \in Quantities : ParticlesQuantity(q)
    \/ \E w \in 0 .. 2, seen \in BOOLEAN : FlickerView(seen, w)
    \/ \E w \in 0 .. 2 : FlickerProps(w) \/ FlickerResize(w)
    \/ FlickerFrame
    \/ CloudFrame \/ CloudRotated
    \/ \E g \in 1 .. 2, i \in Icons : CloudLoaded(g, i)
    \/ CloudImages \/ \E paused \in BOOLEAN : CloudPause(paused)
    \/ \E hit \in BOOLEAN : CloudMouseDown(hit)
    \/ CloudMouseMove \/ CloudMouseUp

\* The cleanups of the unmounted component.
CanvasCleanup ==
    CASE widget = "particles" -> Cancel(ParticlesStops(pending), {"pointer"})
      [] widget = "flicker" -> FlickerStops(pending)
      [] widget = "cloud" -> Cancel(pending, {"frame", "view"})

\* A frame of Particles replaces exactly the circles that have left the canvas,
\* although it removes from the list it goes over: the others stay, in their
\* order, new ones come after them, and there are as many as initCanvas made.
\* (These are twice the quantity, where the comment in resizeCanvas has exactly
\* the quantity.)
CirclesKept ==
    On("particles") =>
      LET stays(c) == c \notin ui.left
          kept == SelectSeq([i \in 1 .. ui.made |-> i], stays)
      IN ui.circles = kept \o [i \in 1 .. ui.made - Len(kept) |-> 0]

\* A paused IconCloud stops drawing only when every image has come and is on
\* the canvas, unless an image of replaced images came late.
StoppedWhenDrawn ==
    On("cloud") /\ pending["frame"] = 0 /\ ~ui.late => ui.drawn = Icons
=============================================================================
