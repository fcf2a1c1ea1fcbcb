---------------------------- MODULE LayoutWidgets ----------------------------
(***************************************************************************)
(* Components that draw to the size or position of other elements, or to   *)
(* the pointer: AnimatedBeam, DotPattern, AnimatedGridPattern, Highlighter, *)
(* MagicCard, InteractiveGridPattern, GlareHover and BlurFade.             *)
(***************************************************************************)
EXTENDS Page, Integers, FiniteSets

CONSTANTS
    Layouts,        \* the places of the container of ArchitectureBeam
    Sizes,          \* the sizes of the container of a DotPattern
    numSquares,     \* squares of an AnimatedGridPattern
    GridSizes       \* the sizes of its grid

\* A layout is the rectangle of the container, left, top, width and height, and
\* the gap between the two nodes of an outer column.  The container has room for
\* its nodes, or is not displayed.
ASSUME LayoutAssumption ==
    /\ Layouts \in Seq(Int \X Int \X Nat \X Nat \X Nat)
    /\ \A p \in DOMAIN Layouts :
          \/ Layouts[p] = <<0, 0, 0, 0, 0>>
          \/ Layouts[p][3] >= 8 /\ Layouts[p][4] >= Layouts[p][5] + 6
    /\ Sizes \subseteq Nat \X Nat
    /\ numSquares \in Nat
    /\ GridSizes \subseteq Nat

-----------------------------------------------------------------------------
(* ArchitectureBeam: six nodes in three columns of a container, joined by   *)
(* six AnimatedBeams, each a curve between the centres of its two nodes.   *)

nodes == <<"crs", "hub", "foundation", "instance", "host", "child">>

Beams == <<[from |-> "crs", to |-> "hub", curvature |-> 0],
           [from |-> "hub", to |-> "foundation", curvature |-> 0],
           [from |-> "hub", to |-> "instance", curvature |-> -6],
           [from |-> "foundation", to |-> "host", curvature |-> 0],
           [from |-> "instance", to |-> "child", curvature |-> 6],
           [from |-> "host", to |-> "child", curvature |-> 0]>>

\* The rectangles of a page; the middle column has the larger gap.
Layout(page) ==
    LET l == Layouts[page]
        place(i) ==
            LET column == (i - 1) \div 2
                gap == IF column = 1 THEN l[5] + 2 ELSE l[5]
            IN IF l[3] = 0 THEN [left |-> 0, top |-> 0, width |-> 0, height |-> 0]
               ELSE [left |-> l[1] + 1 + column * ((l[3] - 4) \div 2), width |-> 2,
                     top |-> l[2] + (l[4] \div 2) - (gap \div 2)
                               + (IF i % 2 = 1 THEN -2 ELSE gap),
                     height |-> 2]
    IN [box |-> [left |-> l[1], top |-> l[2], width |-> l[3], height |-> l[4]],
        node |-> [n \in {nodes[i] : i \in DOMAIN nodes} |->
                    place(CHOOSE i \in DOMAIN nodes : nodes[i] = n)]]

\* Start, control point and end, in halves, and the size of the drawing.
updatePath(page, beam, curvature) ==
    LET box == Layout(page).box
        from == Layout(page).node[beam.from]
        to == Layout(page).node[beam.to]
        x(rect) == 2 * (rect.left - box.left) + rect.width
        y(rect) == 2 * (rect.top - box.top) + rect.height
    IN [width |-> box.width, height |-> box.height,
        start |-> <<x(from), y(from)>>,
        control |-> <<(x(from) + x(to)) \div 2, y(from) - 2 * curvature>>,
        end |-> <<x(to), y(to)>>]

\* One of the beams.  stale: the size of the container has changed and the
\* observer has not been called yet; alone: the nodes have moved inside a
\* container of the same size, which no observer sees.
BeamInit ==
    /\ widget = "beam" /\ pending = Register(Nothing, {"resize"})
    /\ \E b \in DOMAIN Beams, p \in DOMAIN Layouts :
          ui = [mounted |-> TRUE, page |-> p, beam |-> Beams[b], stale |-> FALSE,
                alone |-> FALSE, path |-> updatePath(p, Beams[b], Beams[b].curvature)]

BeamLayout(p) ==
    /\ On("beam") /\ p # ui.page
    /\ LET size(q) == <<Layout(q).box.width, Layout(q).box.height>> IN
       Becomes(IF size(p) # size(ui.page)
               THEN [ui EXCEPT !.page = p, !.stale = TRUE]
               ELSE [ui EXCEPT !.page = p, !.alone = TRUE], pending)

BeamResize ==
    /\ On("beam") /\ pending["resize"] > 0 /\ ui.stale
    /\ Becomes([ui EXCEPT !.path = updatePath(ui.page, ui.beam, ui.beam.curvature),
                          !.stale = FALSE, !.alone = FALSE], pending)

\* Another curvature or offset: the effect runs again.
BeamProps ==
    /\ On("beam")
    /\ LET c == -ui.beam.curvature IN
       Becomes([ui EXCEPT !.beam.curvature = c, !.alone = FALSE,
                          !.path = updatePath(ui.page, ui.beam, c)],
               Register(Cancel(pending, {"resize"}), {"resize"}))

-----------------------------------------------------------------------------
(* DotPattern.  Its only cue is the resize event of the window.            *)

DotStep == 2

Ceil(n, d) == (n + d - 1) \div d

\* Mutant: rows are counted by the height.
dotsByRow(w, h) ==
    LET columns == Ceil(w, DotStep) IN
    [i \in 1 .. columns * Ceil(h, DotStep) |->
       <<((i - 1) % columns) * DotStep + 1,
         ((i - 1) \div Ceil(h, DotStep)) * DotStep + 1>>]

\* The dots for dimensions w, h.
dots(w, h) ==
    LET columns == Ceil(w, DotStep) IN
    [i \in 1 .. columns * Ceil(h, DotStep) |->
       <<((i - 1) % columns) * DotStep + 1, ((i - 1) \div columns) * DotStep + 1>>]

\* alone: the container has changed without a resize of the window.
DotInit ==
    /\ widget = "dots" /\ pending = Register(Nothing, {"resize"})
    /\ \E size \in Sizes :
          ui = [mounted |-> TRUE, container |-> size, dimensions |-> size,
                stale |-> FALSE, alone |-> FALSE]

DotLayout(size, window) ==
    /\ On("dots") /\ size # ui.container
    /\ Becomes([ui EXCEPT !.container = size, !.stale = @ \/ window,
                          !.alone = ~window], pending)

updateDimensions ==
    /\ On("dots") /\ pending["resize"] > 0 /\ ui.stale
    /\ Becomes([ui EXCEPT !.dimensions = ui.container, !.stale = FALSE,
                          !.alone = FALSE], pending)

-----------------------------------------------------------------------------
(* AnimatedGridPattern.  A change of the dimensions is committed first; the *)
(* effect that makes new squares runs later (due).  A square's element has *)
(* the key id-iteration, and is animated once: still are the squares whose *)
(* element has finished.  raced records those that finished when due.      *)

SquareIds == 1 .. numSquares

\* Positions in cells of the grid.
GridPositions(d) == IF d = 0 THEN {0} ELSE 0 .. d - 1

\* Iterations are told apart up to this bound.
MaxIteration == 2

GridInit ==
    /\ widget = "grid" /\ pending = Register(Nothing, {"resize"})
    /\ ui = [mounted |-> TRUE, dimensions |-> 0, due |-> FALSE,
             squares |-> <<>>, still |-> {}, raced |-> {}]

GridResize(d) ==
    /\ On("grid") /\ pending["resize"] > 0 /\ d # ui.dimensions
    /\ Becomes([ui EXCEPT !.dimensions = d, !.due = d # 0], pending)

\* New squares, all of iteration 0.  The element of a square that is of
\* iteration 0 already is kept, finished or not.
generateSquares(state, positions) ==
    [state EXCEPT
       !.squares = [i \in SquareIds |-> [pos |-> positions[i], iteration |-> 0]],
       !.still = {i \in @ : i \in DOMAIN state.squares
                            /\ state.squares[i].iteration = 0},
       !.due = FALSE]

GridSquares ==
    /\ On("grid") /\ ui.due
    /\ \E positions \in [SquareIds -> GridPositions(ui.dimensions)] :
          Becomes(generateSquares(ui, positions), pending)

\* updateSquarePosition(i), called when the animation of the square ends.
GridMove(i) ==
    /\ On("grid") /\ ~ui.due
    /\ i \in DOMAIN ui.squares \ ui.still
    /\ \E p \in GridPositions(ui.dimensions) :
          Becomes([ui EXCEPT !.squares[i] = [pos |-> p,
                                iteration |-> IF @.iteration < MaxIteration
                                              THEN @.iteration + 1 ELSE @.iteration]],
                  pending)

\* The animation ends while the effect is due: React runs the effect before
\* it renders, so the new squares replace the moved one.
GridMoveLate(i) ==
    /\ On("grid") /\ ui.due
    /\ i \in DOMAIN ui.squares \ ui.still
    /\ \E positions \in [SquareIds -> GridPositions(ui.dimensions)] :
          Becomes(generateSquares([ui EXCEPT !.still = @ \cup {i},
                                             !.raced = @ \cup {i}], positions),
                  pending)

-----------------------------------------------------------------------------
(* Highlighter: one annotation while it should show.                       *)

HighlighterInit ==
    /\ widget = "highlighter"
    /\ \E isView \in BOOLEAN :
          /\ ui = [mounted |-> TRUE, shouldShow |-> ~isView]
          /\ pending = RegisterIf(~isView, Nothing, {"annotation", "resize"})

HighlighterStops(calls) ==
    IF ui.shouldShow THEN Cancel(calls, {"annotation", "resize"}) ELSE calls

\* The layout effect, when the element comes into view or the style changes.
HighlighterEffect(show) ==
    Becomes([ui EXCEPT !.shouldShow = show],
            RegisterIf(show, HighlighterStops(pending), {"annotation", "resize"}))

HighlighterInView ==
    On("highlighter") /\ ~ui.shouldShow /\ HighlighterEffect(TRUE)

HighlighterStyle == On("highlighter") /\ HighlighterEffect(ui.shouldShow)

-----------------------------------------------------------------------------
(* MagicCard: inside is the pointer over the card, at a position for the   *)
(* gradient, orbVisible for the orb.                                       *)

reset(state, reason) ==
    IF state.mode = "orb"
    THEN [state EXCEPT !.orbVisible = (reason = "enter")]
    ELSE [state EXCEPT !.at = FALSE]

CardInit ==
    /\ widget = "card" /\ pending = Register(Nothing, {"pointer"})
    /\ \E mode \in {"gradient", "orb"} :
          ui = reset([mounted |-> TRUE, mode |-> mode, inside |-> FALSE,
                      at |-> FALSE, orbVisible |-> FALSE], "init")

CardEnter ==
    /\ On("card") /\ ~ui.inside
    /\ Becomes(reset([ui EXCEPT !.inside = TRUE], "enter"), pending)

handlePointerMove ==
    /\ On("card") /\ ui.inside
    /\ Becomes([ui EXCEPT !.at = TRUE], pending)

CardLeave ==
    /\ On("card") /\ ui.inside
    /\ Becomes(reset([ui EXCEPT !.inside = FALSE], "leave"), pending)

\* The pointer leaves the window, the window loses the focus or is hidden.
CardGlobal ==
    /\ On("card") /\ pending["pointer"] > 0
    /\ Becomes(reset(ui, "global"), pending)

-----------------------------------------------------------------------------
(* InteractiveGridPattern: the browser reports that the pointer leaves one *)
(* square before it enters the next.                                       *)

HoverInit ==
    /\ widget = "hover" /\ pending = Nothing
    /\ ui = [mounted |-> TRUE, pointer |-> 0, hoveredSquare |-> 0]

HoverEnter(square) ==
    /\ On("hover") /\ ui.pointer = 0
    /\ Becomes([ui EXCEPT !.pointer = square, !.hoveredSquare = square], pending)

HoverLeave ==
    /\ On("hover") /\ ui.pointer # 0
    /\ Becomes([ui EXCEPT !.pointer = 0, !.hoveredSquare = 0], pending)

-----------------------------------------------------------------------------
(* GlareHover: the glare crosses the element while the pointer is over it. *)
(* glare is where it is, or which way it is moving.                        *)

GlareInit ==
    /\ widget = "glare" /\ pending = Nothing
    /\ ui \in [mounted : {TRUE}, playOnce : BOOLEAN, hover : {FALSE},
               glare : {"start"}]

GlareEnter ==
    /\ On("glare") /\ ~ui.hover
    /\ Becomes([ui EXCEPT !.hover = TRUE, !.glare = "forth"], pending)

\* With playOnce there is no transition outside the element.
GlareLeave ==
    /\ On("glare") /\ ui.hover
    /\ Becomes([ui EXCEPT !.hover = FALSE,
                          !.glare = IF ui.playOnce THEN "start" ELSE "back"], pending)

\* The transition ends.
GlareArrives ==
    /\ On("glare") /\ ui.glare \in {"forth", "back"}
    /\ Becomes([ui EXCEPT !.glare = IF @ = "forth" THEN "end" ELSE "start"], pending)

-----------------------------------------------------------------------------
(* BlurFade: hidden until it is in view, if it is to wait for that.         *)

BlurInit ==
    /\ widget = "blur" /\ pending = Nothing
    /\ \E inView \in BOOLEAN :
          ui = [mounted |-> TRUE, isInView |-> ~inView, visible |-> FALSE]

BlurInView ==
    /\ On("blur") /\ ~ui.isInView
    /\ Becomes([ui EXCEPT !.isInView = TRUE], pending)

BlurShown ==
    /\ On("blur") /\ ui.isInView /\ ~ui.visible
    /\ Becomes([ui EXCEPT !.visible = TRUE], pending)

-----------------------------------------------------------------------------

LayoutInit ==
    \/ BeamInit \/ DotInit \/ GridInit \/ HighlighterInit
    \/ CardInit \/ HoverInit \/ GlareInit \/ BlurInit

LayoutNext ==
    \/ \E p \in DOMAIN Layouts : BeamLayout(p)
    \/ BeamResize \/ BeamProps
    \/ \E size \in Sizes, window \in BOOLEAN : DotLayout(size, window)
    \/ updateDimensions
    \/ \E d \in GridSizes : GridResize(d)
    \/ GridSquares
    \/ \E i \in SquareIds : GridMove(i) \/ GridMoveLate(i)
    \/ HighlighterInView \/ HighlighterStyle
    \/ CardEnter \/ handlePointerMove \/ CardLeave \/ CardGlobal
    \/ \E square \in 1 .. 2 : HoverEnter(square)
    \/ HoverLeave
    \/ GlareEnter \/ GlareLeave \/ GlareArrives
    \/ BlurInView \/ BlurShown

LayoutCleanup ==
    CASE widget \in {"beam", "dots", "grid"} -> Cancel(pending, {"resize"})
      [] widget = "highlighter" -> HighlighterStops(pending)
      [] widget = "card" -> Cancel(pending, {"pointer"})
      [] OTHER -> pending

\* Once the reported resizes have been handled the drawing fits the page: the
\* beam joins the centres of its nodes, whatever page it was drawn on before
\* (unless the nodes have moved in a container of the same size), the dots cover the container and
\* have distinct keys (as long as it was the window that was resized), the
\* squares lie inside the grid.  A square stands still only if its animation
\* ended between the commit of a resize and its effect.
DrawingFits ==
    /\ On("beam") /\ ~ui.stale /\ ~ui.alone =>
         LET box == Layout(ui.page).box IN
         \A end \in {<<ui.path.start, Layout(ui.page).node[ui.beam.from]>>,
                     <<ui.path.end, Layout(ui.page).node[ui.beam.to]>>} :
            /\ end[1][1] + 2 * box.left = 2 * end[2].left + end[2].width
            /\ end[1][2] + 2 * box.top = 2 * end[2].top + end[2].height
            /\ end[1][1] \in 0 .. 2 * ui.path.width
            /\ end[1][2] \in 0 .. 2 * ui.path.height
    /\ On("dots") /\ ~ui.stale /\ ~ui.alone =>
         LET drawn == dots(ui.dimensions[1], ui.dimensions[2])
             at == {drawn[i] : i \in DOMAIN drawn}
         IN /\ Cardinality(at) = Len(drawn)
            /\ \A x \in 0 .. ui.container[1] - 1, y \in 0 .. ui.container[2] - 1 :
                  \E dot \in at : dot[1] - 1 \in {x - 1, x}
                                  /\ dot[2] - 1 \in {y - 1, y}
    /\ On("grid") =>
         /\ ~ui.due /\ ui.dimensions # 0 =>
              \A i \in DOMAIN ui.squares :
                 ui.squares[i].pos \in GridPositions(ui.dimensions)
         /\ ui.still \subseteq ui.raced
=============================================================================
