--------------------------- MODULE DrawingProofs ---------------------------
(***************************************************************************)
(* What the components of the website draw: that a drawing is the one for  *)
(* the present size and props, and that it fits.                           *)
(***************************************************************************)
EXTENDS TextWidgets, LayoutWidgets, Ornaments, FiniteSetTheorems, FunctionTheorems, TLAPS

-----------------------------------------------------------------------------
(* Division.                                                               *)

\* Multiplication by a natural number is monotonic.
LEMMA MulMono ==
    ASSUME NEW b \in Nat, NEW x \in Int, NEW y \in Int, x <= y
    PROVE b * x <= b * y
  OBVIOUS

\* Quotient and remainder.
LEMMA DivMod ==
    ASSUME NEW a \in Int, NEW b \in Nat \ {0}
    PROVE /\ a \div b \in Int /\ a % b \in 0 .. b - 1
          /\ a = b * (a \div b) + (a % b)
  OBVIOUS

\* There is one quotient and one remainder.
LEMMA DivUnique ==
    ASSUME NEW a \in Int, NEW b \in Nat \ {0}, NEW q \in Int, NEW r \in 0 .. b - 1,
           a = b * q + r
    PROVE a \div b = q /\ a % b = r
  <1> DEFINE e == a \div b
             m == a % b
  <1>1. e \in Int /\ m \in 0 .. b - 1 /\ b * e + m = b * q + r BY DivMod, SMTT(40)
  <1> HIDE DEF e, m
  <1>2. ~(e < q)
    <2> SUFFICES ASSUME e < q PROVE FALSE
        OBVIOUS
    <2>1. b * (e + 1) <= b * q BY <1>1, MulMono
    <2>2. b * (e + 1) = b * e + b BY <1>1
    <2> QED BY <1>1, <2>1, <2>2
  <1>3. ~(q < e)
    <2> SUFFICES ASSUME q < e PROVE FALSE
        OBVIOUS
    <2>1. b * (q + 1) <= b * e BY <1>1, MulMono
    <2>2. b * (q + 1) = b * q + b BY <1>1
    <2> QED BY <1>1, <2>1, <2>2
  <1>4. e = q BY <1>1, <1>2, <1>3
  <1> QED BY <1>1, <1>4 DEF e, m

-----------------------------------------------------------------------------
(* AnimatedBeam.                                                           *)

\* The nodes of the diagram.
NodeNames == {nodes[i] : i \in DOMAIN nodes}

\* A node is one of six.
LEMMA NodeIndex ==
    ASSUME NEW n \in NodeNames
    PROVE (CHOOSE i \in DOMAIN nodes : nodes[i] = n) \in 1 .. 6
  <1>1. DOMAIN nodes = 1 .. 6 BY DEF nodes
  <1>2. \E i \in DOMAIN nodes : nodes[i] = n BY DEF NodeNames
  <1> QED BY <1>1, <1>2

\* The centre of every node, in halves and from the corner of the container.
LEMMA NodesInside ==
    ASSUME NEW p \in DOMAIN Layouts, NEW n \in NodeNames
    PROVE LET box == Layout(p).box
              rect == Layout(p).node[n]
          IN /\ rect.left \in Int /\ rect.top \in Int
             /\ rect.width \in Int /\ rect.height \in Int
             /\ box.left \in Int /\ box.top \in Int
             /\ box.width \in Nat /\ box.height \in Nat
             /\ 2 * (rect.left - box.left) + rect.width \in 0 .. 2 * box.width
             /\ 2 * (rect.top - box.top) + rect.height \in 0 .. 2 * box.height
  <1> DEFINE l == Layouts[p]
             i == CHOOSE j \in DOMAIN nodes : nodes[j] = n
             column == (i - 1) \div 2
             gap == IF column = 1 THEN l[5] + 2 ELSE l[5]
             box == Layout(p).box
             rect == Layout(p).node[n]
  <1>1. /\ l[1] \in Int /\ l[2] \in Int /\ l[3] \in Nat /\ l[4] \in Nat /\ l[5] \in Nat
        /\ \/ l[1] = 0 /\ l[2] = 0 /\ l[3] = 0 /\ l[4] = 0
           \/ l[3] >= 8 /\ l[4] >= l[5] + 6
    <2>1. l \in Int \X Int \X Nat \X Nat \X Nat BY LayoutAssumption
    <2>2. \/ l = <<0, 0, 0, 0, 0>>
          \/ l[3] >= 8 /\ l[4] >= l[5] + 6
      BY LayoutAssumption, Zenon
    <2> HIDE DEF l
    <2> QED BY <2>1, <2>2
  <1>2. i \in 1 .. 6 BY NodeIndex
  <1>3. /\ box = [left |-> l[1], top |-> l[2], width |-> l[3], height |-> l[4]]
        /\ rect = IF l[3] = 0 THEN [left |-> 0, top |-> 0, width |-> 0, height |-> 0]
                  ELSE [left |-> l[1] + 1 + column * ((l[3] - 4) \div 2), width |-> 2,
                        top |-> l[2] + (l[4] \div 2) - (gap \div 2)
                                  + (IF i % 2 = 1 THEN -2 ELSE gap),
                        height |-> 2]
    BY Zenon DEF Layout, NodeNames
  <1> HIDE DEF l, i, box, rect
  <1>4. CASE l[3] = 0 BY <1>1, <1>3, <1>4 DEF box, rect
  <1>5. CASE l[3] # 0
    <2>1. column \in 0 .. 2 /\ gap \in l[5] .. l[5] + 2 BY <1>1, <1>2
    <2>2. i % 2 \in 0 .. 1 BY <1>2
    <2> HIDE DEF column, gap
    <2> DEFINE q == (l[3] - 4) \div 2
               v == l[4] \div 2
               g == gap \div 2
               d == IF i % 2 = 1 THEN -2 ELSE gap
    <2>3. q \in Int /\ 2 * q <= l[3] - 4 /\ q >= 2 BY <1>1, <1>5
    <2>4. v \in Int /\ 2 * v <= l[4] /\ 2 * v >= l[4] - 1 BY <1>1
    <2>5. g \in Int /\ 2 * g <= gap /\ 2 * g >= gap - 1 /\ d \in {-2, gap} BY <1>1, <2>1
    <2>6. column * q \in Int /\ 0 <= column * q /\ column * q <= 2 * q
      <3>1. column \in {0, 1, 2} BY <2>1
      <3> HIDE DEF q
      <3> QED BY <2>3, <3>1
    <2>7. /\ box.left = l[1] /\ box.top = l[2] /\ box.width = l[3] /\ box.height = l[4]
          /\ rect.left = l[1] + 1 + column * q /\ rect.width = 2 /\ rect.height = 2
          /\ rect.top = l[2] + v - g + d
      BY <1>3, <1>5
    <2> HIDE DEF q, v, g, d
    <2>8. /\ rect.left \in Int
          /\ 2 * (rect.left - box.left) + rect.width \in 0 .. 2 * box.width
      BY <1>1, <2>3, <2>6, <2>7
    <2>9. /\ rect.top \in Int
          /\ 2 * (rect.top - box.top) + rect.height \in 0 .. 2 * box.height
      BY <1>1, <1>5, <2>1, <2>4, <2>5, <2>7
    <2> QED BY <1>1, <2>7, <2>8, <2>9 DEF box, rect
  <1> QED BY <1>4, <1>5

\* A beam that has seen the resizes is drawn for the page it is on.
BeamInv ==
    /\ {"page", "beam", "stale", "alone", "path"} \subseteq DOMAIN ui
    /\ ui.page \in DOMAIN Layouts
    /\ ui.beam \in [from : NodeNames, to : NodeNames, curvature : Int]
    /\ ~ui.stale /\ ~ui.alone
         => ui.path = updatePath(ui.page, ui.beam, ui.beam.curvature)

\* The steps of AnimatedBeam.
BeamNext == (\E p \in DOMAIN Layouts : BeamLayout(p)) \/ BeamResize \/ BeamProps

\* The beams join nodes.
LEMMA BeamsType ==
    \A b \in DOMAIN Beams : Beams[b] \in [from : NodeNames, to : NodeNames, curvature : Int]
  <1>1. {"crs", "hub", "foundation", "instance", "host", "child"} \subseteq NodeNames
    BY DEF NodeNames, nodes
  <1> QED BY <1>1 DEF Beams

\* The first effect draws it.
LEMMA BeamInit0 == BeamInit => BeamInv
  <1> SUFFICES ASSUME BeamInit PROVE BeamInv
      OBVIOUS
  <1> QED BY BeamsType DEF BeamInit, BeamInv

\* A change of the layout leaves the beam stale until its observer is called.
LEMMA BeamKept ==
    ASSUME BeamInv, BeamNext
    PROVE BeamInv'
  <1>1. ASSUME NEW p \in DOMAIN Layouts, BeamLayout(p) PROVE BeamInv'
    <2>1. \/ ui' = [ui EXCEPT !.page = p, !.stale = TRUE]
          \/ ui' = [ui EXCEPT !.page = p, !.alone = TRUE]
      BY <1>1 DEF BeamLayout, Becomes
    <2> QED BY <2>1, Zenon DEF BeamInv
  <1>2. CASE BeamResize
    <2>1. ui' = [ui EXCEPT !.path = updatePath(ui.page, ui.beam, ui.beam.curvature),
                           !.stale = FALSE, !.alone = FALSE]
      BY <1>2 DEF BeamResize, Becomes
    <2> QED BY <2>1 DEF BeamInv
  <1>3. CASE BeamProps
    <2> DEFINE c == -ui.beam.curvature
    <2>1. ui' = [ui EXCEPT !.beam.curvature = c, !.alone = FALSE,
                           !.path = updatePath(ui.page, ui.beam, c)]
      BY <1>3 DEF BeamProps, Becomes
    <2>2. c \in Int BY DEF BeamInv
    <2> HIDE DEF c
    <2>3. /\ {"page", "beam", "stale", "alone", "path"} \subseteq DOMAIN ui'
          /\ ui'.page = ui.page /\ ui'.stale = ui.stale
          /\ ui'.beam = [ui.beam EXCEPT !.curvature = c]
          /\ ui'.path = updatePath(ui.page, ui.beam, c)
      BY <2>1 DEF BeamInv
    <2>4. /\ ui'.beam \in [from : NodeNames, to : NodeNames, curvature : Int]
          /\ ui'.beam.from = ui.beam.from /\ ui'.beam.to = ui.beam.to
          /\ ui'.beam.curvature = c
      BY <2>2, <2>3 DEF BeamInv
    <2>5. updatePath(ui.page, ui'.beam, c) = updatePath(ui.page, ui.beam, c)
      BY <2>4, Zenon DEF updatePath
    <2> QED BY <2>3, <2>4, <2>5 DEF BeamInv
  <1> QED BY <1>1, <1>2, <1>3 DEF BeamNext

\* Being unmounted changes no drawing.
LEMMA BeamGone == ASSUME BeamInv, ui' = [ui EXCEPT !.mounted = FALSE] PROVE BeamInv'
  BY SMTT(40) DEF BeamInv

\* A beam that is not stale joins the centres of its nodes.
LEMMA BeamHolds ==
    ASSUME BeamInv
    PROVE On("beam") /\ ~ui.stale /\ ~ui.alone =>
            LET box == Layout(ui.page).box IN
            \A end \in {<<ui.path.start, Layout(ui.page).node[ui.beam.from]>>,
                        <<ui.path.end, Layout(ui.page).node[ui.beam.to]>>} :
               /\ end[1][1] + 2 * box.left = 2 * end[2].left + end[2].width
               /\ end[1][2] + 2 * box.top = 2 * end[2].top + end[2].height
               /\ end[1][1] \in 0 .. 2 * ui.path.width
               /\ end[1][2] \in 0 .. 2 * ui.path.height
  <1> SUFFICES ASSUME ~ui.stale, ~ui.alone
               PROVE LET box == Layout(ui.page).box IN
            \A end \in {<<ui.path.start, Layout(ui.page).node[ui.beam.from]>>,
                        <<ui.path.end, Layout(ui.page).node[ui.beam.to]>>} :
               /\ end[1][1] + 2 * box.left = 2 * end[2].left + end[2].width
               /\ end[1][2] + 2 * box.top = 2 * end[2].top + end[2].height
               /\ end[1][1] \in 0 .. 2 * ui.path.width
               /\ end[1][2] \in 0 .. 2 * ui.path.height
      OBVIOUS
  <1> DEFINE box == Layout(ui.page).box
             from == Layout(ui.page).node[ui.beam.from]
             to == Layout(ui.page).node[ui.beam.to]
             x(rect) == 2 * (rect.left - box.left) + rect.width
             y(rect) == 2 * (rect.top - box.top) + rect.height
  <1>1. ui.page \in DOMAIN Layouts /\ ui.beam.from \in NodeNames /\ ui.beam.to \in NodeNames
    BY DEF BeamInv
  <1>2. /\ box.left \in Int /\ box.top \in Int
        /\ \A rect \in {from, to} :
             /\ rect.left \in Int /\ rect.top \in Int
             /\ rect.width \in Int /\ rect.height \in Int
             /\ x(rect) \in 0 .. 2 * box.width
             /\ y(rect) \in 0 .. 2 * box.height
    BY <1>1, NodesInside, ZenonT(60)
  <1>3. /\ ui.path.start = <<x(from), y(from)>> /\ ui.path.end = <<x(to), y(to)>>
        /\ ui.path.width = box.width /\ ui.path.height = box.height
    <2> DEFINE start == <<x(from), y(from)>>
               last == <<x(to), y(to)>>
               control == <<(x(from) + x(to)) \div 2, y(from) - 2 * ui.beam.curvature>>
    <2>1. ui.path = updatePath(ui.page, ui.beam, ui.beam.curvature) BY DEF BeamInv
    <2>2. ui.path = [width |-> box.width, height |-> box.height, start |-> start,
                     control |-> control, end |-> last]
      BY <2>1, Zenon DEF updatePath
    <2>3. ui.path.start = start /\ ui.path.end = last
          /\ ui.path.width = box.width /\ ui.path.height = box.height
      <3> HIDE DEF start, last, control, box
      <3> QED BY <2>2
    <2> QED BY <2>3
  <1> HIDE DEF box, from, to
  <1>4. \A end \in {<<ui.path.start, from>>, <<ui.path.end, to>>} :
          /\ end[1][1] + 2 * box.left = 2 * end[2].left + end[2].width
          /\ end[1][2] + 2 * box.top = 2 * end[2].top + end[2].height
          /\ end[1][1] \in 0 .. 2 * ui.path.width
          /\ end[1][2] \in 0 .. 2 * ui.path.height
    BY <1>2, <1>3
  <1> QED BY <1>4, SMTT(40) DEF box, from, to

-----------------------------------------------------------------------------
(* DotPattern.                                                             *)

\* Dots that have seen the resizes are those of the container.
DotInv ==
    /\ {"container", "dimensions", "stale", "alone"} \subseteq DOMAIN ui
    /\ ui.container \in Sizes /\ ui.dimensions \in Sizes
    /\ ~ui.stale /\ ~ui.alone => ui.dimensions = ui.container

\* The steps of DotPattern.
DotNext ==
    \/ \E size \in Sizes, window \in BOOLEAN : DotLayout(size, window)
    \/ updateDimensions

\* The first effect measures the container.
LEMMA DotInit0 == DotInit => DotInv
  <1> SUFFICES ASSUME DotInit PROVE DotInv
      OBVIOUS
  <1> QED BY DEF DotInit, DotInv

\* The handler of a resize measures it again.
LEMMA DotKept ==
    ASSUME DotInv, DotNext
    PROVE DotInv'
  <1>1. \/ \E size \in Sizes, window \in BOOLEAN :
             ui' = [ui EXCEPT !.container = size, !.stale = @ \/ window,
                              !.alone = ~window]
        \/ ui' = [ui EXCEPT !.dimensions = ui.container, !.stale = FALSE,
                            !.alone = FALSE]
    BY Zenon DEF DotNext, DotLayout, updateDimensions, Becomes
  <1> QED BY <1>1, Zenon DEF DotInv

\* Being unmounted changes no drawing.
LEMMA DotGone == ASSUME DotInv, ui' = [ui EXCEPT !.mounted = FALSE] PROVE DotInv'
  BY DEF DotInv

\* Every dot has a place of its own, and one is near every point of the size.
Covers(drawn, size) ==
    LET at == {drawn[i] : i \in DOMAIN drawn} IN
    /\ Cardinality(at) = Len(drawn)
    /\ \A x \in 0 .. size[1] - 1, y \in 0 .. size[2] - 1 :
          \E dot \in at : dot[1] - 1 \in {x - 1, x} /\ dot[2] - 1 \in {y - 1, y}

\* The dots of a size have distinct positions and leave no gap in the
\* container.
LEMMA DotsCover ==
    ASSUME NEW size \in Nat \X Nat
    PROVE Covers(dots(size[1], size[2]), size)
  <1> DEFINE w == size[1]
             h == size[2]
  <1>0. w \in Nat /\ h \in Nat OBVIOUS
  <1> HIDE DEF w, h
  <1> DEFINE c == (w + 1) \div 2
             r == (h + 1) \div 2
             n == c * r
             drawn == dots(w, h)
             at == {drawn[i] : i \in DOMAIN drawn}
  <1>1. /\ c \in Nat /\ 2 * c >= w /\ r \in Nat /\ 2 * r >= h
        /\ Ceil(w, DotStep) = c /\ Ceil(h, DotStep) = r
    BY <1>0 DEF Ceil, DotStep
  <1>2. drawn = [i \in 1 .. n |-> <<((i - 1) % c) * 2 + 1, ((i - 1) \div c) * 2 + 1>>]
    BY <1>1 DEF dots, DotStep
  <1> HIDE DEF c, r, drawn
  <1>3. n \in Nat BY <1>1
  <1>4. Len(drawn) = n /\ DOMAIN drawn = 1 .. n BY <1>2, <1>3
  <1>5. c = 0 => n = 0 BY <1>1
  <1> HIDE DEF n
  <1>6. \A i, j \in 1 .. n : drawn[i] = drawn[j] => i = j
    <2> SUFFICES ASSUME NEW i \in 1 .. n, NEW j \in 1 .. n, drawn[i] = drawn[j] PROVE i = j
        OBVIOUS
    <2> DEFINE a == i - 1
               b == j - 1
    <2>1. c \in Nat \ {0} /\ a \in Int /\ b \in Int BY <1>1, <1>3, <1>5
    <2>2. drawn[i] = <<(a % c) * 2 + 1, (a \div c) * 2 + 1>>
          /\ drawn[j] = <<(b % c) * 2 + 1, (b \div c) * 2 + 1>>
      BY <1>2
    <2> HIDE DEF a, b
    <2>3. /\ a \div c \in Int /\ a % c \in Int /\ a = c * (a \div c) + (a % c)
          /\ b \div c \in Int /\ b % c \in Int /\ b = c * (b \div c) + (b % c)
      <3>1. /\ a \div c \in Int /\ a % c \in 0 .. c - 1
            /\ a = c * (a \div c) + (a % c)
        BY <2>1, DivMod, Zenon
      <3>2. /\ b \div c \in Int /\ b % c \in 0 .. c - 1
            /\ b = c * (b \div c) + (b % c)
        BY <2>1, DivMod, Zenon
      <3> QED BY <2>1, <3>1, <3>2
    <2> DEFINE p == a % c
               q == a \div c
               s == b % c
               t == b \div c
    <2>4. p \in Int /\ q \in Int /\ s \in Int /\ t \in Int
          /\ <<p * 2 + 1, q * 2 + 1>> = <<s * 2 + 1, t * 2 + 1>>
          /\ a = c * q + p /\ b = c * t + s
      BY <2>2, <2>3, Zenon
    <2> HIDE DEF p, q, s, t
    <2>5. p * 2 + 1 = s * 2 + 1 /\ q * 2 + 1 = t * 2 + 1 BY <2>4
    <2>6. p = s /\ q = t BY <2>4, <2>5
    <2>7. a = b BY <2>4, <2>6
    <2> QED BY <2>7 DEF a, b
  <1>7. Cardinality(at) = n
    <2>1. drawn \in Bijection(1 .. n, at)
      <3>1. drawn \in [1 .. n -> at] BY <1>2, <1>4
      <3> QED BY <1>4, <1>6, <3>1, Fun_IsBij
    <2>2. ExistsBijection(1 .. n, at) BY <2>1 DEF ExistsBijection
    <2>3. IsFiniteSet(1 .. n) /\ Cardinality(1 .. n) = n
      <3>1. 1 \in Int /\ n \in Int BY <1>3
      <3>2. /\ IsFiniteSet(1 .. n)
            /\ Cardinality(1 .. n) = IF 1 > n THEN 0 ELSE n - 1 + 1
        BY <3>1, FS_Interval, ZenonT(60)
      <3> QED BY <1>3, <3>2
    <2> QED BY <2>2, <2>3, FS_Bijection
  <1>8. ASSUME NEW x \in 0 .. w - 1, NEW y \in 0 .. h - 1
        PROVE \E dot \in at : dot[1] - 1 \in {x - 1, x} /\ dot[2] - 1 \in {y - 1, y}
    <2> DEFINE u == x \div 2
               v == y \div 2
               i == c * v + u + 1
    <2>1. /\ u \in Nat /\ v \in Nat /\ u < c /\ v < r
          /\ u * 2 \in {x - 1, x} /\ v * 2 \in {y - 1, y}
      BY <1>0, <1>1
    <2> HIDE DEF u, v
    <2>2. c * (v + 1) <= c * r /\ c * (v + 1) = c * v + c /\ c * v \in Nat
      BY <1>1, <2>1, MulMono
    <2>3. i \in 1 .. n BY <1>1, <2>1, <2>2 DEF n
    <2>4. (i - 1) \div c = v /\ (i - 1) % c = u
      <3>1. i - 1 = c * v + u /\ i - 1 \in Int BY <2>1, <2>2
      <3>2. c \in Nat \ {0} /\ u \in 0 .. c - 1 /\ v \in Int BY <1>1, <2>1
      <3> QED BY <3>1, <3>2, DivUnique
    <2> HIDE DEF i
    <2>5. drawn[i] = <<u * 2 + 1, v * 2 + 1>> BY <1>2, <2>3, <2>4
    <2>6. drawn[i] \in at BY <1>4, <2>3
    <2> QED BY <2>1, <2>5, <2>6
  <1> QED BY <1>4, <1>7, <1>8, Zenon DEF drawn, w, h, Covers

\* So do those drawn, once the resizes have been handled.
LEMMA DotHolds ==
    ASSUME DotInv, ~ui.stale, ~ui.alone
    PROVE LET drawn == dots(ui.dimensions[1], ui.dimensions[2])
              at == {drawn[i] : i \in DOMAIN drawn}
          IN /\ Cardinality(at) = Len(drawn)
             /\ \A x \in 0 .. ui.container[1] - 1, y \in 0 .. ui.container[2] - 1 :
                   \E dot \in at : dot[1] - 1 \in {x - 1, x}
                                   /\ dot[2] - 1 \in {y - 1, y}
  <1>1. ui.container \in Nat \X Nat /\ ui.dimensions = ui.container
    BY LayoutAssumption DEF DotInv
  <1>2. Covers(dots(ui.container[1], ui.container[2]), ui.container)
    BY <1>1, DotsCover
  <1>3. Covers(dots(ui.dimensions[1], ui.dimensions[2]), ui.container)
    BY <1>1, <1>2
  <1> QED BY <1>3, Zenon DEF Covers

-----------------------------------------------------------------------------
(* AnimatedGridPattern.                                                    *)

\* Squares lie inside the grid they were generated for, and one stands still
\* only if its animation ended between a commit and its effect.
GridInv ==
    /\ {"dimensions", "due", "squares", "still", "raced"} \subseteq DOMAIN ui
    /\ ~ui.due /\ ui.dimensions # 0 =>
         \A i \in DOMAIN ui.squares :
            ui.squares[i].pos \in GridPositions(ui.dimensions)
    /\ ui.still \subseteq ui.raced

\* The steps of AnimatedGridPattern.
GridNext ==
    \/ \E d \in GridSizes : GridResize(d)
    \/ GridSquares
    \/ \E i \in SquareIds : GridMove(i) \/ GridMoveLate(i)

\* It begins without dimensions.
LEMMA GridInit0 == GridInit => GridInv
  <1> SUFFICES ASSUME GridInit PROVE GridInv
      OBVIOUS
  <1> QED BY DEF GridInit, GridInv

\* New squares are inside, and none of them stands still that did not before.
LEMMA GenerateKept ==
    ASSUME NEW state, NEW d, NEW positions \in [SquareIds -> GridPositions(d)],
           {"dimensions", "due", "squares", "still", "raced"} \subseteq DOMAIN state,
           state.dimensions = d, state.still \subseteq state.raced
    PROVE LET new == generateSquares(state, positions) IN
          /\ DOMAIN new = DOMAIN state
          /\ new.dimensions = d /\ new.raced = state.raced
          /\ \A i \in DOMAIN new.squares : new.squares[i].pos \in GridPositions(d)
          /\ new.still \subseteq new.raced
  <1> DEFINE new == generateSquares(state, positions)
             made == [i \in SquareIds |-> [pos |-> positions[i], iteration |-> 0]]
             kept == {i \in state.still : i \in DOMAIN state.squares
                                          /\ state.squares[i].iteration = 0}
  <1>1. new = [state EXCEPT !.squares = made, !.still = kept, !.due = FALSE]
    BY DEF generateSquares
  <1>2. DOMAIN made = SquareIds /\ \A i \in SquareIds : made[i].pos \in GridPositions(d)
    OBVIOUS
  <1>3. kept \subseteq state.still OBVIOUS
  <1> HIDE DEF new, made, kept
  <1>4. /\ DOMAIN new = DOMAIN state
        /\ new.dimensions = d /\ new.raced = state.raced
        /\ new.squares = made /\ new.still = kept
    BY <1>1
  <1> QED BY <1>2, <1>3, <1>4 DEF new

\* Every step keeps them inside; a late end of an animation is remembered.
LEMMA GridKept ==
    ASSUME GridInv, GridNext
    PROVE GridInv'
  <1>1. ASSUME NEW d \in GridSizes, GridResize(d) PROVE GridInv'
    <2>1. ui' = [ui EXCEPT !.dimensions = d, !.due = d # 0]
      BY <1>1 DEF GridResize, Becomes
    <2> QED BY <2>1, Zenon DEF GridInv
  <1>2. CASE GridSquares
    <2>1. PICK positions \in [SquareIds -> GridPositions(ui.dimensions)] :
             ui' = generateSquares(ui, positions)
      BY <1>2 DEF GridSquares, Becomes
    <2>2. /\ DOMAIN ui' = DOMAIN ui
          /\ ui'.dimensions = ui.dimensions
          /\ \A i \in DOMAIN ui'.squares : ui'.squares[i].pos \in GridPositions(ui.dimensions)
          /\ ui'.still \subseteq ui'.raced
      BY <2>1, GenerateKept DEF GridInv
    <2> QED BY <2>2 DEF GridInv
  <1>3. ASSUME NEW i \in SquareIds, GridMove(i) PROVE GridInv'
    <2>1. PICK p, it :
             /\ p \in GridPositions(ui.dimensions)
             /\ ui' = [ui EXCEPT !.squares[i] = [pos |-> p, iteration |-> it]]
      BY <1>3, Zenon DEF GridMove, Becomes
    <2>2. /\ DOMAIN ui' = DOMAIN ui
          /\ ui'.dimensions = ui.dimensions /\ ui'.still = ui.still /\ ui'.raced = ui.raced
          /\ ui'.squares = [ui.squares EXCEPT ![i] = [pos |-> p, iteration |-> it]]
          /\ ui'.due = ui.due
      BY <2>1 DEF GridInv
    <2>3. ~ui.due /\ p \in GridPositions(ui.dimensions) BY <1>3, <2>1 DEF GridMove
    <2>4. ui.dimensions # 0 => \A j \in DOMAIN ui'.squares :
                                  ui'.squares[j].pos \in GridPositions(ui.dimensions)
      BY <2>2, <2>3 DEF GridInv
    <2> QED BY <2>2, <2>4 DEF GridInv
  <1>4. ASSUME NEW i \in SquareIds, GridMoveLate(i) PROVE GridInv'
    <2> DEFINE state == [ui EXCEPT !.still = @ \cup {i}, !.raced = @ \cup {i}]
    <2>1. PICK positions \in [SquareIds -> GridPositions(ui.dimensions)] :
             ui' = generateSquares(state, positions)
      BY <1>4 DEF GridMoveLate, Becomes
    <2>2. /\ DOMAIN state = DOMAIN ui
          /\ state.dimensions = ui.dimensions /\ state.still \subseteq state.raced
      BY DEF GridInv
    <2> HIDE DEF state
    <2>3. /\ DOMAIN ui' = DOMAIN ui
          /\ ui'.dimensions = ui.dimensions
          /\ \A j \in DOMAIN ui'.squares : ui'.squares[j].pos \in GridPositions(ui.dimensions)
          /\ ui'.still \subseteq ui'.raced
      BY <2>1, <2>2, GenerateKept DEF GridInv
    <2> QED BY <2>3 DEF GridInv
  <1> QED BY <1>1, <1>2, <1>3, <1>4 DEF GridNext

\* Being unmounted changes no drawing.
LEMMA GridGone == ASSUME GridInv, ui' = [ui EXCEPT !.mounted = FALSE] PROVE GridInv'
  BY DEF GridInv

-----------------------------------------------------------------------------
(* AnimatedCircularProgressBar.                                            *)

\* The percent is one for the value.
GaugeInv ==
    /\ "mounted" \in DOMAIN ui
    /\ ui.min \in Int /\ ui.max \in Int /\ ui.min < ui.max /\ ui.value \in Int
    /\ ui.percent \in currentPercent(ui.value, ui.min, ui.max)

\* It is for each state of a gauge.
LEMMA GaugesInv ==
    ASSUME NEW min \in Int, NEW max \in Int, min < max, NEW g \in Gauges(min, max)
    PROVE /\ g.min = min /\ g.max = max /\ g.value \in Int /\ "mounted" \in DOMAIN g
          /\ g.percent \in currentPercent(g.value, min, max)
  <1>1. PICK v \in 2 * min - max .. 2 * max - min :
          g \in [mounted : {TRUE}, min : {min}, max : {max}, value : {v},
                percent : currentPercent(v, min, max)]
    BY Zenon DEF Gauges
  <1>2. v \in Int OBVIOUS
  <1> DEFINE percents == currentPercent(v, min, max)
  <1> HIDE DEF percents
  <1>3. g \in [mounted : {TRUE}, min : {min}, max : {max}, value : {v}, percent : percents]
    BY <1>1, Zenon DEF percents
  <1>4. /\ g.min = min /\ g.max = max /\ g.value = v /\ g.percent \in percents
        /\ "mounted" \in DOMAIN g
    BY <1>3
  <1> QED BY <1>2, <1>4, Zenon DEF percents

\* It is from the start.
LEMMA GaugeInit0 == GaugeInit => GaugeInv
  <1> SUFFICES ASSUME GaugeInit PROVE GaugeInv
      OBVIOUS
  <1>1. PICK r \in Ranges : ui \in Gauges(r[1], r[2])
    BY Zenon DEF GaugeInit
  <1>2. r[1] \in Int /\ r[2] \in Int /\ r[1] < r[2] BY RangesAssumption
  <1> QED BY <1>1, <1>2, GaugesInv DEF GaugeInv

\* So is the percent of a new value.
LEMMA GaugeKept ==
    ASSUME GaugeInv, GaugeValue \/ ui' = [ui EXCEPT !.mounted = FALSE]
    PROVE GaugeInv'
  <1>1. CASE ui' = [ui EXCEPT !.mounted = FALSE]
    <2>1. /\ ui'.min = ui.min /\ ui'.max = ui.max /\ ui'.value = ui.value
          /\ ui'.percent = ui.percent /\ DOMAIN ui' = DOMAIN ui
      BY <1>1
    <2> QED BY <2>1, Zenon DEF GaugeInv
  <1>2. CASE GaugeValue
    <2>1. PICK new \in Gauges(ui.min, ui.max) : ui' = new
      BY <1>2, Zenon DEF GaugeValue, Becomes
    <2>2. /\ new.min = ui.min /\ new.max = ui.max /\ new.value \in Int
          /\ "mounted" \in DOMAIN new
          /\ new.percent \in currentPercent(new.value, ui.min, ui.max)
      BY GaugesInv DEF GaugeInv
    <2> QED BY <2>1, <2>2, Zenon DEF GaugeInv
  <1> QED BY <1>1, <1>2

\* A percent is at most k if the share is at most k percent.
LEMMA NearestBelow ==
    ASSUME NEW p \in Int, NEW share \in Int, NEW d \in Nat \ {0}, NEW k \in Int,
           Nearest(p, share, d), share <= k * d
    PROVE p <= k
  <1> SUFFICES ASSUME k + 1 <= p PROVE FALSE
      OBVIOUS
  <1> DEFINE pd == d * p
             kd == d * k
  <1>1. pd \in Int /\ kd \in Int /\ share <= kd /\ 2 * (share - pd) >= -d
    BY DEF Nearest
  <1>2. d * (k + 1) <= d * p BY MulMono
  <1>3. d * (k + 1) = kd + d OBVIOUS
  <1> HIDE DEF pd, kd
  <1>4. kd + d <= pd BY <1>2, <1>3 DEF pd
  <1> QED BY <1>1, <1>4

\* It is at least k if the share is at least k percent.
LEMMA NearestAbove ==
    ASSUME NEW p \in Int, NEW share \in Int, NEW d \in Nat \ {0}, NEW k \in Int,
           Nearest(p, share, d), k * d <= share
    PROVE k <= p
  <1> SUFFICES ASSUME p + 1 <= k PROVE FALSE
      OBVIOUS
  <1> DEFINE pd == d * p
             kd == d * k
  <1>1. pd \in Int /\ kd \in Int /\ kd <= share /\ 2 * (share - pd) <= d
    BY DEF Nearest
  <1>2. d * (p + 1) <= d * k BY MulMono
  <1>3. d * (p + 1) = pd + d OBVIOUS
  <1> HIDE DEF pd, kd
  <1>4. pd + d <= kd BY <1>2, <1>3 DEF kd
  <1> QED BY <1>1, <1>4

\* It does not fall when the share grows.
LEMMA NearestMono ==
    ASSUME NEW p \in Int, NEW q \in Int, NEW share \in Int, NEW more \in Int,
           NEW d \in Nat \ {0}, share < more, Nearest(p, share, d), Nearest(q, more, d)
    PROVE p <= q
  <1> SUFFICES ASSUME q + 1 <= p PROVE FALSE
      OBVIOUS
  <1> DEFINE pd == d * p
             qd == d * q
  <1>1. pd \in Int /\ qd \in Int /\ 2 * (share - pd) >= -d /\ 2 * (more - qd) <= d
    BY DEF Nearest
  <1>2. d * (q + 1) <= d * p BY MulMono
  <1>3. d * (q + 1) = qd + d OBVIOUS
  <1> HIDE DEF pd, qd
  <1>4. qd + d <= pd BY <1>2, <1>3 DEF pd
  <1> QED BY <1>1, <1>4

\* What a percent for a value is.
LEMMA PercentType ==
    ASSUME NEW min \in Int, NEW max \in Int, min < max, NEW v \in Int,
           NEW p \in currentPercent(v, min, max)
    PROVE p \in Int /\ Nearest(p, 100 * (v - min), max - min)
  <1> DEFINE share == 100 * (v - min)
             d == max - min
  <1>1. share \in Int /\ d \in Nat \ {0} OBVIOUS
  <1>2. share \div d \in Int BY <1>1, DivMod
  <1>3. Nearest(p, share, d) /\ p \in {share \div d, share \div d + 1}
    BY Zenon DEF currentPercent
  <1> HIDE DEF share, d
  <1>4. p \in Int BY <1>2, <1>3
  <1> QED BY <1>3, <1>4 DEF share, d

\* The percent of a value is between 0 and 100 if the value is in the range, and
\* not if it is outside; it does not fall when the value grows.
LEMMA Percent ==
    ASSUME NEW min \in Int, NEW max \in Int, min < max, NEW v \in Int,
           NEW p \in currentPercent(v, min, max)
    PROVE /\ p \in Int
          /\ v >= min => p >= 0
          /\ v <= max => p <= 100
          /\ v <= min => p <= 0
          /\ v >= max => p >= 100
          /\ \A next \in currentPercent(v + 1, min, max) : p <= next
  <1> DEFINE share == 100 * (v - min)
             more == 100 * ((v + 1) - min)
             d == max - min
  <1>1. /\ share \in Int /\ more \in Int /\ share < more /\ d \in Nat \ {0}
        /\ v >= min => 0 * d <= share
        /\ v <= max => share <= 100 * d
        /\ v <= min => share <= 0 * d
        /\ v >= max => 100 * d <= share
        /\ 0 \in Int /\ 100 \in Int /\ v + 1 \in Int
    OBVIOUS
  <1>2. p \in Int /\ Nearest(p, share, d) BY PercentType, Zenon
  <1>3. ASSUME NEW next \in currentPercent(v + 1, min, max)
        PROVE next \in Int /\ Nearest(next, more, d)
    BY <1>1, PercentType, Zenon
  <1> HIDE DEF share, more, d
  <1>4. v >= min => 0 <= p BY <1>1, <1>2, NearestAbove
  <1>5. v >= max => 100 <= p BY <1>1, <1>2, NearestAbove
  <1>6. v <= min => p <= 0 BY <1>1, <1>2, NearestBelow
  <1>7. v <= max => p <= 100 BY <1>1, <1>2, NearestBelow
  <1>8. \A next \in currentPercent(v + 1, min, max) : p <= next
    BY <1>1, <1>2, <1>3, NearestMono, Zenon
  <1> QED BY <1>2, <1>4, <1>5, <1>6, <1>7, <1>8

-----------------------------------------------------------------------------
(* ProgressiveBlur.                                                        *)

\* The number of layers and their side are ones that were asked for.
LayersInv ==
    /\ {"levels", "position"} \subseteq DOMAIN ui
    /\ ui.levels \in BlurLevels /\ ui.position \in Positions

\* They are from the start.
LEMMA LayersInit0 == BlurLayersInit => LayersInv
  BY DEF BlurLayersInit, LayersInv, BlurLevels, Positions

\* So are new ones.
LEMMA LayersKept ==
    ASSUME LayersInv,
           \/ \E n \in BlurLevels, position \in Positions : BlurLayersProps(n, position)
           \/ ui' = [ui EXCEPT !.mounted = FALSE]
    PROVE LayersInv'
  BY Zenon DEF LayersInv, BlurLayersProps, Becomes

\* The masks follow each other in the order of the layers, and those of eight
\* layers leave no gap; at both sides they are one mask.
LEMMA LayersFit ==
    ASSUME NEW levels \in BlurLevels, NEW position \in Positions
    PROVE LET mask == maskGradient(levels, position) IN
          /\ \A j, k \in DOMAIN mask : j < k =>
               IF position = "both" THEN mask[j] = mask[k]
               ELSE \A x \in mask[j], y \in mask[k] : x < y
          /\ levels = 8 /\ position # "both"
               => UNION {mask[k] : k \in DOMAIN mask} = 2 .. 8
  <1> DEFINE mask == maskGradient(levels, position)
  <1>1. /\ levels \in Int /\ DOMAIN mask = 0 .. levels - 1
        /\ \A k \in 0 .. levels - 1 :
             mask[k] = IF position = "both" THEN 2 .. 7
                       ELSE IF k = 0 THEN {2} ELSE IF k < levels - 1 THEN {k + 2} ELSE {}
    BY DEF maskGradient, BlurLevels
  <1> HIDE DEF mask
  <1>2. ASSUME position # "both", NEW j \in DOMAIN mask, NEW k \in DOMAIN mask, j < k,
               NEW x \in mask[j], NEW y \in mask[k]
        PROVE x < y
    <2>1. j \in Nat /\ k \in Nat /\ k # 0 BY <1>1, <1>2
    <2>2. y = k + 2 /\ x = j + 2 BY <1>1, <1>2, <2>1
    <2> QED BY <1>2, <2>1, <2>2
  <1>3. ASSUME levels = 8, position # "both"
        PROVE  UNION {mask[k] : k \in DOMAIN mask} = 2 .. 8
    <2>1. ASSUME NEW x \in UNION {mask[k] : k \in DOMAIN mask} PROVE x \in 2 .. 8
      <3>1. PICK k \in 0 .. levels - 1 : x \in mask[k] BY <1>1
      <3> QED BY <1>1, <1>3, <3>1
    <2>2. ASSUME NEW x \in 2 .. 8 PROVE x \in UNION {mask[k] : k \in DOMAIN mask}
      <3>1. x - 2 \in 0 .. levels - 1 BY <1>3
      <3>2. x \in mask[x - 2] BY <1>1, <1>3, <3>1
      <3> QED BY <1>1, <3>1, <3>2
    <2> QED BY <2>1, <2>2
  <1>4. ASSUME position = "both", NEW j \in DOMAIN mask, NEW k \in DOMAIN mask
        PROVE  mask[j] = mask[k]
    BY <1>1, <1>4, Zenon
  <1> QED BY <1>2, <1>3, <1>4, Zenon DEF mask

\* What the property of the run says of these two components.
LEMMA OrnamentsHold ==
    ASSUME widget = "gauge" => GaugeInv, widget = "layers" => LayersInv
    PROVE OrnamentsFit
  <1>1. ASSUME On("gauge")
        PROVE  LET arcs == Arcs(ui.percent) IN
               /\ ui.value >= ui.min => ui.percent >= 0
               /\ ui.value <= ui.max => ui.percent <= 100
               /\ ui.value <= ui.min => ui.percent <= 0
               /\ ui.value >= ui.max => ui.percent >= 100
               /\ \A next \in currentPercent(ui.value + 1, ui.min, ui.max) : ui.percent <= next
               /\ \A second \in arcs.secondary :
                    arcs.primary >= 0 /\ second >= 0 /\ arcs.primary + second + 10 = 100
    <2>1. /\ ui.min \in Int /\ ui.max \in Int /\ ui.min < ui.max /\ ui.value \in Int
          /\ ui.percent \in currentPercent(ui.value, ui.min, ui.max)
      BY <1>1, Zenon DEF On, GaugeInv
    <2>2. /\ ui.percent \in Int
          /\ ui.value >= ui.min => ui.percent >= 0
          /\ ui.value <= ui.max => ui.percent <= 100
          /\ ui.value <= ui.min => ui.percent <= 0
          /\ ui.value >= ui.max => ui.percent >= 100
          /\ \A next \in currentPercent(ui.value + 1, ui.min, ui.max) : ui.percent <= next
      BY <2>1, Percent
    <2> DEFINE p == ui.percent
    <2> HIDE DEF p
    <2>3. p \in Int BY <2>2 DEF p
    <2>4. \A second \in Arcs(p).secondary :
            Arcs(p).primary >= 0 /\ second >= 0 /\ Arcs(p).primary + second + 10 = 100
      BY <2>3 DEF Arcs
    <2> QED BY <2>2, <2>4, Zenon DEF p
  <1>2. ASSUME On("layers")
        PROVE LET mask == maskGradient(ui.levels, ui.position) IN
              /\ \A j, k \in DOMAIN mask : j < k =>
                   IF ui.position = "both" THEN mask[j] = mask[k]
                   ELSE \A x \in mask[j], y \in mask[k] : x < y
              /\ ui.levels = 8 /\ ui.position # "both"
                   => UNION {mask[k] : k \in DOMAIN mask} = 2 .. 8
    <2>1. ui.levels \in BlurLevels /\ ui.position \in Positions
      BY <1>2 DEF On, LayersInv
    <2> QED BY <2>1, LayersFit, Zenon
  <1> QED BY <1>1, <1>2, Zenon DEF OrnamentsFit

\* What the property of the run says of the beams, the dots and the squares.
LEMMA DrawingsHold ==
    ASSUME widget = "beam" => BeamInv, widget = "dots" => DotInv,
           widget = "grid" => GridInv
    PROVE DrawingFits
  <1>1. On("grid") =>
         /\ ~ui.due /\ ui.dimensions # 0 =>
              \A i \in DOMAIN ui.squares :
                 ui.squares[i].pos \in GridPositions(ui.dimensions)
         /\ ui.still \subseteq ui.raced
    BY DEF On, GridInv
  <1>2. On("beam") => BeamInv BY DEF On
  <1>3. On("dots") => DotInv BY DEF On
  <1> QED BY <1>1, <1>2, <1>3, BeamHolds, DotHolds, Zenon DEF DrawingFits

-----------------------------------------------------------------------------
(* The gradient of DiaTextReveal.                                          *)

\* The stops of a gradient.
Stops == [kind : {"text", "color", "transparent"}, percent : Int]

\* A stop of a kind at a percentage.
Stop(k, v) == [kind |-> k, percent |-> v]

\* What one entry of the gradient is.
LEMMA StopType ==
    \A v \in Int : \A k \in {"text", "color", "transparent"} :
        Stop(k, v) \in Stops /\ Stop(k, v).kind = k /\ Stop(k, v).percent = v
  BY Zenon DEF Stops, Stop

\* The elements of two sequences one after the other.
LEMMA Joined ==
    ASSUME NEW S, NEW s \in Seq(S), NEW t \in Seq(S)
    PROVE /\ s \o t \in Seq(S) /\ Len(s \o t) = Len(s) + Len(t)
          /\ \A i \in 1 .. Len(s) : (s \o t)[i] = s[i]
          /\ \A i \in Len(s) + 1 .. Len(s) + Len(t) : (s \o t)[i] = t[i - Len(s)]
  OBVIOUS

\* Where the stops begin with two of a kind, the second one beyond the point.
LEMMA ShowsFirst ==
    ASSUME NEW m \in Nat, m >= 2, NEW stops \in [1 .. m -> Stops], Len(stops) = m,
           NEW x \in Int, stops[1].percent <= x,
           \A i \in 2 .. m : stops[i].percent > x,
           stops[2].kind = stops[1].kind
    PROVE Shows(stops, x) = {stops[1].kind}
  <1> DEFINE near == {i \in DOMAIN stops :
                        \/ stops[i].percent <= x /\ \A j \in i + 1 .. Len(stops) :
                                                       stops[j].percent > x
                        \/ stops[i].percent >= x /\ \A j \in 1 .. i - 1 :
                                                       stops[j].percent < x}
  <1>1. DOMAIN stops = 1 .. m /\ \A i \in 1 .. m : stops[i].percent \in Int
    BY DEF Stops
  <1>2. 1 \in near
    <2>1. 1 \in DOMAIN stops /\ stops[1].percent <= x BY <1>1
    <2>2. \A j \in 1 + 1 .. Len(stops) : stops[j].percent > x OBVIOUS
    <2> QED BY <2>1, <2>2
  <1>3. ASSUME NEW i \in near PROVE i \in {1, 2}
    <2>1. i \in 1 .. m BY <1>1
    <2>2. CASE stops[i].percent <= x
      <3>1. ~(i \in 2 .. m) BY <1>1, <2>1, <2>2
      <3> QED BY <2>1, <3>1
    <2>3. CASE ~(stops[i].percent <= x)
      <3>1. \A j \in 1 .. i - 1 : stops[j].percent < x BY <2>3
      <3>2. ~(2 \in 1 .. i - 1) BY <1>1, <3>1
      <3> QED BY <2>1, <3>2
    <2> QED BY <2>2, <2>3
  <1>4. Shows(stops, x) = {stops[i].kind : i \in near} BY DEF Shows
  <1> HIDE DEF near
  <1> QED BY <1>2, <1>3, <1>4

\* Where they end with two of a kind, the first one before the point.
LEMMA ShowsLast ==
    ASSUME NEW m \in Nat, m >= 2, NEW stops \in [1 .. m -> Stops], Len(stops) = m,
           NEW x \in Int, stops[m].percent >= x,
           \A i \in 1 .. m - 1 : stops[i].percent < x,
           stops[m - 1].kind = stops[m].kind
    PROVE Shows(stops, x) = {stops[m].kind}
  <1> DEFINE near == {i \in DOMAIN stops :
                        \/ stops[i].percent <= x /\ \A j \in i + 1 .. Len(stops) :
                                                       stops[j].percent > x
                        \/ stops[i].percent >= x /\ \A j \in 1 .. i - 1 :
                                                       stops[j].percent < x}
  <1>1. DOMAIN stops = 1 .. m /\ \A i \in 1 .. m : stops[i].percent \in Int
    BY DEF Stops
  <1>2. m \in near
    <2>1. m \in DOMAIN stops /\ stops[m].percent >= x BY <1>1
    <2> QED BY <2>1
  <1>3. ASSUME NEW i \in near PROVE i \in {m - 1, m}
    <2>1. i \in 1 .. m BY <1>1
    <2>2. CASE stops[i].percent >= x
      <3>1. ~(i \in 1 .. m - 1) BY <1>1, <2>1, <2>2
      <3> QED BY <2>1, <3>1
    <2>3. CASE ~(stops[i].percent >= x)
      <3>1. \A j \in i + 1 .. Len(stops) : stops[j].percent > x BY <2>3
      <3>2. ~(m - 1 \in i + 1 .. m) BY <1>1, <3>1
      <3> QED BY <2>1, <3>2
    <2> QED BY <2>2, <2>3
  <1>4. Shows(stops, x) = {stops[i].kind : i \in near} BY DEF Shows
  <1> HIDE DEF near
  <1> QED BY <1>2, <1>3, <1>4

\* A gradient of two stops of text at the two ends, once the band has left.
LEMMA AllText ==
    \A x \in 0 .. 100 :
        Shows(<<Stop("text", 0), Stop("text", 100)>>, x) = {"text"}
  <1> SUFFICES ASSUME NEW x \in 0 .. 100
               PROVE Shows(<<Stop("text", 0), Stop("text", 100)>>, x) = {"text"}
      BY Zenon
  <1> DEFINE stops == <<Stop("text", 0), Stop("text", 100)>>
  <1>1. /\ stops \in [1 .. 2 -> Stops] /\ Len(stops) = 2
        /\ stops[1].percent = 0 /\ stops[2].percent = 100
        /\ stops[1].kind = "text" /\ stops[2].kind = "text"
    BY StopType
  <1> HIDE DEF stops
  <1>m. PICK m \in Nat : m = 2 OBVIOUS
  <1>t. stops \in [1 .. m -> Stops] /\ Len(stops) = m /\ m >= 2 /\ x \in Int BY <1>1, <1>m
  <1>2. CASE x < 100
    <2>2. \A i \in 2 .. m : stops[i].percent > x BY <1>1, <1>2, <1>m
    <2>3. stops[1].percent <= x /\ stops[2].kind = stops[1].kind BY <1>1
    <2>1. Shows(stops, x) = {stops[1].kind} BY <1>t, <2>2, <2>3, ShowsFirst
    <2> QED BY <1>1, <2>1 DEF stops
  <1>3. CASE x = 100
    <2>2. \A i \in 1 .. m - 1 : stops[i].percent < x BY <1>1, <1>3, <1>m
    <2>3. stops[m].percent >= x /\ stops[m - 1].kind = stops[m].kind BY <1>1, <1>3, <1>m
    <2>1. Shows(stops, x) = {stops[m].kind} BY <1>t, <2>2, <2>3, ShowsLast
    <2> QED BY <1>1, <1>m, <2>1 DEF stops
  <1> QED BY <1>2, <1>3

\* Where a colour of the band stands, and the band.
BandAt(pos, n, i) ==
    IF n = 1 THEN pos
    ELSE pos - BandHalf + ((i - 1) * 2 * BandHalf) \div (n - 1)

\* The stops of the band.
TheBand(pos, n) == [i \in 1 .. n |-> Stop("color", BandAt(pos, n, i))]

\* The colours stand between the two sides.
LEMMA BandInside ==
    ASSUME NEW pos \in Int, NEW n \in {1, 2, 5}
    PROVE /\ TheBand(pos, n) \in Seq(Stops) /\ Len(TheBand(pos, n)) = n
          /\ \A i \in 1 .. n : TheBand(pos, n)[i].percent \in pos - BandHalf .. pos + BandHalf
  <1> DEFINE at(i) == BandAt(pos, n, i)
             band == TheBand(pos, n)
  <1>1. \A i \in 1 .. n : at(i) \in Int /\ at(i) \in pos - BandHalf .. pos + BandHalf
    <2>1. CASE n = 1 BY <2>1 DEF BandHalf, BandAt
    <2>2. CASE n = 2
      <3> SUFFICES ASSUME NEW i \in 1 .. 2
                   PROVE at(i) \in Int /\ at(i) \in pos - BandHalf .. pos + BandHalf
          BY <2>2
      <3>1. i = 1 \/ i = 2 OBVIOUS
      <3> QED BY <2>2, <3>1 DEF BandHalf, BandAt
    <2>3. CASE n = 5
      <3> SUFFICES ASSUME NEW i \in 1 .. 5
                   PROVE at(i) \in Int /\ at(i) \in pos - BandHalf .. pos + BandHalf
          BY <2>3
      <3>1. i \in {1, 2, 3, 4, 5} OBVIOUS
      <3> QED BY <2>3, <3>1 DEF BandHalf, BandAt
    <2> QED BY <2>1, <2>2, <2>3
  <1>2. band = [i \in 1 .. n |-> Stop("color", at(i))] BY DEF TheBand
  <1> HIDE DEF at, band
  <1>3. \A i \in 1 .. n : band[i] \in Stops /\ band[i].percent = at(i)
    BY <1>1, <1>2, StopType
  <1>4. n \in Nat OBVIOUS
  <1>5. DOMAIN band = 1 .. n /\ band \in [1 .. n -> Stops] BY <1>2, <1>3
  <1>6. band \in Seq(Stops) /\ Len(band) = n BY <1>4, <1>5
  <1>7. \A i \in 1 .. n : band[i].percent \in pos - BandHalf .. pos + BandHalf BY <1>1, <1>3
  <1> QED BY <1>6, <1>7 DEF band

\* The sides of the gradient while the band is in the picture: the first two stops
\* of one that has text before the band, the last two of one that is transparent
\* after it.
HasSides(stops, m, from, to) ==
    /\ m \in Nat /\ m >= 1 /\ stops \in [1 .. m -> Stops]
    /\ from > 0 => /\ m >= 2
                   /\ stops[1] = Stop("text", 0)
                   /\ stops[2] = Stop("text", from)
                   /\ \A i \in 2 .. m : stops[i].percent >= from
    /\ to < 100 => /\ m >= 2
                   /\ stops[m - 1] = Stop("transparent", to)
                   /\ stops[m] = Stop("transparent", 100)
                   /\ \A i \in 1 .. m - 1 : stops[i].percent <= to

\* buildGradient has these sides, of one colour, two or five.
LEMMA Sides ==
    ASSUME NEW pos \in Int, NEW n \in {1, 2, 5}, pos - BandHalf < 100,
           NEW stops, stops = buildGradient(pos, n)
    PROVE HasSides(stops, Len(stops), pos - BandHalf, pos + BandHalf)
  <1> DEFINE from == pos - BandHalf
             to == pos + BandHalf
             band == TheBand(pos, n)
             t0 == Stop("text", 0)
             t1 == Stop("text", from)
             r0 == Stop("transparent", to)
             r1 == Stop("transparent", 100)
             A == IF from > 0 THEN <<t0, t1>> ELSE << >>
             B == IF to < 100 THEN <<r0, r1>> ELSE << >>
             m == Len(stops)
  <1>1. /\ band \in Seq(Stops) /\ Len(band) = n
        /\ \A i \in 1 .. n : band[i].percent \in from .. to
    BY BandInside, Zenon
  <1>0. from \in Int /\ to \in Int /\ from < to /\ from < 100 /\ ~(from >= 100) /\ n \in Nat
    BY DEF BandHalf
  <1>2. stops = (A \o band) \o B
    BY <1>0, Zenon DEF buildGradient, TheBand, BandAt, Stop
  <1>4. /\ t0 \in Stops /\ t0.percent = 0
        /\ t1 \in Stops /\ t1.percent = from
        /\ r0 \in Stops /\ r0.percent = to
        /\ r1 \in Stops /\ r1.percent = 100
    <2> HIDE DEF from, to
    <2> QED BY <1>0, StopType
  <1> HIDE DEF t0, t1, r0, r1, from, to, band
  <1>5. A \in Seq(Stops) /\ B \in Seq(Stops) BY <1>4
  <1>6. /\ (from > 0 => Len(A) = 2 /\ A[1] = t0 /\ A[2] = t1)
        /\ (~(from > 0) => Len(A) = 0)
        /\ (to < 100 => Len(B) = 2 /\ B[1] = r0 /\ B[2] = r1)
        /\ (~(to < 100) => Len(B) = 0)
    OBVIOUS
  <1> HIDE DEF A, B
  <1>a. Len(A) \in Nat /\ Len(B) \in Nat BY <1>5
  <1>b. PICK a \in Nat, b \in Nat : a = Len(A) /\ b = Len(B) BY <1>a
  <1>7. /\ stops \in Seq(Stops) /\ m = a + n + b
        /\ \A i \in 1 .. a : stops[i] = A[i]
        /\ \A i \in a + 1 .. a + n : stops[i] = band[i - a]
        /\ \A i \in a + n + 1 .. a + n + b : stops[i] = B[i - (a + n)]
    <2> DEFINE C == A \o band
    <2>1. /\ C \in Seq(Stops) /\ Len(C) = a + n
          /\ \A i \in 1 .. a : C[i] = A[i]
          /\ \A i \in a + 1 .. a + n : C[i] = band[i - a]
      BY <1>1, <1>5, <1>b, Joined
    <2>3. stops = C \o B BY <1>2
    <2> HIDE DEF C
    <2>2. /\ C \o B \in Seq(Stops) /\ Len(C \o B) = Len(C) + Len(B)
          /\ \A i \in 1 .. Len(C) : (C \o B)[i] = C[i]
          /\ \A i \in Len(C) + 1 .. Len(C) + Len(B) : (C \o B)[i] = B[i - Len(C)]
      BY <1>5, <2>1, Joined, Zenon
    <2>4. /\ stops \in Seq(Stops) /\ Len(stops) = a + n + b
          /\ \A i \in 1 .. a + n : stops[i] = C[i]
          /\ \A i \in a + n + 1 .. a + n + b : stops[i] = B[i - (a + n)]
      BY <1>b, <2>1, <2>2, <2>3, Zenon
    <2>5. (1 .. a) \subseteq 1 .. a + n /\ (a + 1 .. a + n) \subseteq 1 .. a + n
      BY <1>0
    <2> QED BY <2>1, <2>4, <2>5
  <1>8. m \in Nat /\ m >= 1 /\ stops \in [1 .. m -> Stops]
    <2>1. n >= 1 OBVIOUS
    <2>2. m \in Nat /\ m >= 1 BY <1>0, <1>7, <2>1
    <2>3. stops \in [1 .. m -> Stops] BY <1>7
    <2> QED BY <2>2, <2>3
  <1> HIDE DEF m
  <1>9. from > 0 => /\ m >= 2 /\ stops[1] = t0 /\ stops[2] = t1
                    /\ \A i \in 2 .. m : stops[i].percent >= from
    <2> SUFFICES ASSUME from > 0 PROVE /\ m >= 2 /\ stops[1] = t0 /\ stops[2] = t1
                                       /\ \A i \in 2 .. m : stops[i].percent >= from
        OBVIOUS
    <2>1. a = 2 /\ A[1] = t0 /\ A[2] = t1 BY <1>6, <1>b
    <2>2. m >= 2 /\ stops[1] = t0 /\ stops[2] = t1 BY <1>0, <1>7, <2>1
    <2>3. ASSUME NEW i \in 2 .. m PROVE stops[i].percent >= from
      <3>1. CASE i = 2 BY <1>0, <1>4, <2>2, <3>1
      <3>2. CASE i \in 3 .. 2 + n
        <4>0. i \in a + 1 .. a + n BY <2>1, <3>2
        <4>1. stops[i] = band[i - a] /\ i - a \in 1 .. n BY <1>0, <1>7, <4>0
        <4> QED BY <1>0, <1>1, <4>1
      <3>3. CASE i \in 2 + n + 1 .. m
        <4>1. stops[i] = B[i - (2 + n)] /\ i - (2 + n) \in 1 .. b
          BY <1>0, <1>7, <2>1, <3>3
        <4>2. to < 100 /\ b = 2 BY <1>6, <1>b, <4>1
        <4>3. i - (2 + n) = 1 \/ i - (2 + n) = 2 BY <4>1, <4>2
        <4>4. B[1].percent >= from /\ B[2].percent >= from BY <1>0, <1>4, <1>6, <4>2
        <4> QED BY <4>1, <4>3, <4>4
      <3> QED BY <1>0, <1>7, <3>1, <3>2, <3>3
    <2> QED BY <2>2, <2>3
  <1>10. to < 100 => /\ m >= 2 /\ stops[m - 1] = r0 /\ stops[m] = r1
                     /\ \A i \in 1 .. m - 1 : stops[i].percent <= to
    <2> SUFFICES ASSUME to < 100 PROVE /\ m >= 2 /\ stops[m - 1] = r0 /\ stops[m] = r1
                                       /\ \A i \in 1 .. m - 1 : stops[i].percent <= to
        OBVIOUS
    <2>1. b = 2 /\ B[1] = r0 /\ B[2] = r1 BY <1>6, <1>b
    <2>2. m = a + n + 2 BY <1>7, <2>1
    <2>3. /\ m - 1 \in a + n + 1 .. a + n + b /\ (m - 1) - (a + n) = 1
          /\ m \in a + n + 1 .. a + n + b /\ m - (a + n) = 2
      BY <1>0, <2>1, <2>2
    <2>4. m >= 2 /\ stops[m - 1] = r0 /\ stops[m] = r1 BY <1>0, <1>7, <2>1, <2>2, <2>3
    <2>5. ASSUME NEW i \in 1 .. m - 1 PROVE stops[i].percent <= to
      <3>1. CASE i = m - 1 BY <1>0, <1>4, <2>4, <3>1
      <3>2. CASE i \in a + 1 .. a + n
        <4>1. stops[i] = band[i - a] /\ i - a \in 1 .. n BY <1>0, <1>7, <3>2
        <4> QED BY <1>0, <1>1, <4>1
      <3>3. CASE i \in 1 .. a
        <4>1. from > 0 /\ a = 2 BY <1>6, <1>b, <3>3
        <4>2. i = 1 \/ i = 2 BY <3>3, <4>1
        <4>3. A[1].percent <= to /\ A[2].percent <= to BY <1>0, <1>4, <1>6, <4>1
        <4> QED BY <1>7, <3>3, <4>2, <4>3
      <3> QED BY <1>0, <2>2, <3>1, <3>2, <3>3
    <2> QED BY <2>4, <2>5
  <1> QED BY <1>8, <1>9, <1>10 DEF from, to, t0, t1, r0, r1, m, HasSides

\* Before the band the text has its colour, after it it is transparent.
LEMMA BandDivides ==
    ASSUME NEW pos \in Int, NEW n \in {1, 2, 5}, NEW x \in Int,
           pos - BandHalf <= 100
    PROVE /\ x \in 0 .. pos - BandHalf - 1 => Shows(buildGradient(pos, n), x) = {"text"}
          /\ x \in pos + BandHalf + 1 .. 100
               => Shows(buildGradient(pos, n), x) = {"transparent"}
  <1> DEFINE from == pos - BandHalf
             to == pos + BandHalf
             stops == buildGradient(pos, n)
             m == Len(stops)
  <1>0. from \in Int /\ to \in Int /\ from < to BY DEF BandHalf
  <1>1. CASE from < 100
    <2> HIDE DEF stops
    <2>0. /\ m \in Nat /\ m >= 1 /\ stops \in [1 .. m -> Stops]
          /\ from > 0 => /\ m >= 2 /\ stops[1] = Stop("text", 0)
                         /\ stops[2] = Stop("text", from)
                         /\ \A i \in 2 .. m : stops[i].percent >= from
          /\ to < 100 => /\ m >= 2 /\ stops[m - 1] = Stop("transparent", to)
                         /\ stops[m] = Stop("transparent", 100)
                         /\ \A i \in 1 .. m - 1 : stops[i].percent <= to
      <3>1. HasSides(stops, m, from, to) BY <1>1, Sides DEF stops
      <3> HIDE DEF from, to, m
      <3> QED BY <3>1 DEF HasSides
    <2>1. ASSUME x \in 0 .. from - 1 PROVE Shows(stops, x) = {"text"}
      <3> HIDE DEF from, to, m
      <3>1. from > 0 BY <1>0, <2>1
      <3>2. stops[1].kind = "text" /\ stops[2].kind = "text" /\ stops[1].percent = 0
        BY <1>0, <2>0, <3>1, StopType
      <3>3. \A i \in 2 .. m : stops[i].percent > x
        <4> SUFFICES ASSUME NEW i \in 2 .. m PROVE stops[i].percent > x OBVIOUS
        <4>1. stops[i].percent >= from /\ stops[i].percent \in Int
          BY <2>0, <3>1 DEF Stops
        <4> QED BY <1>0, <2>1, <4>1
      <3>4. stops[1].percent <= x BY <2>1, <3>2
      <3> QED BY <2>0, <3>1, <3>2, <3>3, <3>4, ShowsFirst DEF m
    <2>2. ASSUME x \in to + 1 .. 100 PROVE Shows(stops, x) = {"transparent"}
      <3> HIDE DEF from, to, m
      <3>1. to < 100 BY <1>0, <2>2
      <3>2. /\ stops[m].kind = "transparent" /\ stops[m - 1].kind = "transparent"
            /\ stops[m].percent = 100
        BY <1>0, <2>0, <3>1, StopType
      <3>3. \A i \in 1 .. m - 1 : stops[i].percent < x
        <4> SUFFICES ASSUME NEW i \in 1 .. m - 1 PROVE stops[i].percent < x OBVIOUS
        <4>1. stops[i].percent <= to /\ stops[i].percent \in Int
          BY <2>0, <3>1 DEF Stops
        <4> QED BY <1>0, <2>2, <4>1
      <3>4. stops[m].percent >= x BY <2>2, <3>2
      <3>5. m \in Nat /\ m >= 2 /\ stops \in [1 .. m -> Stops] /\ Len(stops) = m
        BY <2>0, <3>1 DEF m
      <3>6. stops[m - 1].kind = stops[m].kind BY <3>2
      <3>7. Shows(stops, x) = {stops[m].kind}
        BY <3>3, <3>4, <3>5, <3>6, ShowsLast
      <3> QED BY <3>2, <3>7
    <2> QED BY <2>1, <2>2 DEF stops
  <1>2. CASE ~(from < 100)
    <2>1. from >= 100 BY <1>0, <1>2
    <2>2. stops = <<Stop("text", 0), Stop("text", 100)>>
      BY <2>1, Zenon DEF buildGradient, Stop
    <2>3. ~(x \in to + 1 .. 100) BY <1>0, <2>1
    <2> HIDE DEF stops
    <2>4. x \in 0 .. 100 => Shows(stops, x) = {"text"} BY <2>2, AllText, Zenon
    <2>5. x \in 0 .. from - 1 => x \in 0 .. 100 BY <1>0
    <2> QED BY <2>3, <2>4, <2>5 DEF stops
  <1> QED BY <1>1, <1>2

\* The dia part of TextInOrder: a static fact of buildGradient.
LEMMA SweepInOrder ==
    /\ \A n \in {1, 2, 5}, pos \in SweepStart .. SweepEnd :
          LET stops == buildGradient(pos, n) IN
          \A x \in {0, 50, 100, pos - BandHalf - 1} :
             x \in 0 .. pos - BandHalf - 1 => Shows(stops, x) = {"text"}
    /\ \A x \in 0 .. 100 : Shows(buildGradient(SweepEnd, 5), x) = {"text"}
  <1>1. ASSUME NEW n \in {1, 2, 5}, NEW pos \in SweepStart .. SweepEnd,
               NEW x \in {0, 50, 100, pos - BandHalf - 1}
        PROVE x \in 0 .. pos - BandHalf - 1 => Shows(buildGradient(pos, n), x) = {"text"}
    <2>1. pos \in Int /\ x \in Int /\ pos - BandHalf <= 100
      BY DEF SweepStart, SweepEnd, BandHalf
    <2> QED BY <2>1, BandDivides
  <1>2. buildGradient(SweepEnd, 5) = <<Stop("text", 0), Stop("text", 100)>>
    <2>1. SweepEnd - BandHalf >= 100 BY DEF SweepEnd, BandHalf
    <2> QED BY <2>1, Zenon DEF buildGradient, Stop
  <1>3. \A x \in 0 .. 100 : Shows(buildGradient(SweepEnd, 5), x) = {"text"}
    BY <1>2, AllText, Zenon
  <1> QED BY <1>1, <1>3

-----------------------------------------------------------------------------
(* What is drawn.                                                          *)

\* The invariants of what is drawn.
DrawInv ==
    /\ widget = "beam" => BeamInv
    /\ widget = "dots" => DotInv
    /\ widget = "grid" => GridInv
    /\ widget = "gauge" => GaugeInv
    /\ widget = "layers" => LayersInv

\* The components that draw.
DrawNames == {"beam", "dots", "grid", "gauge", "layers"}

\* They hold when the component is mounted.
LEMMA DrawBegins == ASSUME LayoutInit \/ OrnamentsInit PROVE DrawInv
  <1>1. CASE BeamInit
    <2>1. widget = "beam" BY <1>1 DEF BeamInit
    <2> QED BY <1>1, <2>1, BeamInit0 DEF DrawInv
  <1>2. CASE DotInit
    <2>1. widget = "dots" BY <1>2 DEF DotInit
    <2> QED BY <1>2, <2>1, DotInit0 DEF DrawInv
  <1>3. CASE GridInit
    <2>1. widget = "grid" BY <1>3 DEF GridInit
    <2> QED BY <1>3, <2>1, GridInit0 DEF DrawInv
  <1>4. CASE GaugeInit
    <2>1. widget = "gauge" BY <1>4 DEF GaugeInit
    <2> QED BY <1>4, <2>1, GaugeInit0 DEF DrawInv
  <1>5. CASE BlurLayersInit
    <2>1. widget = "layers" BY <1>5 DEF BlurLayersInit
    <2> QED BY <1>5, <2>1, LayersInit0 DEF DrawInv
  <1>6. CASE HighlighterInit \/ CardInit \/ HoverInit \/ GlareInit \/ BlurInit
    <2>1. widget \notin DrawNames
      BY <1>6, Zenon DEF HighlighterInit, CardInit, HoverInit, GlareInit, BlurInit, DrawNames
    <2> QED BY <2>1 DEF DrawInv, DrawNames
  <1> QED BY <1>1, <1>2, <1>3, <1>4, <1>5, <1>6 DEF LayoutInit, OrnamentsInit

\* The steps of each keep its own.
LEMMA DrawKept ==
    ASSUME DrawInv, LayoutNext \/ OrnamentsNext, UNCHANGED widget
    PROVE DrawInv'
  <1> DEFINE Goal == DrawInv'
  <1> HIDE DEF Goal
  <1>1. CASE BeamNext
    <2>1. widget = "beam" BY <1>1, Zenon DEF BeamNext, BeamLayout, BeamResize, BeamProps, On
    <2>2. BeamInv' BY <1>1, <2>1, BeamKept DEF DrawInv
    <2> QED BY <2>1, <2>2 DEF DrawInv, Goal
  <1>2. CASE DotNext
    <2>1. widget = "dots" BY <1>2, Zenon DEF DotNext, DotLayout, updateDimensions, On
    <2>2. DotInv' BY <1>2, <2>1, DotKept DEF DrawInv
    <2> QED BY <2>1, <2>2 DEF DrawInv, Goal
  <1>3. CASE GridNext
    <2>1. widget = "grid"
      BY <1>3, Zenon DEF GridNext, GridResize, GridSquares, GridMove, GridMoveLate, On
    <2>2. GridInv' BY <1>3, <2>1, GridKept DEF DrawInv
    <2> QED BY <2>1, <2>2 DEF DrawInv, Goal
  <1>4. CASE GaugeValue
    <2>1. widget = "gauge" BY <1>4, Zenon DEF GaugeValue, On
    <2>2. GaugeInv' BY <1>4, <2>1, GaugeKept DEF DrawInv
    <2> QED BY <2>1, <2>2 DEF DrawInv, Goal
  <1>5. CASE \E n \in BlurLevels, position \in Positions : BlurLayersProps(n, position)
    <2>1. widget = "layers" BY <1>5, Zenon DEF BlurLayersProps, On
    <2>2. LayersInv' BY <1>5, <2>1, LayersKept DEF DrawInv
    <2> QED BY <2>1, <2>2 DEF DrawInv, Goal
  <1>6. CASE \/ HighlighterInView \/ HighlighterStyle
             \/ CardEnter \/ handlePointerMove \/ CardLeave \/ CardGlobal
             \/ \E square \in 1 .. 2 : HoverEnter(square)
             \/ HoverLeave
             \/ GlareEnter \/ GlareLeave \/ GlareArrives
             \/ BlurInView \/ BlurShown
    <2>1. widget \in {"highlighter", "card", "hover", "glare", "blur"}
      BY <1>6, Zenon
         DEF HighlighterInView, HighlighterStyle, CardEnter, handlePointerMove, CardLeave,
             CardGlobal, HoverEnter, HoverLeave, GlareEnter, GlareLeave, GlareArrives,
             BlurInView, BlurShown, On
    <2>2. widget' \notin DrawNames BY <2>1 DEF DrawNames
    <2> QED BY <2>2 DEF DrawInv, DrawNames, Goal
  <1> QED BY <1>1, <1>2, <1>3, <1>4, <1>5, <1>6, Zenon
          DEF LayoutNext, OrnamentsNext, BeamNext, DotNext, GridNext, Goal

\* Being unmounted keeps them too.
LEMMA DrawGone ==
    ASSUME DrawInv, ui' = [ui EXCEPT !.mounted = FALSE], UNCHANGED widget
    PROVE DrawInv'
  <1>1. widget = "beam" => BeamInv' BY BeamGone DEF DrawInv
  <1>2. widget = "dots" => DotInv' BY DotGone DEF DrawInv
  <1>3. widget = "grid" => GridInv' BY GridGone DEF DrawInv
  <1>4. widget = "gauge" => GaugeInv' BY GaugeKept DEF DrawInv
  <1>5. widget = "layers" => LayersInv' BY LayersKept DEF DrawInv
  <1> QED BY <1>1, <1>2, <1>3, <1>4, <1>5 DEF DrawInv

\* So does a step that leaves the page as it is.
LEMMA DrawStays == ASSUME DrawInv, UNCHANGED <<widget, ui>> PROVE DrawInv'
  <1>1. widget = "beam" => BeamInv' BY Zenon DEF DrawInv, BeamInv
  <1>2. widget = "dots" => DotInv' BY Zenon DEF DrawInv, DotInv
  <1>3. widget = "grid" => GridInv' BY Zenon DEF DrawInv, GridInv
  <1>4. widget = "gauge" => GaugeInv' BY Zenon DEF DrawInv, GaugeInv
  <1>5. widget = "layers" => LayersInv' BY Zenon DEF DrawInv, LayersInv
  <1> QED BY <1>1, <1>2, <1>3, <1>4, <1>5, Zenon DEF DrawInv

\* What the invariant says of the drawings.
LEMMA DrawHolds == ASSUME DrawInv PROVE DrawingFits /\ OrnamentsFit
  <1>1. DrawingFits BY DrawingsHold DEF DrawInv
  <1>2. OrnamentsFit BY OrnamentsHold DEF DrawInv
  <1> QED BY <1>1, <1>2
=============================================================================
