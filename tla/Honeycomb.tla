------------------------------ MODULE Honeycomb ------------------------------
(***************************************************************************)
(* HexagonPattern: the tile that a pattern repeats.  Coordinates are exact *)
(* but for what edgeLexKey makes of the last digits of the doubles.        *)
(* Along one axis the unit is a quarter of the radius, along the other,    *)
(* where all distances are multiples of sqrt(3), a quarter of sqrt(3)      *)
(* radii: the radius is 4 on the first and 4 / sqrt(3) on the second, and  *)
(* a gap of sqrt(3) radii is 4.                                            *)
(***************************************************************************)
EXTENDS Page, Integers

\* The vertices in the order of their angles.
hexVertexList(c, direction) ==
    LET around ==
          IF direction = "horizontal"
          THEN <<<<4, 0>>, <<2, 2>>, <<-2, 2>>, <<-4, 0>>, <<-2, -2>>, <<2, -2>>>>
          ELSE <<<<2, 2>>, <<0, 4>>, <<-2, 2>>, <<-2, -2>>, <<0, -4>>, <<2, -2>>>>
    IN [i \in 1 .. 6 |-> <<c[1] + around[i][1], c[2] + around[i][2]>>]

\* Column and row step, and the size of the tile.
getHexSpacing(direction, gap) ==
    LET along == 6 + (3 * gap) \div 2
        across == 4 + gap
    IN IF direction = "horizontal"
       THEN [step |-> <<along, across>>, tile |-> <<2 * along, across>>]
       ELSE [step |-> <<across, along>>, tile |-> <<across, 2 * along>>]

\* A distance is less than the radius.
WithinRadius(direction, axis, d) ==
    IF (axis = 1) = (direction = "horizontal") THEN d < 4
    ELSE d < 0 \/ 3 * d * d < 16

\* The two hexagons of the tile, and the copies of them in the tiles around it
\* wherever they reach over a side or a corner.
getTileGeometry(direction, gap) ==
    LET tile == getHexSpacing(direction, gap).tile
        half == <<getHexSpacing(direction, gap).step[1] \div 2,
                  getHexSpacing(direction, gap).step[2] \div 2>>
        canonical == {half, IF direction = "horizontal"
                            THEN <<3 * half[1], 2 * half[2]>>
                            ELSE <<2 * half[1], 3 * half[2]>>}
        shifts(c, axis) ==
            {0} \cup {s \in {tile[axis]} : WithinRadius(direction, axis, c[axis])}
                \cup {s \in {-tile[axis]} :
                        WithinRadius(direction, axis, tile[axis] - c[axis])}
    IN UNION {{<<c[1] + dx, c[2] + dy>> : dx \in shifts(c, 1), dy \in shifts(c, 2)} :
                c \in canonical}

\* The ends of an edge in lexical order.  Mutant: as they come.
edgeAsDrawn(a, b, apart) == <<a, b>>

\* Equal coordinates decide the order, and a coordinate of zero may be printed
\* with a sign: the key of such an edge depends on the last digit of a double.
Doubtful(a, b) == a[1] = b[1] \/ 0 \in {a[1], a[2], b[1], b[2]}

\* apart: these digits differ where two hexagons meet, so that each of them has
\* its own key for a doubtful edge.
edgeLexKey(a, b, apart) ==
    IF apart /\ Doubtful(a, b) THEN <<a, b>>
    ELSE IF a[1] < b[1] \/ (a[1] = b[1] /\ a[2] <= b[2]) THEN <<a, b>>
    ELSE <<b, a>>

collectUniqueHexEdges(direction, gap, apart) ==
    UNION {LET v == hexVertexList(c, direction)
           IN {edgeLexKey(v[i], v[(i % 6) + 1], apart) : i \in 1 .. 6} :
             c \in getTileGeometry(direction, gap)}

\* The edges drawn in the tile: of whole hexagons if the stroke is solid, each
\* by itself if it is dashed.
DrawnEdges(direction, gap, solidStroke, apart) ==
    IF solidStroke
    THEN UNION {LET v == hexVertexList(c, direction)
                IN {<<v[i], v[(i % 6) + 1]>> : i \in 1 .. 6} :
                  c \in getTileGeometry(direction, gap)}
    ELSE collectUniqueHexEdges(direction, gap, apart)

\* The centre of a highlighted hexagon.
hexCenter(col, row, direction, gap) ==
    LET step == getHexSpacing(direction, gap).step
        odd(n, s) == IF n % 2 # 0 THEN s \div 2 ELSE 0
    IN IF direction = "horizontal"
       THEN <<col * step[1] + step[1] \div 2,
              row * step[2] + step[2] \div 2 + odd(col, step[2])>>
       ELSE <<col * step[1] + step[1] \div 2 + odd(row, step[1]),
              row * step[2] + step[2] \div 2>>

HoneycombInit ==
    /\ widget = "honeycomb" /\ pending = Nothing
    /\ ui \in [mounted : {TRUE}, direction : {"horizontal", "vertical"},
               gap : {0, 4}, solidStroke : BOOLEAN, apart : BOOLEAN]

\* Other props: everything is computed again.
HoneycombProps ==
    /\ On("honeycomb")
    /\ \E d \in {"horizontal", "vertical"}, g \in {0, 4}, solid, apart \in BOOLEAN :
          Becomes([ui EXCEPT !.direction = d, !.gap = g, !.solidStroke = solid,
                             !.apart = apart], pending)

\* Part of the edge, sampled in quarters, lies inside the tile.
InTile(tile, a, b) ==
    LET at(k, axis) == 4 * a[axis] + k * (b[axis] - a[axis])
    IN \E k \in 0 .. 4 : \A axis \in 1 .. 2 :
          at(k, axis) > 0 /\ at(k, axis) < 4 * tile[axis]

\* The repeated tile shows every edge of the honeycomb that the highlighted
\* hexagons are placed on, with and without a gap.  A dashed edge is drawn once,
\* unless its ends have the same x or one of them lies on an axis of the tile:
\* there edgeLexKey may give the two hexagons of the edge two keys.
TileSeamless ==
    On("honeycomb") =>
      LET edges == DrawnEdges(ui.direction, ui.gap, ui.solidStroke, ui.apart)
          tile == getHexSpacing(ui.direction, ui.gap).tile
      IN /\ ~ui.solidStroke =>
              \A e \in edges : <<e[2], e[1]>> \in edges => Doubtful(e[1], e[2])
         /\ \A col \in -2 .. 3, row \in -2 .. 3, i \in 1 .. 6 :
              LET v == hexVertexList(hexCenter(col, row, ui.direction, ui.gap),
                                     ui.direction)
                  a == v[i]
                  b == v[(i % 6) + 1]
              IN InTile(tile, a, b) => <<a, b>> \in edges \/ <<b, a>> \in edges
=============================================================================
