------------------------------ MODULE Ornaments ------------------------------
(***************************************************************************)
(* Components whose drawing is computed from their props:                  *)
(* AnimatedCircularProgressBar and ProgressiveBlur.                        *)
(***************************************************************************)
EXTENDS Page, Integers

CONSTANT Ranges     \* pairs of the props min and max

ASSUME RangesAssumption == \A r \in Ranges : r \in Int \X Int /\ r[1] < r[2]

-----------------------------------------------------------------------------
(* AnimatedCircularProgressBar: two arcs of a circle, in percent of it.    *)

\* p is a percent next to share / d, for d above 0.
Nearest(p, share, d) == -d <= 2 * (share - p * d) /\ 2 * (share - p * d) <= d

\* Math.round of 100 * (value - min) / (max - min).  Halfway between two
\* percents the rounding of the quotient decides.
currentPercent(value, min, max) ==
    LET share == 100 * (value - min)
        below == share \div (max - min)
    IN {p \in {below, below + 1} : Nearest(p, share, max - min)}

\* The arc of the progress, from the top, and the length of the other, which
\* is drawn the other way from 5 percent before the top.
Arcs(percent) ==
    [primary |-> percent,
     secondary |-> IF percent <= 90 /\ percent >= 0 THEN {90 - percent} ELSE {}]

\* A value is not held within the range.
Gauges(min, max) ==
    UNION {[mounted : {TRUE}, min : {min}, max : {max}, value : {v},
            percent : currentPercent(v, min, max)] :
             v \in 2 * min - max .. 2 * max - min}

GaugeInit ==
    /\ widget = "gauge" /\ pending = Nothing
    /\ \E r \in Ranges : ui \in Gauges(r[1], r[2])

GaugeValue ==
    /\ On("gauge")
    /\ \E new \in Gauges(ui.min, ui.max) : Becomes(new, pending)

-----------------------------------------------------------------------------
(* ProgressiveBlur: layers with more and more blur, each masked to a part  *)
(* of the height, which is in eighths from the side without blur.          *)

\* The eighths a layer blurs in full.  Mutant: the mask of a middle layer is
\* that of the layer before it.
maskFromIndex(levels, position) ==
    [k \in 0 .. levels - 1 |->
       IF position = "both" THEN 2 .. 7
       ELSE IF k = 0 THEN {2} ELSE IF k < levels - 1 THEN {k + 1} ELSE {}]

\* The first layer, the middle ones, and the last one, which only fades in.
\* At both sides every layer has the mask from 5% to 95%.
maskGradient(levels, position) ==
    [k \in 0 .. levels - 1 |->
       IF position = "both" THEN 2 .. 7
       ELSE IF k = 0 THEN {2} ELSE IF k < levels - 1 THEN {k + 2} ELSE {}]

Positions == {"top", "bottom", "both"}

\* Array(blurLevels.length - 2) needs two levels.
BlurLevels == 2 .. 10

BlurLayersInit ==
    /\ widget = "layers" /\ pending = Nothing
    /\ ui \in [mounted : {TRUE}, levels : {8}, position : {"bottom"}]

BlurLayersProps(n, position) ==
    On("layers") /\ Becomes([ui EXCEPT !.levels = n, !.position = position], pending)

-----------------------------------------------------------------------------

OrnamentsInit == GaugeInit \/ BlurLayersInit

OrnamentsNext ==
    \/ GaugeValue
    \/ \E n \in BlurLevels, position \in Positions : BlurLayersProps(n, position)

\* What is computed from the props fits together.  The gauge shows 0 to 100
\* percent for a value in the range, more or less than that only outside of it,
\* and never less for a larger value; whenever it has two arcs they leave room
\* for two gaps and do not overlap, also for a value outside.  The blur grows
\* towards the side, without a gap for the eight levels that the masks are made
\* for.  At both sides it does not grow: there the layers lie on each other.
OrnamentsFit ==
    /\ On("gauge") =>
         LET arcs == Arcs(ui.percent) IN
         /\ ui.value >= ui.min => ui.percent >= 0
         /\ ui.value <= ui.max => ui.percent <= 100
         /\ ui.value <= ui.min => ui.percent <= 0
         /\ ui.value >= ui.max => ui.percent >= 100
         /\ \A next \in currentPercent(ui.value + 1, ui.min, ui.max) : ui.percent <= next
         /\ \A second \in arcs.secondary :
              arcs.primary >= 0 /\ second >= 0 /\ arcs.primary + second + 10 = 100
    /\ On("layers") =>
         LET mask == maskGradient(ui.levels, ui.position) IN
         /\ \A j, k \in DOMAIN mask : j < k =>
              IF ui.position = "both" THEN mask[j] = mask[k]
              ELSE \A x \in mask[j], y \in mask[k] : x < y
         /\ ui.levels = 8 /\ ui.position # "both"
              => UNION {mask[k] : k \in DOMAIN mask} = 2 .. 8
=============================================================================
