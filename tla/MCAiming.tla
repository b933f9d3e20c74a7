------------------------------ MODULE MCAiming ------------------------------
(* Aiming on a small instance: images of up to three of seven contours, a    *)
(* table of one range, an elevation of a few ticks.                          *)
EXTENDS Aiming, FiniteSetsExt

Contour(arc, area, x, y, width, height) ==
  [arc |-> arc, area |-> area, x |-> x, y |-> y, width |-> width, height |-> height]

\* Two stripes of the boiler, the second centred under the first.
Upper == Contour(60, 400, 10, 10, 24, 8)
Lower == Contour(50, 500, 16, 27, 20, 6)
\* A stripe whose center is just beyond the right end of the upper one.
Aside == Contour(45, 450, 27, 33, 16, 8)
\* A stripe of light above both.
Glare == Contour(42, 320, 14, 4, 12, 5)
\* A tape of the lift, too high for a stripe.
Tape == Contour(40, 600, 44, 8, 10, 20)
\* A long thin reflection, and one of a stripe's shape with a short arc.
Speckle == Contour(90, 100, 40, 30, 30, 3)
Crumb == Contour(15, 350, 20, 34, 9, 3)

MCImages ==
  UNION {kSubset(k, {Upper, Lower, Aside, Glare, Tape, Speckle, Crumb}) : k \in 0 .. 3}

\* Nothing, or the memory of an earlier frame.
MCStrayRects == {[x |-> 0, y |-> 0, width |-> 0, height |-> 0],
                 [x |-> 10, y |-> 10, width |-> 24, height |-> 8]}

\* Too close, the range of the table, its end, and too far.
MCRangeLookup == [e \in Elevations |-> e - 1]

MCTableElevations == <<2>>
=============================================================================
