----------------------------- MODULE TargetFinder -----------------------------
(***************************************************************************)
(* What the coprocessor finds in a frame: the selection among the contours *)
(* of a masked image, longest first, that BoilerFrame and GearFrame make,  *)
(* and the pixel errors they measure.  OpenCV's part, from the image to    *)
(* the contours and their measures, is an input.                           *)
(*                                                                         *)
(* A contour is a record of its arc length, its area and its bounding      *)
(* rectangle (x, y, width, height); an image is a set of contours, no two  *)
(* of the same arc length.                                                 *)
(***************************************************************************)
EXTENDS Integers, Sequences, SequencesExt

CONSTANTS
  Images,            \* what the cameras may see
  min_arc_length_,   \* of the boiler configuration, like the next two
  aspect_ratio_min_, aspect_ratio_max_,
  azimuth_offset_,   \* of the gear configuration
  MinArea,           \* the area of a gear target, 300 in the code
  Columns, Rows,     \* the size of a boiler frame
  StrayRects         \* what may lie behind the vector of gear rectangles

\* The arc lengths of an image order its contours.
ASSUME ImagesAssumption ==
  \A image \in Images : \A a, b \in image : a # b => a.arc # b.arc

Sorted ==
  [image \in Images |-> SetToSortSeq(image, LAMBDA a, b : b.arc < a.arc)]

-----------------------------------------------------------------------------
(* BoilerFrame::FindTargets *)

FitsBoiler(c) ==
  /\ c.arc >= min_arc_length_
  /\ aspect_ratio_min_ * c.height <= c.width
  /\ c.width <= aspect_ratio_max_ * c.height

\* The lower target is centred under the upper one, lim_left to lim_right.
Aligned(upper, c) ==
  c.x + (c.width \div 2) \in upper.x .. (upper.x + upper.width)

\* Mutant: every contour that passes moves the limits.
AcceptAnyTwo(found, c) ==
  IF Len(found) < 2 /\ FitsBoiler(c) THEN Append(found, c) ELSE found

\* One turn of the loop over the contours.
AcceptBoiler(found, c) ==
  IF /\ Len(found) < 2
     /\ FitsBoiler(c)
     /\ found # <<>> => Aligned(found[1], c)
  THEN Append(found, c)
  ELSE found

BoilerTargets == [image \in Images |-> FoldLeft(AcceptBoiler, <<>>, Sorted[image])]

\* One target alone is no solution.
WithBoilerTarget == {image \in Images : Len(BoilerTargets[image]) = 2}

\* What BoilerCamera::ProcessFrame sends, with the image it is about.
BoilerReports ==
  {LET upper == BoilerTargets[image][1]
       lower == BoilerTargets[image][2]
   IN [image |-> image,
       azimuth |-> (Columns \div 2) - upper.x - (upper.width \div 2),
       centerline |-> ((lower.y + upper.y) \div 2) - (Rows \div 2)] :
     image \in WithBoilerTarget}

-----------------------------------------------------------------------------
(* GearFrame::FindTargets *)

\* target_idx: the places, from 0, of the first two contours that are large
\* enough.
AcceptGear(image, found, i) ==
  IF Len(found) < 2 /\ Sorted[image][i + 1].area > MinArea
  THEN Append(found, i)
  ELSE found

GearTargets ==
  [image \in Images |->
     FoldLeft(LAMBDA found, i : AcceptGear(image, found, i), <<>>,
              [i \in 1 .. Len(Sorted[image]) |-> i - 1])]

WithGearTarget == {image \in Images : GearTargets[image] # <<>>}

\* target_rects holds the rectangles of the contours found, but is indexed
\* with their places among all contours: behind its end anything may be read.
RectAt(image, i) ==
  LET found == GearTargets[image]
  IN IF i < Len(found) THEN {Sorted[image][found[i + 1] + 1]} ELSE StrayRects

\* right_contour, by its place: the one further right, or the only one.
RightTarget(image) ==
  LET found == GearTargets[image]
      first == Sorted[image][found[1] + 1]
      second == Sorted[image][found[2] + 1]
  IN IF Len(found) = 2 /\ first.x <= second.x THEN found[2] ELSE found[1]

GearReports ==
  UNION {{[image |-> image,
           azimuth |-> azimuth_offset_ - rect.x - (rect.width \div 2)] :
            rect \in RectAt(image, RightTarget(image))} :
         image \in WithGearTarget}

-----------------------------------------------------------------------------
(* What the two are for, without loops and indices *)

Longest(contours, c) == c \in contours /\ \A d \in contours : d.arc <= c.arc

\* The boiler is a pair of stripes: the longest contour of their shape, and the
\* longest of the others that is centred with it.
BoilerPairs(image) ==
  LET stripes == {c \in image : FitsBoiler(c)}
  IN {pair \in image \X image :
        /\ Longest(stripes, pair[1])
        /\ Longest({c \in stripes \ {pair[1]} : Aligned(pair[1], c)}, pair[2])}

PairReports ==
  UNION {{[image |-> image,
           azimuth |-> (Columns \div 2) - pair[1].x - (pair[1].width \div 2),
           centerline |-> ((pair[1].y + pair[2].y) \div 2) - (Rows \div 2)] :
            pair \in BoilerPairs(image)} :
         image \in Images}

\* The lift is between two tapes: those of the large contours that are longest,
\* of which the right one counts.
RightTapes(image) ==
  LET tapes == {d \in image : d.area > MinArea}
      longest == {d \in tapes : Longest(tapes, d)}
      pair == longest \cup {d \in tapes : Longest(tapes \ longest, d)}
  IN {c \in pair : \A d \in pair : d.x <= c.x}

TapeReports ==
  UNION {{[image |-> image,
           azimuth |-> azimuth_offset_ - tape.x - (tape.width \div 2)] :
            tape \in RightTapes(image)} :
         image \in Images}

\* Images in which a contour too small for a tape is longer than one of the two:
\* for them the rectangles are looked up with the wrong places.
Speckled ==
  {image \in Images : \E k \in DOMAIN GearTargets[image] :
                        GearTargets[image][k] # k - 1}

OffPair == BoilerReports \ PairReports

OffTape == {report \in GearReports \ TapeReports : report.image \notin Speckled}
=============================================================================
