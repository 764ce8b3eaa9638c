------------------------------ MODULE GeoShapes ------------------------------
(***************************************************************************)
(* The arithmetic of lib/mongoc-matcher-op-geojson.c on whole numbers.     *)
(* Points are [x, y]; distances are squares of fractions, [num, den].      *)
(*                                                                         *)
(* The code's haversine_distance, bc_get_bearing and bc_crossarc work on a *)
(* sphere, and in doubles.  Here they are the formulas of the plane that   *)
(* those become for short distances near the equator, with the range that  *)
(* atan2 gives a bearing kept.                                             *)
(***************************************************************************)
EXTENDS Integers, Sequences

Point(x, y) == [x |-> x, y |-> y]
Origin      == Point(0, 0)

Square(n) == n * n

\* haversine_distance.
Distance(p, q) == [num |-> Square(p.x - q.x) + Square(p.y - q.y), den |-> 1]

\* Distances against a bound that need not be positive.
AtMost(d, bound)  == bound >= 0 /\ d.num <= Square(bound) * d.den
AtLeast(d, bound) == bound <= 0 \/ d.num >= Square(bound) * d.den

\* The way from b to c, seen from a: how far along and how far across.
Along(a, b, c)  == (b.x - a.x) * (c.x - a.x) + (b.y - a.y) * (c.y - a.y)
Across(a, b, c) == (b.x - a.x) * (c.y - a.y) - (b.y - a.y) * (c.x - a.x)

\* Bearings run from -pi to pi with 0 in the north, so two that lie on either
\* side of the south differ by more than pi.
Wraps(a, b, c) ==
  \/ b.x > a.x /\ c.x < a.x /\ Across(a, b, c) < 0
  \/ b.x < a.x /\ c.x > a.x /\ Across(a, b, c) > 0
  \/ b.x = a.x /\ b.y < a.y /\ c.x < a.x
  \/ c.x = a.x /\ c.y < a.y /\ b.x < a.x

Behind(a, b, c) == Along(a, b, c) < 0 \/ Wraps(a, b, c)

\* Mutant: the line does not end at b.
CrossArcNoEnd(a, b, c) ==
  LET long == Distance(a, b).num
  IN  IF Behind(a, b, c) \/ long = 0 THEN Distance(a, c)
      ELSE [num |-> Square(Across(a, b, c)), den |-> long]

\* bc_crossarc: the distance from c to the segment from a to b.
CrossArc(a, b, c) ==
  LET long == Distance(a, b).num
  IN  IF Behind(a, b, c) \/ long = 0     THEN Distance(a, c)
      ELSE IF Along(a, b, c) > long      THEN Distance(b, c)
      ELSE [num |-> Square(Across(a, b, c)), den |-> long]

\* Mutant: the edge from the last point to the first is left out.
CrossesOpen(points, i, p) ==
  LET b == points[i]
      a == IF i = 1 THEN points[1] ELSE points[i - 1]
  IN  /\ (b.y > p.y) # (a.y > p.y)
      /\ IF a.y > b.y THEN (p.x - b.x) * (a.y - b.y) < (a.x - b.x) * (p.y - b.y)
                      ELSE (p.x - b.x) * (a.y - b.y) > (a.x - b.x) * (p.y - b.y)

\* The point that point i follows, the last being followed by the first.
Before(points, i) == IF i = 1 THEN Len(points) ELSE i - 1

\* The ray from p to the right crosses the edge that ends in point i.
Crosses(points, i, p) ==
  LET b == points[i]
      a == points[Before(points, i)]
  IN  /\ (b.y > p.y) # (a.y > p.y)
      /\ IF a.y > b.y THEN (p.x - b.x) * (a.y - b.y) < (a.x - b.x) * (p.y - b.y)
                      ELSE (p.x - b.x) * (a.y - b.y) > (a.x - b.x) * (p.y - b.y)

\* The parity of the crossings of the first n edges, for every n.
Parities(points, p) ==
  LET inside[n \in 0 .. Len(points)] ==
        IF n = 0 THEN FALSE ELSE inside[n - 1] # Crosses(points, n, p)
  IN  inside

\* point_in_poly.
PointInPoly(points, p) == Parities(points, p)[Len(points)]
=============================================================================
