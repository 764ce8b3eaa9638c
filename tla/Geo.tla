--------------------------------- MODULE Geo ---------------------------------
(***************************************************************************)
(* $near and $geoWithin: how their specs are read, how they match a        *)
(* document, and the ops they allocate on the way (mongoc-matcher.c,       *)
(* mongoc-matcher-op.c and mongoc-matcher-op-geojson.c in lib/).  The      *)
(* arithmetic is in GeoShapes.                                             *)
(*                                                                         *)
(* A query is one of                                                       *)
(*   "legacy"   [axes, second, maxd]  $near of an array and the key after  *)
(*   "geometry" [parts]               $near of a document                  *)
(*   "within"   [parts]               $geoWithin                           *)
(* A part is [key, value].  Numbers are whole; Bad is a value that is not  *)
(* a number.  Coordinates are [type |-> "none"], "point" with its axes, or *)
(* "list" with its points, each as its axes; a document that is a polygon  *)
(* has "rings" and the points of its only one.  With them goes line:       *)
(* whether there is a "type" that begins with LineString.  The value that  *)
(* a document has at the path of the query is "other", "array" with its    *)
(* axes, or "geo" with its coordinates; the value at the first key of that *)
(* path, which is the same one if the path has no dots, is of type first.  *)
(***************************************************************************)
EXTENDS GeoShapes, FiniteSets

CONSTANTS Queries, Docs,
          Bad,      \* a value that is no number
          MaxPoints \* MONGOC_MAX_POLYGON_POINTS

ASSUME MaxPointsAssumption == MaxPoints \in Nat \ {0}

VARIABLES query,  \* the query that is compiled
          doc,    \* the value at its path in the document it is matched with
          op,     \* the op: its fields, and the points it points to
          part,   \* the part of the spec that is read
          index,  \* the point, or the vertex of the line, that is next
          live,   \* how many ops are allocated
          result, \* the answer
          at      \* where the program is

vars == <<query, doc, op, part, index, live, result, at>>
-----------------------------------------------------------------------------
(***************************************************************************)
(* Axes.  The kind of a point is how many it has, or 0 for UNDEFINED.      *)
(***************************************************************************)
Numbers(axes, n) == \A i \in 1 .. n : i \in DOMAIN axes => axes[i] # Bad

AxesUpTo4(axes) == IF Len(axes) < 4 THEN Len(axes) ELSE 4

\* _mongoc_matcher_op_array_to_op_t: whether it succeeds, and near_type.
ArrayOk(axes) == Numbers(axes, 4)
Kind(axes)    == IF Len(axes) < 2 THEN 0 ELSE AxesUpTo4(axes)

\* An axis that is not there is the 0 of the allocation.
Axis(axes, i)  == IF i \in DOMAIN axes /\ Numbers(axes, i) THEN axes[i] ELSE 0
PointOf(axes)  == Point(Axis(axes, 1), Axis(axes, 2))
HasPoint(axes) == Len(axes) >= 2 /\ Numbers(axes, 2)

NewOp == [type |-> "undefined", kind |-> 0, axes |-> << >>, maxd |-> 0, mind |-> 0,
          first |-> Origin, corner |-> Origin, points |-> << >>, freed |-> FALSE]

(***************************************************************************)
(* _mongoc_matcher_op_geonear_parse_geometry, for the op and for the       *)
(* document alike.  After every point of a list stands an op for the next  *)
(* one, so the last in the chain is no point of the list.  (A spec has one *)
(* $geometry: what a second list does to the chain of the first is not     *)
(* modelled.)                                                              *)
(***************************************************************************)
\* The ops that follow the first, which is in the op itself.
ChainOf(points) ==
  [i \in 1 .. Len(points) |-> IF i < Len(points) THEN points[i + 1] ELSE Origin]

\* The points of a list that are arrays with something in them.
Read(list) == SelectSeq(list, LAMBDA p : p # << >>)

GeometryOk(c) ==
  CASE c.type = "none"  -> TRUE
    [] c.type = "point" -> HasPoint(c.axes)
    [] c.type = "list"  -> /\ \A i \in DOMAIN Read(c.points) : HasPoint(Read(c.points)[i])
                           /\ Len(Read(c.points)) < MaxPoints
    [] c.type = "rings" -> c.points = << >>

\* Coordinates that begin with an array, and a LineString, make a boundary.
Opcode(o, c) ==
  IF c.line \/ c.type = "rings" \/ (c.type = "list" /\ c.points # << >>)
  THEN "boundary" ELSE o.type

Geometry(o, c) ==
  CASE c.type \in {"none", "rings"} -> [o EXCEPT !.type = Opcode(o, c)]
    [] c.type = "point" ->
         [o EXCEPT !.type = Opcode(o, c), !.first = PointOf(c.axes), !.kind = 2]
    [] c.type = "list"  ->
         LET points == [i \in DOMAIN Read(c.points) |-> PointOf(Read(c.points)[i])]
         IN  [o EXCEPT !.type   = Opcode(o, c),
                       !.kind   = IF points = << >> THEN @ ELSE 2,
                       !.first  = IF points = << >> THEN @ ELSE points[1],
                       !.points = IF points = << >> THEN << >> ELSE ChainOf(points)]

\* The ops that one geometry allocates.
OpsOf(c) == IF c.type = "list" THEN Len(Read(c.points)) ELSE 0

\* A spec has at most one $geometry, of coordinates; those that are read of a
\* list are a list of them.
ASSUME QueriesAssumption ==
  \A q \in Queries :
    /\ q.name \in {"legacy", "geometry", "within"}
    /\ q.name = "geometry" =>
         \A i \in 1 .. Len(q.parts) : q.parts[i].key = "$geometry" =>
           /\ \A j \in 1 .. i - 1 : q.parts[j].key # "$geometry"
           /\ q.parts[i].value.type \in {"none", "point", "list"}
           /\ q.parts[i].value.type = "list" =>
                LET list == q.parts[i].value.points
                IN  Read(list) \in Seq({list[k] : k \in DOMAIN list})
    /\ q.name # "legacy" => Len(q.parts) \in Nat /\ DOMAIN q.parts = 1 .. Len(q.parts)

\* What is read as a number is one or is Bad.
AreAxes(axes)   == axes \in Seq(Int \cup {Bad})
ArePoints(list) == list \in Seq(Seq(Int \cup {Bad}))
IsPlace(c) ==
  /\ c.type \in {"none", "point", "list", "rings"} /\ c.line \in BOOLEAN
  /\ c.type = "point" => AreAxes(c.axes)
  /\ c.type \in {"list", "rings"} => ArePoints(c.points)

ASSUME NumbersAssumption ==
  /\ \A q \in Queries :
       /\ q.name = "legacy" => AreAxes(q.axes) /\ q.maxd \in Int
       /\ q.name # "legacy" =>
            \A i \in 1 .. Len(q.parts) :
              /\ q.parts[i].key = "$geometry" => IsPlace(q.parts[i].value)
              /\ q.parts[i].key \in {"$maxDistance", "$minDistance"} =>
                   q.parts[i].value \in Int \cup {Bad}
              /\ q.parts[i].key \in {"$box", "$polygon"} => ArePoints(q.parts[i].value)
  /\ \A d \in Docs :
       /\ d.type \in {"other", "array", "geo"}
       /\ d.first \in {"document", "array", "other"}
       /\ d.first = "other" => d.type = "other"
       /\ d.type = "array" => AreAxes(d.axes)
       /\ d.type = "geo" => IsPlace(d.at)
-----------------------------------------------------------------------------
(***************************************************************************)
(* Compiling.  A constructor that gives NULL runs into the BSON_ASSERT of  *)
(* _mongoc_matcher_parse_compare.                                          *)
(***************************************************************************)
CompileLegacy ==
  /\ at = "parse" /\ query.name = "legacy"
  /\ IF query.second = "none" THEN at' = "refused" /\ UNCHANGED <<op, live>>
     ELSE IF query.second = "other" \/ ~ArrayOk(query.axes)
     THEN at' = "abort" /\ UNCHANGED <<op, live>>
     ELSE /\ op' = [NewOp EXCEPT !.type = "near", !.kind = Kind(query.axes),
                                 !.axes = query.axes, !.maxd = query.maxd]
          /\ live' = 1
          /\ at' = "compiled"
  /\ UNCHANGED <<query, doc, part, index, result>>

StartParts ==
  /\ at = "parse" /\ query.name # "legacy"
  /\ op' = [NewOp EXCEPT !.type = IF query.name = "within" THEN "undefined" ELSE "geonear"]
  /\ live' = 1
  /\ at' = query.name
  /\ UNCHANGED <<query, doc, part, index, result>>

Value == query.parts[part].value

ReadGeometryPart ==
  /\ at = "geometry" /\ part <= Len(query.parts)
  /\ LET key == query.parts[part].key
         ok  == CASE key = "$geometry"                          -> GeometryOk(Value)
                  [] key \in {"$maxDistance", "$minDistance"}   -> Value # Bad
                  [] OTHER                                      -> TRUE
     IN  IF ~ok THEN at' = "abort" /\ UNCHANGED <<op, live, part>>
         ELSE /\ op' = CASE key = "$geometry"    -> Geometry(op, Value)
                         [] key = "$maxDistance" -> [op EXCEPT !.maxd = Value]
                         [] key = "$minDistance" -> [op EXCEPT !.mind = Value]
                         [] OTHER                -> op
              /\ live' = live + IF key = "$geometry" THEN OpsOf(Value) ELSE 0
              /\ part' = part + 1
              /\ at' = at
  /\ UNCHANGED <<query, doc, index, result>>

GeometryRead ==
  /\ at = "geometry" /\ part > Len(query.parts)
  /\ at' = "compiled"
  /\ UNCHANGED <<query, doc, op, part, index, live, result>>

BoxOk(corners) ==
  Len(corners) >= 2 /\ \A i \in 1 .. 2 : HasPoint(corners[i])

\* Mutant: a box that is no box ends the search for a shape.
ReadBoxGivesUp ==
  /\ at = "within" /\ part <= Len(query.parts) /\ query.parts[part].key = "$box"
  /\ IF op.freed THEN at' = "useAfterFree" /\ UNCHANGED <<op, part>>
     ELSE IF BoxOk(Value)
     THEN /\ op' = [op EXCEPT !.type = "box", !.kind = 2,
                              !.first = PointOf(Value[1]), !.corner = PointOf(Value[2])]
          /\ at' = "compiled"
          /\ part' = part
     ELSE at' = "abort" /\ UNCHANGED <<op, part>>
  /\ UNCHANGED <<query, doc, index, live, result>>

\* A key is read into the op whether or not a full polygon has freed it.
ReadBox ==
  /\ at = "within" /\ part <= Len(query.parts) /\ query.parts[part].key = "$box"
  /\ IF op.freed THEN at' = "useAfterFree" /\ UNCHANGED <<op, part>>
     ELSE IF BoxOk(Value)
     THEN /\ op' = [op EXCEPT !.type = "box", !.kind = 2,
                              !.first = PointOf(Value[1]), !.corner = PointOf(Value[2])]
          /\ at' = "compiled"
          /\ part' = part
     ELSE part' = part + 1 /\ UNCHANGED <<op, at>>
  /\ UNCHANGED <<query, doc, index, live, result>>

StartPolygon ==
  /\ at = "within" /\ part <= Len(query.parts) /\ query.parts[part].key = "$polygon"
  /\ IF op.freed THEN at' = "useAfterFree" /\ op' = op
     ELSE /\ op' = [op EXCEPT !.type = "polygon", !.kind = 2, !.maxd = 0]
          /\ at' = "points"
  /\ UNCHANGED <<query, doc, part, index, live, result>>

SkipPart ==
  /\ at = "within" /\ part <= Len(query.parts)
  /\ query.parts[part].key \notin {"$box", "$polygon"}
  /\ part' = part + 1
  /\ UNCHANGED <<query, doc, op, index, live, result, at>>

\* Mutant: the limit is checked with > and one point too many is stored.
AddPointOneMore ==
  /\ at = "points" /\ index <= Len(Value)
  /\ live' = live + 1
  /\ IF op.maxd >= MaxPoints THEN at' = "overflow" /\ UNCHANGED <<op, part, index>>
     ELSE /\ op' = [op EXCEPT !.points = Append(@, PointOf(Value[index])), !.maxd = @ + 1]
          /\ index' = index + 1
          /\ UNCHANGED <<at, part>>
  /\ UNCHANGED <<query, doc, result>>

\* A point is stored under the count that is kept in maxd; the one that fills
\* the list ends the polygon, with op and points freed.
AddPoint ==
  /\ at = "points" /\ index <= Len(Value)
  /\ IF op.maxd >= MaxPoints THEN at' = "overflow" /\ UNCHANGED <<op, part, index, live>>
     ELSE IF op.maxd + 1 >= MaxPoints
     THEN /\ op' = [op EXCEPT !.freed = TRUE]
          /\ live' = 0
          /\ index' = 1
          /\ part' = part + 1
          /\ at' = "within"
     ELSE /\ op' = [op EXCEPT !.points = Append(@, PointOf(Value[index])), !.maxd = @ + 1]
          /\ live' = live + 1
          /\ index' = index + 1
          /\ UNCHANGED <<at, part>>
  /\ UNCHANGED <<query, doc, result>>

PolygonRead ==
  /\ at = "points" /\ index > Len(Value)
  /\ index' = 1
  /\ at' = "compiled"
  /\ UNCHANGED <<query, doc, op, part, live, result>>

NothingWithin ==
  /\ at = "within" /\ part > Len(query.parts)
  /\ at' = "abort"
  /\ UNCHANGED <<query, doc, op, part, index, live, result>>
-----------------------------------------------------------------------------
(***************************************************************************)
(* Matching.                                                               *)
(***************************************************************************)
Answer(b) == result' = b /\ at' = "answered"
Matching  == at = "compiled" /\ UNCHANGED <<query, doc, op, part, index, live>>

\* The squares of the distances along the first n axes, summed, for every n.
Sums(o, axes) ==
  LET sum[n \in 0 .. o.kind] ==
        IF n = 0 THEN 0 ELSE sum[n - 1] + Square(Axis(o.axes, n) - Axis(axes, n))
  IN  sum

\* Mutant: the number of axes is not compared.
InsideAnyKind(o, axes) == AtMost([num |-> Sums(o, axes)[o.kind], den |-> 1], o.maxd)

\* The legacy distance, over as many axes as both have; none if undefined.
Inside(o, axes) ==
  /\ o.kind = Kind(axes)
  /\ AtMost([num |-> Sums(o, axes)[o.kind], den |-> 1], o.maxd)

MatchNear ==
  /\ Matching /\ op.type = "near"
  /\ Answer(doc.type = "array" /\ ArrayOk(doc.axes) /\ Inside(op, doc.axes))

\* What an array is read as, which has no "coordinates".
Nowhere == [type |-> "none", line |-> FALSE]

\* The value at the path is read as a place if it can be recursed into; whether
\* it is a document is asked of the first key of the path.
PlaceOf(d)  == IF d.type = "geo" THEN d.at ELSE Nowhere
IsPlaced(d) == d.first = "document" /\ d.type # "other" /\ GeometryOk(PlaceOf(d))

\* The point of the document; that of an op that nothing is read into is (0, 0).
Here == Geometry(NewOp, PlaceOf(doc)).first

\* The minimum of the query is not looked at.
MatchGeoNear ==
  /\ Matching /\ op.type = "geonear"
  /\ Answer(IsPlaced(doc) /\ AtMost(Distance(op.first, Here), op.maxd))

MatchBox ==
  /\ Matching /\ op.type = "box"
  /\ LET p == PointOf(doc.axes)
     IN  Answer(/\ doc.type = "array" /\ ArrayOk(doc.axes) /\ Kind(doc.axes) = 2
                /\ op.first.x <= p.x /\ op.first.y <= p.y
                /\ p.x <= op.corner.x /\ p.y <= op.corner.y)

\* _mongoc_matcher_op_point_in_op.
PointInOp(axes) ==
  ArrayOk(axes) /\ Kind(axes) = 2 /\ PointInPoly(op.points, PointOf(axes))

Ring == doc.at.type = "rings" /\ doc.at.points # << >>

\* Coordinates that are not there leave an iterator at its end, which
\* bson_iter_recurse reads through all the same.
MatchPolygon ==
  /\ Matching /\ op.type = "polygon" /\ ~(doc.type = "geo" /\ Ring)
  /\ IF doc.type = "geo" /\ doc.at.type = "none"
     THEN at' = "undefined" /\ result' = result
     ELSE Answer(\/ doc.type = "array" /\ PointInOp(doc.axes)
                 \/ doc.type = "geo" /\ doc.at.type = "point" /\ PointInOp(doc.at.axes))

StartRing ==
  /\ at = "compiled" /\ op.type = "polygon" /\ doc.type = "geo" /\ Ring
  /\ result' = FALSE
  /\ at' = "ring"
  /\ UNCHANGED <<query, doc, op, part, index, live>>

RingPoint ==
  /\ at = "ring"
  /\ result' = (result \/ PointInOp(doc.at.points[index]))
  /\ IF index < Len(doc.at.points) /\ result'
     THEN index' = index + 1 /\ at' = at
     ELSE index' = 1 /\ at' = "answered"
  /\ UNCHANGED <<query, doc, op, part, live>>

\* _mongoc_matcher_op_near_boundary, from its first op to each of the others
\* but the last, which it expects to exist.
StartBoundary ==
  /\ at = "compiled" /\ op.type = "boundary"
  /\ IF IsPlaced(doc) /\ op.points # << >>
     THEN at' = "boundary" /\ result' = result
     ELSE Answer(FALSE)
  /\ UNCHANGED <<query, doc, op, part, index, live>>

Near == LET d == CrossArc(op.first, op.points[index], Here)
        IN  AtMost(d, op.maxd) /\ AtLeast(d, op.mind)

NextVertex ==
  /\ at = "boundary"
  /\ IF Near                            THEN Answer(TRUE) /\ index' = 1
     ELSE IF index = Len(op.points)     THEN at' = "nullPointer" /\ UNCHANGED <<index, result>>
     ELSE IF index + 1 = Len(op.points) THEN Answer(FALSE) /\ index' = 1
     ELSE index' = index + 1 /\ UNCHANGED <<result, at>>
  /\ UNCHANGED <<query, doc, op, part, live>>

\* _mongoc_matcher_op_destroy: the ops that the op points to, and the op.
Destroy ==
  /\ at = "answered"
  /\ live' = live - Len(op.points) - 1
  /\ op' = [op EXCEPT !.freed = TRUE]
  /\ at' = "destroyed"
  /\ UNCHANGED <<query, doc, part, index, result>>

Stops   == {"abort", "useAfterFree", "undefined", "nullPointer", "overflow"}
Stopped == at \in Stops \cup {"refused", "destroyed"} /\ UNCHANGED vars

Init ==
  /\ query \in Queries /\ doc \in Docs
  /\ op = NewOp /\ part = 1 /\ index = 1 /\ live = 0
  /\ result = FALSE /\ at = "parse"

Next ==
  \/ CompileLegacy \/ StartParts
  \/ ReadGeometryPart \/ GeometryRead
  \/ ReadBox \/ StartPolygon \/ SkipPart \/ AddPoint \/ PolygonRead \/ NothingWithin
  \/ MatchNear \/ MatchGeoNear \/ MatchBox \/ MatchPolygon
  \/ StartRing \/ RingPoint \/ StartBoundary \/ NextVertex
  \/ Destroy \/ Stopped

Spec == Init /\ [][Next]_vars
-----------------------------------------------------------------------------
Answered == at = "answered"

\* No list of points is written past its end, and every op is given back: by the
\* destroy of the matcher, or by the parser when a polygon fills the list.
OpsInBounds ==
  /\ at # "overflow"
  /\ Len(op.points) <= MaxPoints
  /\ at = "destroyed" => live = 0
  /\ op.freed => live = 0

\* "Makes a flat grid distance calculation" (README.md): a legacy $near matches
\* the points with as many axes that are no farther away.  Only a spec of less
\* than two axes is not held to it.
NearByDistance ==
  Answered /\ op.type = "near" /\ Len(query.axes) \in 2 .. 4 =>
    (result <=>
       /\ doc.type = "array"
       /\ Len(query.axes) = AxesUpTo4(doc.axes)
       /\ Numbers(doc.axes, Len(query.axes))
       /\ query.maxd >= 0
       /\ \E d \in 0 .. Square(query.maxd) :
            d = LET diff(i) == IF i \in DOMAIN query.axes
                               THEN Square(query.axes[i] - doc.axes[i]) ELSE 0
                IN  diff(1) + diff(2) + diff(3) + diff(4))

\* The side of the edges of a polygon that a point is on.
Sides(points, p) == {Across(points[Before(points, i)], points[i], p) : i \in DOMAIN points}

\* A polygon that goes round once and turns the same way at every point: all its
\* points but the ends of an edge are on the same side of the edge.
TurnsOneWay(points, way) ==
  \A i, j \in DOMAIN points :
    j \notin {i, Before(points, i)} =>
      way * Across(points[Before(points, i)], points[i], points[j]) > 0

Convex(points) == Len(points) >= 3 /\ (TurnsOneWay(points, 1) \/ TurnsOneWay(points, -1))

\* Strictly inside a convex polygon, and strictly outside.
Positive(ns) == \A n \in ns : n > 0
Negative(ns) == \A n \in ns : n < 0
InsideOf(points, p)  == Positive(Sides(points, p)) \/ Negative(Sides(points, p))
OutsideOf(points, p) == /\ \E n \in Sides(points, p) : n > 0
                        /\ \E n \in Sides(points, p) : n < 0

ThePoint ==
  IF doc.type = "array" THEN doc.axes
  ELSE IF doc.type = "geo" /\ doc.at.type = "point" THEN doc.at.axes ELSE << >>

\* A point is within a convex polygon, whichever way its points go round, when
\* it is inside, and not when it is outside; the border may be either.  The box
\* agrees with the polygon of its corners.
WithinMeaning ==
  Answered /\ Len(ThePoint) = 2 /\ Numbers(ThePoint, 2) =>
    /\ op.type = "polygon" /\ Convex(op.points) =>
         /\ InsideOf(op.points, PointOf(ThePoint)) => result
         /\ OutsideOf(op.points, PointOf(ThePoint)) => ~result
    /\ op.type = "box" /\ doc.type = "array"
       /\ op.first.x < op.corner.x /\ op.first.y < op.corner.y =>
         LET box == <<op.first, Point(op.corner.x, op.first.y), op.corner,
                      Point(op.first.x, op.corner.y)>>
         IN  /\ InsideOf(box, PointOf(ThePoint)) => result
             /\ OutsideOf(box, PointOf(ThePoint)) => ~result

\* The square of the distance from a point to a segment.
SegmentDistance(a, b, c) ==
  LET long == Distance(a, b).num
      t    == Along(a, b, c)
  IN  IF t <= 0 THEN Distance(a, c)
      ELSE IF t >= long THEN Distance(b, c)
      ELSE [num |-> Distance(a, c).num * long - Square(t), den |-> long]

\* A line of two points matches the points whose distance to the segment is in
\* range, unless the bearings to its end and to the point wrap around.
IsNearLine ==
  Answered /\ op.type = "boundary" /\ Len(op.points) = 2 /\ doc.type = "geo"
  /\ doc.at.type = "point" /\ HasPoint(doc.at.axes)
  /\ ~Wraps(op.first, op.points[1], PointOf(doc.at.axes)) =>
    LET d == SegmentDistance(op.first, op.points[1], PointOf(doc.at.axes))
    IN  result <=> AtMost(d, op.maxd) /\ AtLeast(d, op.mind)

\* It does where the value at the first key of the path is a document, as the
\* point itself is on a path without dots; the code looks at no other.
NearLine == doc.first = "document" => IsNearLine

\* Nothing but these stops the program: a spec without a good point, box,
\* polygon or number, a line of one point, a polygon that fills the list, and a
\* document without coordinates where a polygon looks for them.
StopsExplained ==
  at \in Stops =>
    \/ /\ query.name = "legacy" /\ (query.second = "other" \/ ~Numbers(query.axes, 4))
    \/ /\ query.name = "geometry"
       /\ \E i \in DOMAIN query.parts :
            \/ /\ query.parts[i].key \in {"$maxDistance", "$minDistance"}
               /\ query.parts[i].value = Bad
            \/ /\ query.parts[i].key = "$geometry"
               /\ \/ ~GeometryOk(query.parts[i].value)
                  \/ /\ query.parts[i].value.type = "list"
                     /\ Len(Read(query.parts[i].value.points)) = 1
    \/ /\ query.name = "within"
       /\ \/ \E i \in DOMAIN query.parts :
                 /\ query.parts[i].key = "$polygon"
                 /\ Len(query.parts[i].value) >= MaxPoints
          \/ \A i \in DOMAIN query.parts :
                 /\ query.parts[i].key # "$polygon"
                 /\ query.parts[i].key = "$box" => ~BoxOk(query.parts[i].value)
          \/ op.type = "polygon" /\ doc.type = "geo" /\ doc.at.type = "none"

=============================================================================
