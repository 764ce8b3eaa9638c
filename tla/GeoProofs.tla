------------------------------- MODULE GeoProofs -------------------------------
(***************************************************************************)
(* The geo operators, for every query, document and bound on the points of *)
(* a polygon.  No list of points is written past its end and every op that *)
(* was allocated is given back; the program stops for no other reason than *)
(* those named; and the answers of $near and $geoWithin are those of the   *)
(* distance and of the shape.  For a polygon that is a theorem about the   *)
(* plane: counting the edges that a ray crosses tells the inside of every  *)
(* convex polygon from its outside.                                        *)
(***************************************************************************)
EXTENDS Geo, Recursion, TLAPS

IsSeq(s) == s \in Seq({s[i] : i \in DOMAIN s})

\* A record with the fields of an op.
IsOp(o) ==
  /\ o = [type |-> o.type, kind |-> o.kind, axes |-> o.axes, maxd |-> o.maxd,
          mind |-> o.mind, first |-> o.first, corner |-> o.corner,
          points |-> o.points, freed |-> o.freed]
  /\ IsSeq(o.points)
  /\ o.freed \in BOOLEAN

\* The op and the points in its list are what is allocated.
Whole == ~op.freed /\ live = Len(op.points) + 1
Empty == ~op.freed /\ op.points = << >>

\* What is counted at each place of the program.
Counted ==
  /\ at = "parse"    => Empty
  /\ at = "geometry" =>
       /\ Whole /\ query.name = "geometry"
       /\ (\A i \in 1 .. part - 1 : query.parts[i].key # "$geometry") => Empty
  /\ at = "within"   => query.name = "within" /\ (op.freed \/ (Whole /\ Empty))
  /\ at = "points"   =>
       /\ Whole /\ query.name = "within"
       /\ op.maxd = Len(op.points) /\ op.maxd < MaxPoints
  /\ at \in {"compiled", "answered", "ring", "boundary"} => Whole

GeoInv ==
  /\ query \in Queries
  /\ IsOp(op)
  /\ part \in Nat \ {0}
  /\ live \in Nat
  /\ OpsInBounds
  /\ Counted
-----------------------------------------------------------------------------
\* What is a sequence of some set is one of its own elements.
LEMMA OwnElements ==
  ASSUME NEW T, NEW s \in Seq(T)
  PROVE  IsSeq(s)
<1> DEFINE U == {s[i] : i \in DOMAIN s}
<1>1. DOMAIN s = 1 .. Len(s) /\ Len(s) \in Nat
  OBVIOUS
<1>2. \A i \in 1 .. Len(s) : s[i] \in U
  BY <1>1
<1> HIDE DEF U
<1>3. s \in Seq(U)
  BY <1>1, <1>2
<1>4. QED
  BY <1>3 DEF IsSeq, U

\* Appending, to a list of any points.
LEMMA Appended ==
  ASSUME NEW s, NEW e, IsSeq(s)
  PROVE  IsSeq(Append(s, e)) /\ Len(Append(s, e)) = Len(s) + 1
<1> DEFINE T == {s[i] : i \in DOMAIN s} \cup {e}
<1>1. s \in Seq(T)
  BY DEF IsSeq
<1> HIDE DEF T
<1>2. e \in T
  BY DEF T
<1>3. Append(s, e) \in Seq(T) /\ Len(Append(s, e)) = Len(s) + 1
  BY <1>1, <1>2
<1>4. QED
  BY <1>3, OwnElements

\* A list has a length, and the empty one is that of length 0.
LEMMA ListLength ==
  ASSUME NEW s, IsSeq(s)
  PROVE  Len(s) \in Nat /\ (s = << >> <=> Len(s) = 0)
  BY DEF IsSeq

\* A function on 1 .. n is a list of n.
LEMMA FunctionIsList ==
  ASSUME NEW n \in Nat, NEW s, s = [i \in 1 .. n |-> s[i]]
  PROVE  IsSeq(s) /\ Len(s) = n
<1> DEFINE U == {s[i] : i \in 1 .. n}
<1>1. DOMAIN s = 1 .. n /\ U = {s[i] : i \in DOMAIN s}
  OBVIOUS
<1>2. \A i \in 1 .. n : s[i] \in U
  OBVIOUS
<1> HIDE DEF U
<1>3. s \in [1 .. n -> U]
  BY <1>1, <1>2
<1>4. s \in Seq(U) /\ Len(s) = n
  BY <1>3
<1>5. QED
  BY <1>4, <1>1 DEF IsSeq

\* What a $geometry may be.
AreCoordinates(c) ==
  /\ c.type \in {"none", "point", "list"}
  /\ c.type = "list" => Read(c.points) \in Seq({c.points[k] : k \in DOMAIN c.points})

\* _mongoc_matcher_op_geonear_parse_geometry: as many ops as there are points.
LEMMA GeometryCounts ==
  ASSUME NEW o, IsOp(o), o.points = << >>, NEW c, AreCoordinates(c), GeometryOk(c)
  PROVE  /\ IsOp(Geometry(o, c))
         /\ Geometry(o, c).freed = o.freed
         /\ OpsOf(c) = Len(Geometry(o, c).points)
         /\ Len(Geometry(o, c).points) <= MaxPoints
<1>1. CASE c.type = "none"
  <2>1. Geometry(o, c) = [o EXCEPT !.type = Opcode(o, c)] /\ OpsOf(c) = 0
    BY <1>1 DEF Geometry, OpsOf
  <2>2. /\ IsOp(Geometry(o, c))
        /\ Geometry(o, c).points = << >>
        /\ Geometry(o, c).freed = o.freed
    BY <2>1 DEF IsOp
  <2>3. QED
    BY <2>1, <2>2, MaxPointsAssumption
<1>2. CASE c.type = "point"
  <2>1. /\ Geometry(o, c) =
             [o EXCEPT !.type = Opcode(o, c), !.first = PointOf(c.axes), !.kind = 2]
        /\ OpsOf(c) = 0
    BY <1>2 DEF Geometry, OpsOf
  <2>2. /\ IsOp(Geometry(o, c))
        /\ Geometry(o, c).points = << >>
        /\ Geometry(o, c).freed = o.freed
    BY <2>1 DEF IsOp
  <2>3. QED
    BY <2>1, <2>2, MaxPointsAssumption
<1>3. CASE c.type = "list"
  <2> DEFINE n      == Len(Read(c.points))
             points == [i \in DOMAIN Read(c.points) |-> PointOf(Read(c.points)[i])]
  <2>1. n \in Nat /\ DOMAIN Read(c.points) = 1 .. n /\ n < MaxPoints
    BY <1>3 DEF GeometryOk, AreCoordinates
  <2>2. Geometry(o, c) =
          [o EXCEPT !.type   = Opcode(o, c),
                    !.kind   = IF points = << >> THEN @ ELSE 2,
                    !.first  = IF points = << >> THEN @ ELSE points[1],
                    !.points = IF points = << >> THEN << >> ELSE ChainOf(points)]
    BY <1>3 DEF Geometry
  <2>3. OpsOf(c) = n
    BY <1>3 DEF OpsOf
  <2>4. Len(points) = n /\ (points = << >> => n = 0)
    <3>1. points = [i \in 1 .. n |-> points[i]]
      BY <2>1
    <3> HIDE DEF points
    <3>2. Len(points) = n
      BY <3>1, <2>1, FunctionIsList
    <3>3. QED
      BY <3>2
  <2>5. CASE points = << >>
    <3>1. n = 0
      BY <2>4, <2>5
    <3> HIDE DEF points
    <3>2. Geometry(o, c) = [o EXCEPT !.type = Opcode(o, c), !.points = << >>]
      <4>1. /\ o.kind = IF points = << >> THEN o.kind ELSE 2
            /\ o.first = IF points = << >> THEN o.first ELSE points[1]
        BY <2>5
      <4>2. QED
        BY <2>2, <2>5 DEF IsOp
    <3>3. /\ Geometry(o, c).points = << >>
          /\ Geometry(o, c).freed = o.freed
          /\ IsOp(Geometry(o, c))
      BY <3>2 DEF IsOp
    <3>4. QED
      BY <3>1, <3>3, <2>3, MaxPointsAssumption
  <2>6. CASE points # << >>
    <3> HIDE DEF points
    <3>1. ChainOf(points) = [i \in 1 .. n |-> IF i < n THEN points[i + 1] ELSE Origin]
      BY <2>4 DEF ChainOf
    <3>2. IsSeq(ChainOf(points)) /\ Len(ChainOf(points)) = n
      <4>1. ChainOf(points) = [i \in 1 .. n |-> ChainOf(points)[i]]
        BY <3>1
      <4>2. QED
        BY <4>1, <2>1, FunctionIsList
    <3>3. /\ Geometry(o, c).points = ChainOf(points)
          /\ Geometry(o, c).freed = o.freed
          /\ IsOp(Geometry(o, c))
      BY <2>2, <2>6, <3>2 DEF IsOp
    <3>4. QED
      BY <3>2, <3>3, <2>1, <2>3, MaxPointsAssumption
  <2>7. QED
    BY <2>5, <2>6
<1>4. QED
  BY <1>1, <1>2, <1>3 DEF AreCoordinates
-----------------------------------------------------------------------------
\* _mongoc_matcher_op_*_new: a fresh op has no points and is not freed.
LEMMA NewOpIsOp == IsOp(NewOp) /\ NewOp.points = << >> /\ ~NewOp.freed
  BY DEF NewOp, IsOp, IsSeq

\* Nothing is allocated before the spec is read.
LEMMA GeoInitInv == Init => GeoInv
<1> SUFFICES ASSUME Init PROVE GeoInv
  OBVIOUS
<1>1. op.points = << >> /\ ~op.freed /\ IsOp(op)
  BY NewOpIsOp DEF Init
<1>2. QED
  BY <1>1, MaxPointsAssumption DEF Init, GeoInv, OpsInBounds, Counted, Empty

\* Steps that leave the op and what is allocated alone.
Moves == UNCHANGED <<query, op, live>> /\ part' \in {part, part + 1}

\* Every step of compiling, matching and destroying keeps what is counted.
LEMMA GeoStep == GeoInv /\ [Next]_vars => GeoInv'
<1> SUFFICES ASSUME GeoInv, [Next]_vars PROVE GeoInv'
  OBVIOUS
<1> USE DEF GeoInv
<1> DEFINE Grown == {"compiled", "answered", "ring", "boundary"}
<1>1. CASE CompileLegacy
  <2>1. CASE op' = op /\ live' = live /\ at' \in {"refused", "abort"}
    BY <1>1, <2>1 DEF CompileLegacy, OpsInBounds, Counted
  <2>2. CASE /\ op' = [NewOp EXCEPT !.type = "near", !.kind = Kind(query.axes),
                                    !.axes = query.axes, !.maxd = query.maxd]
             /\ live' = 1 /\ at' = "compiled"
    <3>1. op'.points = << >> /\ ~op'.freed /\ IsOp(op')
      BY <2>2, NewOpIsOp DEF IsOp
    <3>2. QED
      BY <1>1, <2>2, <3>1, MaxPointsAssumption
      DEF CompileLegacy, OpsInBounds, Counted, Whole, Empty
  <2>3. QED
    BY <1>1, <2>1, <2>2 DEF CompileLegacy
<1>2. CASE StartParts
  <2>1. op'.points = << >> /\ ~op'.freed /\ IsOp(op')
    BY <1>2, NewOpIsOp DEF StartParts, IsOp
  <2>2. query.name \in {"geometry", "within"}
    BY <1>2, QueriesAssumption DEF StartParts
  <2>3. QED
    BY <1>2, <2>1, <2>2, MaxPointsAssumption
    DEF StartParts, OpsInBounds, Counted, Whole, Empty
<1>3. CASE ReadGeometryPart
  <2> DEFINE key == query.parts[part].key
  <2>1. Whole /\ query.name = "geometry" /\ at = "geometry" /\ part \in 1 .. Len(query.parts)
    BY <1>3, QueriesAssumption DEF ReadGeometryPart, Counted
  <2>2. CASE at' = "abort" /\ UNCHANGED <<op, live, part>>
    BY <1>3, <2>1, <2>2 DEF ReadGeometryPart, OpsInBounds, Counted
  <2>3. CASE key = "$geometry" /\ at' = at
    <3>1. op' = Geometry(op, Value) /\ live' = live + OpsOf(Value) /\ part' = part + 1
          /\ GeometryOk(Value)
      BY <1>3, <2>1, <2>3 DEF ReadGeometryPart
    <3>2. /\ \A j \in 1 .. part - 1 : query.parts[j].key # "$geometry"
          /\ AreCoordinates(Value)
      BY <2>1, <2>3, QueriesAssumption DEF Value, AreCoordinates
    <3>3. Empty /\ live = 1
      BY <2>1, <3>2 DEF Counted, Whole, Empty
    <3>4. /\ IsOp(op') /\ ~op'.freed
          /\ OpsOf(Value) = Len(op'.points)
          /\ Len(op'.points) <= MaxPoints
      <4> HIDE DEF GeoInv
      <4>1. IsOp(op) /\ op.points = << >> /\ ~op.freed
        BY <3>3 DEF Empty, GeoInv
      <4>2. /\ IsOp(Geometry(op, Value))
            /\ Geometry(op, Value).freed = op.freed
            /\ OpsOf(Value) = Len(Geometry(op, Value).points)
            /\ Len(Geometry(op, Value).points) <= MaxPoints
        BY <3>1, <3>2, <4>1, GeometryCounts
      <4>3. QED
        BY <3>1, <4>1, <4>2
    <3>5. Len(op'.points) \in Nat
      BY <3>4, ListLength DEF IsOp
    <3>6. live' = Len(op'.points) + 1 /\ live' \in Nat
      BY <3>1, <3>3, <3>4, <3>5
    <3>7. query' = query /\ part' = part + 1 /\ query'.parts[part' - 1].key = "$geometry"
          /\ part' - 1 \in 1 .. part' - 1
      BY <1>3, <2>1, <2>3, <3>1 DEF ReadGeometryPart
    <3>8. Counted'
      BY <2>1, <2>3, <3>4, <3>6, <3>7 DEF Counted, Whole
    <3>9. QED
      BY <2>1, <2>3, <3>4, <3>6, <3>7, <3>8 DEF OpsInBounds
  <2>4. CASE key # "$geometry" /\ at' = at
    <3>1. /\ op' = op \/ op' = [op EXCEPT !.maxd = Value] \/ op' = [op EXCEPT !.mind = Value]
          /\ live' = live /\ part' = part + 1 /\ query' = query
      BY <1>3, <2>1, <2>4 DEF ReadGeometryPart
    <3>2. IsOp(op') /\ op'.points = op.points /\ op'.freed = op.freed
      BY <3>1 DEF IsOp
    <3>3. (\A i \in 1 .. part' - 1 : query'.parts[i].key # "$geometry") =>
            \A i \in 1 .. part - 1 : query.parts[i].key # "$geometry"
      BY <3>1
    <3>4. QED
      BY <2>1, <2>4, <3>1, <3>2, <3>3 DEF OpsInBounds, Counted, Whole, Empty
  <2>5. QED
    BY <1>3, <2>2, <2>3, <2>4 DEF ReadGeometryPart
<1>4. CASE ReadBox
  <2>1. CASE op' = op
    BY <1>4, <2>1 DEF ReadBox, OpsInBounds, Counted, Whole, Empty
  <2>2. CASE /\ ~op.freed /\ at' = "compiled"
             /\ op' = [op EXCEPT !.type = "box", !.kind = 2,
                                 !.first = PointOf(Value[1]), !.corner = PointOf(Value[2])]
    <3>1. IsOp(op') /\ op'.points = op.points /\ op'.freed = op.freed
      BY <2>2 DEF IsOp
    <3>2. QED
      BY <1>4, <2>2, <3>1 DEF ReadBox, OpsInBounds, Counted, Whole, Empty
  <2>3. QED
    BY <1>4, <2>1, <2>2 DEF ReadBox
<1>5. CASE StartPolygon
  <2>1. CASE op' = op /\ at' = "useAfterFree"
    BY <1>5, <2>1 DEF StartPolygon, OpsInBounds, Counted, Whole, Empty
  <2>2. CASE ~op.freed /\ op' = [op EXCEPT !.type = "polygon", !.kind = 2, !.maxd = 0]
             /\ at' = "points"
    <3>1. IsOp(op') /\ op'.points = op.points /\ op'.freed = op.freed /\ op'.maxd = 0
      BY <2>2 DEF IsOp
    <3>2. Whole /\ Empty /\ Len(op.points) = 0
      BY <1>5, <2>2 DEF StartPolygon, Counted, Empty
    <3>3. QED
      BY <1>5, <2>2, <3>1, <3>2, MaxPointsAssumption
      DEF StartPolygon, OpsInBounds, Counted, Whole, Empty
  <2>3. QED
    BY <1>5, <2>1, <2>2 DEF StartPolygon
<1>6. CASE AddPoint
  <2>1. Whole /\ op.maxd = Len(op.points) /\ op.maxd < MaxPoints /\ Len(op.points) \in Nat
        /\ query.name = "within"
    BY <1>6, ListLength DEF AddPoint, Counted, IsOp
  <2>2. CASE op.maxd + 1 >= MaxPoints
    <3>1. op' = [op EXCEPT !.freed = TRUE] /\ live' = 0 /\ at' = "within" /\ part' = part + 1
          /\ query' = query
      BY <1>6, <2>1, <2>2, MaxPointsAssumption DEF AddPoint
    <3>2. IsOp(op') /\ op'.points = op.points /\ op'.freed
      BY <3>1 DEF IsOp
    <3>3. QED
      BY <2>1, <3>1, <3>2 DEF OpsInBounds, Counted
  <2>3. CASE ~(op.maxd + 1 >= MaxPoints)
    <3>1. /\ op' = [op EXCEPT !.points = Append(@, PointOf(Value[index])), !.maxd = @ + 1]
          /\ live' = live + 1 /\ UNCHANGED <<query, part, at>> /\ at = "points"
      BY <1>6, <2>1, <2>3, MaxPointsAssumption DEF AddPoint
    <3>2. /\ IsSeq(Append(op.points, PointOf(Value[index])))
          /\ Len(Append(op.points, PointOf(Value[index]))) = Len(op.points) + 1
      BY Appended DEF IsOp
    <3>3. /\ IsOp(op') /\ ~op'.freed /\ op'.maxd = op.maxd + 1
          /\ Len(op'.points) = Len(op.points) + 1
      BY <2>1, <3>1, <3>2 DEF IsOp, Whole
    <3>4. QED
      BY <2>1, <2>3, <3>1, <3>3, MaxPointsAssumption DEF OpsInBounds, Counted, Whole
  <2>4. QED
    BY <2>2, <2>3
<1>7. CASE Destroy
  <2>1. live = Len(op.points) + 1 /\ Len(op.points) \in Nat
    BY <1>7, ListLength DEF Destroy, Counted, Whole, IsOp
  <2>2. live' = 0 /\ at' = "destroyed" /\ UNCHANGED <<query, part>>
    BY <1>7, <2>1 DEF Destroy
  <2>3. IsOp(op') /\ op'.points = op.points
    BY <1>7 DEF Destroy, IsOp
  <2>4. QED
    BY <2>1, <2>2, <2>3 DEF OpsInBounds, Counted
<1>8. CASE Moves /\ at' \notin {"parse", "geometry", "within", "points", "overflow"}
           /\ (at' = "destroyed" => at = "destroyed")
           /\ (at' \in Grown => Whole)
  <2>1. query' = query /\ op' = op /\ live' = live /\ part' \in Nat \ {0}
    BY <1>8 DEF Moves
  <2>2. OpsInBounds'
    BY <1>8, <2>1 DEF OpsInBounds
  <2>3. Counted'
    BY <1>8, <2>1 DEF Counted, Whole
  <2>4. QED
    BY <2>1, <2>2, <2>3
<1>9. CASE SkipPart
  BY <1>9 DEF SkipPart, OpsInBounds, Counted, Whole, Empty
<1>10. CASE GeometryRead \/ PolygonRead \/ NothingWithin
  BY <1>10, <1>8 DEF GeometryRead, PolygonRead, NothingWithin, Moves, Counted
<1>11. CASE MatchNear \/ MatchGeoNear \/ MatchBox \/ MatchPolygon
  BY <1>11, <1>8
  DEF MatchNear, MatchGeoNear, MatchBox, MatchPolygon, Matching, Answer, Moves, Counted
<1>12. CASE StartRing \/ RingPoint
  BY <1>12, <1>8 DEF StartRing, RingPoint, Moves, Counted
<1>13. CASE StartBoundary \/ NextVertex
  BY <1>13, <1>8 DEF StartBoundary, NextVertex, Answer, Moves, Counted
<1>14. CASE Stopped \/ UNCHANGED vars
  BY <1>14 DEF Stopped, vars, OpsInBounds, Counted, Whole, Empty
<1>15. QED
  BY <1>1, <1>2, <1>3, <1>4, <1>5, <1>6, <1>7, <1>9, <1>10, <1>11, <1>12, <1>13, <1>14
  DEF Next

\* For any queries, documents and bound on the points of a polygon: no point is
\* stored past the end of the list, and every op of a compiled query is given
\* back, by the destroy of the matcher or by a polygon that fills its list.
THEOREM GeoOpsInBounds == Spec => []OpsInBounds
<1>1. Init => GeoInv
  BY GeoInitInv
<1>2. GeoInv /\ [Next]_vars => GeoInv'
  BY GeoStep
<1>3. GeoInv => OpsInBounds
  BY DEF GeoInv
<1>4. QED
  BY <1>1, <1>2, <1>3, PTL DEF Spec
-----------------------------------------------------------------------------
(***************************************************************************)
(* What stops the program is in the spec or in the document.  Part i of    *)
(* the spec fills a list of points, or has given no shape, or is a line of *)
(* n points.                                                               *)
(***************************************************************************)
Fills(i) ==
  query.parts[i].key = "$polygon" /\ Len(query.parts[i].value) >= MaxPoints

NoShape(i) ==
  /\ query.parts[i].key # "$polygon"
  /\ query.parts[i].key = "$box" => ~BoxOk(query.parts[i].value)

IsLine(i, n) ==
  /\ query.parts[i].key = "$geometry"
  /\ query.parts[i].value.type = "list"
  /\ Len(Read(query.parts[i].value.points)) = n

\* A boundary with ops comes from a list, each of whose points but the first has
\* one of them.
FromLine ==
  op.type = "boundary" /\ op.points # << >> =>
    query.name = "geometry" /\ \E i \in DOMAIN query.parts : IsLine(i, Len(op.points))

\* What has been read when the program is there.
Reasons ==
  /\ at \in {"parse", "geometry", "within", "compiled"} => index = 1
  /\ at = "parse" => part = 1
  /\ at = "geometry" => query.name = "geometry" /\ op.type # "polygon"
  /\ at = "within" =>
       /\ query.name = "within"
       /\ IF op.freed THEN \E i \in DOMAIN query.parts : Fills(i)
          ELSE \A i \in 1 .. part - 1 : NoShape(i)
  /\ at = "points" =>
       /\ query.name = "within" /\ op.type = "polygon"
       /\ part \in DOMAIN query.parts /\ query.parts[part].key = "$polygon"
       /\ index = op.maxd + 1
  /\ at \in {"geometry", "compiled", "boundary"} => FromLine
  /\ at = "compiled" /\ op.type = "polygon" => query.name = "within"
  /\ at = "boundary" =>
       /\ op.type = "boundary"
       /\ index \in 1 .. Len(op.points)
       /\ index = Len(op.points) => Len(op.points) = 1

ReasonInv == GeoInv /\ Reasons /\ StopsExplained

\* Reading a $geometry makes the op a boundary or leaves its type.
LEMMA GeometryType ==
  ASSUME NEW o, IsOp(o), NEW c, AreCoordinates(c)
  PROVE  /\ Geometry(o, c).type \in {o.type, "boundary"}
         /\ c.type # "list" => Geometry(o, c).points = o.points
<1> DEFINE t == Opcode(o, c)
<1>a. t \in {o.type, "boundary"}
  BY DEF Opcode
<1> HIDE DEF t
<1>1. CASE c.type = "none"
  <2>1. Geometry(o, c) = [o EXCEPT !.type = t]
    BY <1>1 DEF Geometry, t
  <2> QED
    BY <1>a, <2>1 DEF IsOp
<1>2. CASE c.type = "point"
  <2>1. Geometry(o, c) = [o EXCEPT !.type = t, !.first = PointOf(c.axes), !.kind = 2]
    BY <1>2 DEF Geometry, t
  <2> QED
    BY <1>a, <1>2, <2>1 DEF IsOp
<1>3. CASE c.type = "list"
  <2> DEFINE points == [i \in DOMAIN Read(c.points) |-> PointOf(Read(c.points)[i])]
             k == IF points = << >> THEN o.kind ELSE 2
             f == IF points = << >> THEN o.first ELSE points[1]
             ps == IF points = << >> THEN << >> ELSE ChainOf(points)
  <2>1. Geometry(o, c) = [o EXCEPT !.type = t, !.kind = k, !.first = f, !.points = ps]
    BY <1>3 DEF Geometry, t
  <2> HIDE DEF k, f, ps
  <2>2. Geometry(o, c).type = t
    BY <2>1 DEF IsOp
  <2> QED
    BY <1>a, <1>3, <2>2
<1> QED
  BY <1>1, <1>2, <1>3 DEF AreCoordinates

\* The reasons are there when the program starts.
LEMMA ReasonInit == Init => ReasonInv
<1> SUFFICES ASSUME Init PROVE ReasonInv
  OBVIOUS
<1>1. GeoInv
  BY GeoInitInv
<1>2. at = "parse" /\ index = 1 /\ part = 1
  BY DEF Init
<1> QED
  BY <1>1, <1>2 DEF ReasonInv, Reasons, StopsExplained, Stops

\* Every step finds one or keeps it.
LEMMA ReasonStep == ReasonInv /\ [Next]_vars => ReasonInv'
<1> SUFFICES ASSUME ReasonInv, [Next]_vars PROVE ReasonInv'
  OBVIOUS
<1>a. /\ GeoInv /\ GeoInv' /\ Reasons /\ StopsExplained /\ Counted
      /\ query \in Queries /\ IsOp(op) /\ part \in Nat \ {0} /\ at # "overflow" /\ at' # "overflow"
  <2>1. GeoInv /\ GeoInv'
    BY GeoStep DEF ReasonInv
  <2> QED
    BY <2>1 DEF ReasonInv, GeoInv, OpsInBounds
<1>b. /\ query.name \in {"legacy", "geometry", "within"}
      /\ query.name # "legacy" =>
           Len(query.parts) \in Nat /\ DOMAIN query.parts = 1 .. Len(query.parts)
  BY <1>a, QueriesAssumption
<1> SUFFICES Reasons' /\ StopsExplained'
  BY <1>a DEF ReasonInv
<1>c. ASSUME at' \notin Stops PROVE StopsExplained'
  BY <1>c DEF StopsExplained
<1>d. ASSUME at' \notin {"parse", "geometry", "within", "points", "compiled", "boundary"}
      PROVE  Reasons'
  BY <1>d DEF Reasons
<1>1. CASE CompileLegacy
  <2>1. query.name = "legacy" /\ query' = query /\ at = "parse" /\ index' = index
    BY <1>1 DEF CompileLegacy
  <2>2. CASE at' = "refused"
    BY <1>c, <1>d, <2>2 DEF Stops
  <2>3. CASE at' = "abort"
    <3>1. query.second = "other" \/ ~Numbers(query.axes, 4)
      BY <1>1, <2>3 DEF CompileLegacy, ArrayOk
    <3>2. StopsExplained'
      BY <2>1, <3>1 DEF StopsExplained
    <3> QED
      BY <1>d, <2>3, <3>2
  <2>4. CASE /\ op' = [NewOp EXCEPT !.type = "near", !.kind = Kind(query.axes),
                                    !.axes = query.axes, !.maxd = query.maxd]
             /\ at' = "compiled"
    <3>1. op'.type = "near"
      BY <2>4 DEF NewOp
    <3>2. index' = 1
      BY <1>a, <2>1 DEF Reasons
    <3>3. Reasons'
      BY <2>4, <3>1, <3>2 DEF Reasons, FromLine
    <3> QED
      BY <1>c, <2>4, <3>3 DEF Stops
  <2> QED
    BY <1>1, <2>2, <2>3, <2>4 DEF CompileLegacy
<1>2. CASE StartParts
  <2>1. /\ at = "parse" /\ query.name \in {"geometry", "within"} /\ query' = query
        /\ at' = query.name /\ index' = index /\ part' = part
    BY <1>2, <1>b DEF StartParts
  <2>2. index' = 1
    BY <1>a, <2>1 DEF Reasons
  <2>3. op'.type \in {"undefined", "geonear"} /\ ~op'.freed
    BY <1>2 DEF StartParts, NewOp
  <2>4. part = 1
    BY <1>a, <2>1 DEF Counted, Reasons
  <2>5. 1 .. part' - 1 = {}
    BY <2>1, <2>4
  <2>6. Reasons'
    BY <2>1, <2>2, <2>3, <2>5 DEF Reasons, FromLine
  <2> QED
    BY <1>c, <2>1, <2>6 DEF Stops
<1>3. CASE ReadGeometryPart
  <2> DEFINE key == query.parts[part].key
  <2>1. /\ at = "geometry" /\ query.name = "geometry" /\ part \in DOMAIN query.parts
        /\ query' = query /\ index' = index /\ index = 1
        /\ op.type # "polygon" /\ FromLine
    BY <1>3, <1>a, <1>b DEF ReadGeometryPart, Reasons
  <2>2. CASE at' = "abort"
    <3>1. \/ key = "$geometry" /\ ~GeometryOk(Value)
          \/ key \in {"$maxDistance", "$minDistance"} /\ Value = Bad
      BY <1>3, <2>1, <2>2 DEF ReadGeometryPart
    <3>2. StopsExplained'
      BY <2>1, <3>1 DEF StopsExplained, Value
    <3> QED
      BY <1>d, <2>2, <3>2
  <2>3. CASE key = "$geometry" /\ at' = at
    <3>1. op' = Geometry(op, Value) /\ GeometryOk(Value)
      BY <1>3, <2>1, <2>3 DEF ReadGeometryPart
    <3>2. AreCoordinates(Value) /\ \A j \in 1 .. part - 1 : query.parts[j].key # "$geometry"
      BY <1>a, <1>b, <2>1, <2>3, QueriesAssumption DEF Value, AreCoordinates
    <3>3. op.points = << >>
      BY <1>a, <2>1, <3>2 DEF Counted, Empty
    <3>4. OpsOf(Value) = Len(op'.points)
      BY <1>a, <3>1, <3>2, <3>3, GeometryCounts
    <3>5. /\ op'.type \in {op.type, "boundary"}
          /\ Value.type # "list" => op'.points = op.points
      BY <1>a, <3>1, <3>2, GeometryType
    <3>6. Value.type = "list" => IsLine(part, Len(op'.points))
      BY <2>3, <3>4 DEF IsLine, OpsOf, Value
    <3>7. FromLine'
      <4>1. CASE Value.type = "list"
        BY <2>1, <3>6, <4>1 DEF FromLine, IsLine
      <4>2. CASE Value.type # "list"
        BY <3>3, <3>5, <4>2 DEF FromLine
      <4> QED
        BY <4>1, <4>2
    <3>8. Reasons'
      BY <2>1, <2>3, <3>5, <3>7 DEF Reasons
    <3> QED
      BY <1>c, <2>1, <2>3, <3>8 DEF Stops
  <2>4. CASE key # "$geometry" /\ at' = at
    <3>1. op' = op \/ op' = [op EXCEPT !.maxd = Value] \/ op' = [op EXCEPT !.mind = Value]
      BY <1>3, <2>1, <2>4 DEF ReadGeometryPart
    <3>2. op'.type = op.type /\ op'.points = op.points
      BY <1>a, <3>1 DEF IsOp
    <3>3. FromLine'
      BY <2>1, <3>2 DEF FromLine, IsLine
    <3>4. Reasons'
      BY <2>1, <2>4, <3>2, <3>3 DEF Reasons
    <3> QED
      BY <1>c, <2>1, <2>4, <3>4 DEF Stops
  <2> QED
    BY <1>3, <2>2, <2>3, <2>4 DEF ReadGeometryPart
<1>4. CASE GeometryRead
  <2>1. /\ at = "geometry" /\ at' = "compiled" /\ query' = query /\ op' = op /\ index' = index
    BY <1>4 DEF GeometryRead
  <2>2. Reasons'
    BY <1>a, <2>1 DEF Reasons, FromLine, IsLine
  <2> QED
    BY <1>c, <2>1, <2>2 DEF Stops
<1>5. CASE ReadBox \/ StartPolygon \/ SkipPart
  <2> DEFINE key == query.parts[part].key
  <2>1. /\ at = "within" /\ query.name = "within" /\ part \in DOMAIN query.parts
        /\ query' = query /\ index' = index /\ index = 1
        /\ IF op.freed THEN \E i \in DOMAIN query.parts : Fills(i)
           ELSE \A i \in 1 .. part - 1 : NoShape(i)
    BY <1>5, <1>a, <1>b DEF ReadBox, StartPolygon, SkipPart, Reasons
  <2>2. CASE at' = "useAfterFree"
    <3>1. op.freed
      BY <1>5, <2>1, <2>2 DEF ReadBox, StartPolygon, SkipPart
    <3>2. StopsExplained'
      BY <2>1, <3>1 DEF StopsExplained, Fills
    <3> QED
      BY <1>d, <2>2, <3>2
  <2>3. CASE /\ key = "$polygon" /\ at' = "points" /\ part' = part
             /\ op' = [op EXCEPT !.type = "polygon", !.kind = 2, !.maxd = 0]
    <3>1. op'.type = "polygon" /\ op'.maxd = 0
      BY <1>a, <2>3 DEF IsOp
    <3>2. Reasons'
      BY <2>1, <2>3, <3>1 DEF Reasons
    <3> QED
      BY <1>c, <2>3, <3>2 DEF Stops
  <2>4. CASE /\ at' = "compiled"
             /\ op' = [op EXCEPT !.type = "box", !.kind = 2,
                                 !.first = PointOf(Value[1]), !.corner = PointOf(Value[2])]
    <3>1. op'.type = "box"
      BY <1>a, <2>4 DEF IsOp
    <3>2. Reasons'
      BY <2>1, <2>4, <3>1 DEF Reasons, FromLine
    <3> QED
      BY <1>c, <2>4, <3>2 DEF Stops
  <2>5. CASE at' = at /\ part' = part + 1 /\ op' = op /\ NoShape(part)
    <3>1. op.freed \/ \A i \in 1 .. part' - 1 : NoShape(i)
      BY <1>a, <2>1, <2>5
    <3>2. Reasons'
      BY <2>1, <2>5, <3>1 DEF Reasons, Fills, NoShape
    <3> QED
      BY <1>c, <2>1, <2>5, <3>2 DEF Stops
  <2>6. CASE ReadBox
    BY <2>2, <2>4, <2>5, <2>6 DEF ReadBox, NoShape, Value
  <2>7. CASE StartPolygon
    BY <2>2, <2>3, <2>7 DEF StartPolygon
  <2>8. CASE SkipPart
    BY <2>5, <2>8 DEF SkipPart, NoShape
  <2> QED
    BY <1>5, <2>6, <2>7, <2>8
<1>6. CASE AddPoint
  <2>1. /\ at = "points" /\ query.name = "within" /\ op.type = "polygon"
        /\ part \in DOMAIN query.parts /\ query.parts[part].key = "$polygon"
        /\ index = op.maxd + 1 /\ op.maxd = Len(op.points) /\ op.maxd < MaxPoints
        /\ query' = query /\ Len(op.points) \in Nat
    BY <1>6, <1>a, ListLength DEF AddPoint, Reasons, Counted, IsOp
  <2>2. CASE op.maxd + 1 >= MaxPoints
    <3>1. /\ op' = [op EXCEPT !.freed = TRUE] /\ at' = "within" /\ index' = 1
          /\ index <= Len(query.parts[part].value)
      BY <1>6, <2>1, <2>2, MaxPointsAssumption DEF AddPoint, Value
    <3>2. op'.freed
      BY <1>a, <3>1 DEF IsOp
    <3>3. Len(query.parts[part].value) >= MaxPoints
      BY <2>1, <2>2, <3>1, MaxPointsAssumption
    <3>4. Fills(part)
      BY <2>1, <3>3 DEF Fills
    <3>5. Reasons'
      BY <2>1, <3>1, <3>2, <3>4 DEF Reasons, Fills
    <3> QED
      BY <1>c, <3>1, <3>5 DEF Stops
  <2>3. CASE ~(op.maxd + 1 >= MaxPoints)
    <3>1. /\ op' = [op EXCEPT !.points = Append(@, PointOf(Value[index])), !.maxd = @ + 1]
          /\ index' = index + 1 /\ part' = part /\ at' = at
      BY <1>6, <2>1, <2>3, MaxPointsAssumption DEF AddPoint
    <3>2. op'.type = op.type /\ op'.maxd = op.maxd + 1
      BY <1>a, <3>1 DEF IsOp
    <3>3. Reasons'
      BY <2>1, <3>1, <3>2 DEF Reasons
    <3> QED
      BY <1>c, <2>1, <3>1, <3>3 DEF Stops
  <2> QED
    BY <2>2, <2>3
<1>7. CASE PolygonRead
  <2>1. /\ at = "points" /\ at' = "compiled" /\ query' = query /\ op' = op /\ index' = 1
    BY <1>7 DEF PolygonRead
  <2>2. Reasons'
    BY <1>a, <2>1 DEF Reasons, FromLine
  <2> QED
    BY <1>c, <2>1, <2>2 DEF Stops
<1>8. CASE NothingWithin
  <2>1. /\ at = "within" /\ part > Len(query.parts) /\ at' = "abort" /\ query' = query
        /\ query.name = "within"
        /\ IF op.freed THEN \E i \in DOMAIN query.parts : Fills(i)
           ELSE \A i \in 1 .. part - 1 : NoShape(i)
    BY <1>8, <1>a DEF NothingWithin, Reasons
  <2>2. CASE op.freed
    <3>1. StopsExplained'
      BY <2>1, <2>2 DEF StopsExplained, Fills
    <3> QED
      BY <1>d, <2>1, <3>1
  <2>3. CASE ~op.freed
    <3>1. \A i \in DOMAIN query.parts : NoShape(i)
      BY <1>a, <1>b, <2>1, <2>3
    <3>2. StopsExplained'
      BY <2>1, <3>1 DEF StopsExplained, NoShape
    <3> QED
      BY <1>d, <2>1, <3>2
  <2> QED
    BY <2>2, <2>3
<1>9. CASE MatchPolygon
  <2>1. /\ at = "compiled" /\ op.type = "polygon" /\ query.name = "within"
        /\ query' = query /\ op' = op /\ doc' = doc
    BY <1>9, <1>a DEF MatchPolygon, Matching, Reasons
  <2>2. CASE at' = "undefined" /\ doc.type = "geo" /\ doc.at.type = "none"
    <3>1. StopsExplained'
      BY <2>1, <2>2 DEF StopsExplained
    <3> QED
      BY <1>d, <2>2, <3>1
  <2>3. CASE at' = "answered"
    BY <1>c, <1>d, <2>3 DEF Stops
  <2> QED
    BY <1>9, <2>2, <2>3 DEF MatchPolygon, Answer
<1>10. CASE StartBoundary
  <2>1. /\ at = "compiled" /\ op.type = "boundary" /\ query' = query /\ op' = op
        /\ index' = index /\ index = 1 /\ FromLine
    BY <1>10, <1>a DEF StartBoundary, Reasons
  <2>2. CASE at' = "boundary" /\ op.points # << >>
    <3>1. Len(op.points) \in Nat \ {0}
      BY <1>a, <2>2, ListLength DEF IsOp
    <3>2. Reasons'
      BY <2>1, <2>2, <3>1 DEF Reasons, FromLine, IsLine
    <3> QED
      BY <1>c, <2>2, <3>2 DEF Stops
  <2>3. CASE at' = "answered"
    BY <1>c, <1>d, <2>3 DEF Stops
  <2> QED
    BY <1>10, <2>2, <2>3 DEF StartBoundary, Answer
<1>11. CASE NextVertex
  <2>1. /\ at = "boundary" /\ op.type = "boundary" /\ query' = query /\ op' = op
        /\ index \in 1 .. Len(op.points) /\ (index = Len(op.points) => Len(op.points) = 1)
        /\ FromLine /\ Len(op.points) \in Nat
    BY <1>11, <1>a, ListLength DEF NextVertex, Reasons, IsOp
  <2>2. CASE at' = "answered"
    BY <1>c, <1>d, <2>2 DEF Stops
  <2>3. CASE at' = "nullPointer" /\ index = Len(op.points)
    <3>1. /\ query.name = "geometry"
          /\ \E i \in DOMAIN query.parts : IsLine(i, 1)
      <4>1. op.points # << >>
        BY <1>a, <2>1, ListLength DEF IsOp
      <4> QED
        BY <2>1, <2>3, <4>1 DEF FromLine
    <3>2. StopsExplained'
      BY <2>1, <3>1 DEF StopsExplained, IsLine
    <3> QED
      BY <1>d, <2>3, <3>2
  <2>4. CASE /\ at' = at /\ index' = index + 1 /\ index # Len(op.points)
             /\ index + 1 # Len(op.points)
    <3>1. index' \in 1 .. Len(op.points) /\ index' # Len(op.points)
      BY <2>1, <2>4
    <3>2. Reasons'
      BY <2>1, <2>4, <3>1 DEF Reasons, FromLine, IsLine
    <3> QED
      BY <1>c, <2>1, <2>4, <3>2 DEF Stops
  <2> QED
    BY <1>11, <2>1, <2>2, <2>3, <2>4 DEF NextVertex, Answer
<1>12. CASE MatchNear \/ MatchGeoNear \/ MatchBox \/ StartRing \/ RingPoint \/ Destroy
  <2>1. at' \in {"answered", "ring", "destroyed"}
    BY <1>12 DEF MatchNear, MatchGeoNear, MatchBox, StartRing, RingPoint, Destroy, Answer
  <2> QED
    BY <1>c, <1>d, <2>1 DEF Stops
<1>13. CASE Stopped \/ UNCHANGED vars
  BY <1>13, <1>a
  DEF Stopped, vars, Reasons, StopsExplained, FromLine, Fills, NoShape, IsLine
<1> QED
  BY <1>1, <1>2, <1>3, <1>4, <1>5, <1>6, <1>7, <1>8, <1>9, <1>10, <1>11, <1>12, <1>13
  DEF Next

\* For any queries and documents: what stops the program at the spec of a geo
\* operator or at a document it is matched with is one of the things named.
THEOREM GeoStopsHaveReasons == Spec => []StopsExplained
<1>1. ReasonInv => StopsExplained
  BY DEF ReasonInv
<1> QED
  BY <1>1, ReasonInit, ReasonStep, PTL DEF Spec
-----------------------------------------------------------------------------
(***************************************************************************)
(* The count of point_in_poly.                                             *)
(***************************************************************************)
\* The parities of the crossings are what their definition says.
LEMMA ParitiesAre ==
  ASSUME NEW points, NEW p, Len(points) \in Nat
  PROVE  /\ ~Parities(points, p)[0]
         /\ \A n \in 1 .. Len(points) :
              Parities(points, p)[n] <=> ~(Parities(points, p)[n - 1] <=> Crosses(points, n, p))
<1> DEFINE N == Len(points)
           C == 0 .. N
           depth == [n \in C |-> n]
           crossed == {n \in C : Crosses(points, n, p)}
           K == [n \in C |-> IF n = 0 THEN {} ELSE {n - 1}]
           B == [n \in C |-> [g \in [K[n] -> BOOLEAN] |->
                                IF n = 0 THEN FALSE ELSE g[n - 1] # Crosses(points, n, p)]]
<1>0. N \in Nat
  OBVIOUS
<1>a. \A n \in C : Crosses(points, n, p) \in BOOLEAN
  BY DEF Crosses
<1>1. Recursive(C, BOOLEAN, depth, K, B)
  <2>1. depth \in [C -> Nat] /\ K \in [C -> SUBSET C]
    BY <1>0
  <2>2. \A n \in C : \A k \in K[n] : depth[k] < depth[n]
    BY <1>0
  <2>3. \A n \in C : \A g \in [K[n] -> BOOLEAN] : B[n][g] \in BOOLEAN
    OBVIOUS
  <2> HIDE DEF B, K, depth
  <2> QED
    BY <2>1, <2>2, <2>3 DEF Recursive
<1>2. PICK f \in [C -> BOOLEAN] : \A n \in C : f[n] = B[n][[k \in K[n] |-> f[k]]]
  <2> HIDE DEF C, K, B, depth
  <2> QED
    BY <1>1, RecursionExists
<1>3. \A n \in C : f[n] = IF n = 0 THEN FALSE ELSE f[n - 1] # Crosses(points, n, p)
  <2> SUFFICES ASSUME NEW n \in C
               PROVE  f[n] = IF n = 0 THEN FALSE ELSE f[n - 1] # Crosses(points, n, p)
    OBVIOUS
  <2> DEFINE g == [k \in K[n] |-> f[k]]
  <2>1. K[n] \subseteq C
    BY <1>0
  <2>2. g \in [K[n] -> BOOLEAN]
    BY <2>1
  <2>3. n # 0 => g[n - 1] = f[n - 1]
    OBVIOUS
  <2>4. f[n] = B[n][g]
    BY <1>2
  <2> HIDE DEF g
  <2>5. B[n][g] = IF n = 0 THEN FALSE ELSE g[n - 1] # Crosses(points, n, p)
    BY <2>2
  <2> QED
    BY <2>3, <2>4, <2>5
<1> DEFINE Eqn(h) == h = [n \in 0 .. Len(points) |->
                            IF n = 0 THEN FALSE ELSE h[n - 1] # Crosses(points, n, p)]
           F == CHOOSE h : Eqn(h)
<1>4. Eqn(f)
  <2> DEFINE e == [n \in C |-> IF n = 0 THEN FALSE ELSE f[n - 1] # Crosses(points, n, p)]
  <2>1. \A n \in C : f[n] = e[n]
    BY <1>3
  <2>2. DOMAIN e = C /\ e = [n \in C |-> e[n]]
    OBVIOUS
  <2> HIDE DEF e
  <2>3. f = e
    BY <2>1, <2>2
  <2> QED
    BY <2>3 DEF e
<1>5. Eqn(F)
  <2> HIDE DEF Eqn
  <2> QED
    BY <1>4
<1>6. Parities(points, p) = F
  BY DEF Parities
<1> HIDE DEF F
<1>7. /\ F[0] = FALSE
      /\ \A n \in 1 .. N : F[n] = (F[n - 1] # Crosses(points, n, p))
  <2>1. \A n \in C : F[n] = IF n = 0 THEN FALSE ELSE F[n - 1] # Crosses(points, n, p)
    BY <1>5
  <2>2. 0 \in C /\ \A n \in 1 .. N : n \in C /\ n # 0
    BY <1>0
  <2> HIDE DEF C, N
  <2> QED
    BY <2>1, <2>2
<1>8. \A n \in 1 .. N : F[n - 1] \in BOOLEAN
  <2>1. \A n \in C : F[n] \in BOOLEAN
    <3>1. \A n \in 1 .. N : F[n] \in BOOLEAN
      BY <1>7
    <3>2. \A n \in C : n = 0 \/ n \in 1 .. N
      BY <1>0
    <3> QED
      BY <1>7, <3>1, <3>2
  <2>2. \A n \in 1 .. N : n - 1 \in C
    BY <1>0
  <2> QED
    BY <2>1, <2>2
<1>9. ASSUME NEW n \in 1 .. N
      PROVE  F[n] <=> ~(F[n - 1] <=> Crosses(points, n, p))
  <2>1. F[n - 1] \in BOOLEAN /\ Crosses(points, n, p) \in BOOLEAN
    <3>1. n \in C
      BY <1>0
    <3> QED
      BY <1>8, <1>a, <3>1
  <2>2. F[n] = (F[n - 1] # Crosses(points, n, p))
    BY <1>7
  <2> QED
    BY <2>1, <2>2
<1> QED
  BY <1>6, <1>7, <1>9

\* When no edges but those that end in u and in v may be crossed, the point is
\* within if one of the two is.
LEMMA TwoCrossings ==
  ASSUME NEW points, NEW p, Len(points) \in Nat,
         NEW u \in 1 .. Len(points), NEW v \in 1 .. Len(points), u # v,
         \A k \in 1 .. Len(points) : Crosses(points, k, p) => k = u \/ k = v
  PROVE  PointInPoly(points, p) <=> ~(Crosses(points, u, p) <=> Crosses(points, v, p))
<1> DEFINE N == Len(points)
           C == 0 .. N
           F == Parities(points, p)
           depth == [n \in C |-> n]
           One(n) == ~((n >= u /\ Crosses(points, u, p)) <=> (n >= v /\ Crosses(points, v, p)))
           G == {n \in C : F[n] <=> One(n)}
<1>1. N \in Nat /\ ~F[0] /\ \A n \in 1 .. N : F[n] <=> ~(F[n - 1] <=> Crosses(points, n, p))
  BY ParitiesAre
<1>2. \A n \in C : (\A k \in C : depth[k] < depth[n] => k \in G) => n \in G
  <2> SUFFICES ASSUME NEW n \in C, \A k \in C : depth[k] < depth[n] => k \in G
               PROVE  F[n] <=> One(n)
    OBVIOUS
  <2> HIDE DEF F
  <2>1. CASE n = 0
    BY <1>1, <2>1
  <2>2. CASE n # 0
    <3>1. n - 1 \in C /\ n \in 1 .. N /\ n - 1 < n
      BY <1>1, <2>2
    <3>2. F[n - 1] <=> One(n - 1)
      BY <3>1
    <3>3. CASE n = u
      <4>1. n >= u /\ ~(n - 1 >= u) /\ (n >= v <=> n - 1 >= v)
        BY <3>1, <3>3
      <4> QED
        BY <1>1, <3>1, <3>2, <3>3, <4>1
    <3>4. CASE n = v
      <4>1. n >= v /\ ~(n - 1 >= v) /\ (n >= u <=> n - 1 >= u)
        BY <3>1, <3>4
      <4> QED
        BY <1>1, <3>1, <3>2, <3>4, <4>1
    <3>5. CASE n # u /\ n # v
      <4>1. (n >= v <=> n - 1 >= v) /\ (n >= u <=> n - 1 >= u)
        BY <3>1, <3>5
      <4>2. ~Crosses(points, n, p)
        BY <3>1, <3>5
      <4> QED
        BY <1>1, <3>1, <3>2, <4>1, <4>2
    <3> QED
      BY <3>3, <3>4, <3>5
  <2> QED
    BY <2>1, <2>2
<1>3. G \subseteq C /\ depth \in [C -> Nat]
  BY <1>1
<1> HIDE DEF G, depth, C
<1>4. G = C
  BY <1>2, <1>3, Shallowest
<1>5. N \in C
  BY <1>1 DEF C
<1>6. F[N] <=> One(N)
  BY <1>4, <1>5 DEF G
<1>7. N >= u /\ N >= v
  BY <1>1
<1> QED
  BY <1>6, <1>7 DEF PointInPoly
-----------------------------------------------------------------------------
(***************************************************************************)
(* Signs and sides: what is known of products and of Across.               *)
(***************************************************************************)
Plane == [x : Int, y : Int]

\* The signs of products.
LEMMA Signs ==
  ASSUME NEW m \in Int, NEW n \in Int
  PROVE  /\ m * n \in Int
         /\ m > 0 /\ n > 0 => m * n > 0
         /\ m >= 0 /\ n >= 0 => m * n >= 0
         /\ m >= 0 /\ n <= 0 => m * n <= 0
         /\ m <= 0 /\ n >= 0 => m * n <= 0
         /\ m <= 0 /\ n <= 0 => m * n >= 0
         /\ m > 0 /\ n < 0 => m * n < 0
         /\ m < 0 /\ n > 0 => m * n < 0
  OBVIOUS

\* The sign of a difference.
LEMMA Differences ==
  ASSUME NEW m \in Int, NEW n \in Int
  PROVE  m - n \in Int /\ (m <= n => m - n <= 0) /\ (n <= m => m - n >= 0)
  OBVIOUS

\* Two numbers that are not positive and whose sum is not negative.
LEMMA SumOfNegatives ==
  ASSUME NEW k \in Int, NEW m \in Int, NEW n \in Int,
         k >= 0, m <= 0, n <= 0, k = m + n
  PROVE  m = 0 /\ n = 0
  OBVIOUS

\* What Across gives is a number, and its sign is that of the direction.
LEMMA AcrossType ==
  ASSUME NEW a \in Plane, NEW b \in Plane, NEW c \in Plane
  PROVE  /\ Across(a, b, c) \in Int
         /\ Across(b, a, c) = -Across(a, b, c)
         /\ Across(a, b, a) = 0 /\ Across(a, b, b) = 0
  BY DEF Across, Plane

\* Seen from the point.
LEMMA AcrossSeen ==
  ASSUME NEW a \in Plane, NEW b \in Plane, NEW p \in Plane
  PROVE  Across(a, b, p) = ((a.x - p.x) * (b.y - p.y)) - ((b.x - p.x) * (a.y - p.y))
  BY DEF Across, Plane

\* Seen from a segment that a horizontal line meets, the ends of another: where
\* the two cross the line.
LEMMA TwoSegments ==
  ASSUME NEW a \in Plane, NEW b \in Plane, NEW c \in Plane, NEW d \in Plane, NEW h \in Int
  PROVE  /\ (d.y - h) * Across(a, b, c) + (h - c.y) * Across(a, b, d)
              = -((b.y - h) * Across(c, d, a) + (h - a.y) * Across(c, d, b))
  BY DEF Across, Plane

\* Where the segment from a to b is at the height of p, seen from g to k.
LEMMA AtHeight ==
  ASSUME NEW a \in Plane, NEW b \in Plane, NEW g \in Plane, NEW k \in Plane, NEW p \in Plane
  PROVE  (b.y - p.y) * Across(g, k, a) + (p.y - a.y) * Across(g, k, b)
           = (b.y - a.y) * Across(g, k, p) - (k.y - g.y) * Across(a, b, p)
  BY DEF Across, Plane
-----------------------------------------------------------------------------
(***************************************************************************)
(* Going round.                                                            *)
(***************************************************************************)
\* A set of places round a ring that holds what comes before each of its members
\* is all of them.
LEMMA AllRound ==
  ASSUME NEW n \in Nat, NEW S, S \subseteq 1 .. n, S # {},
         \A k \in S : (IF k = 1 THEN n ELSE k - 1) \in S
  PROVE  S = 1 .. n
<1>1. PICK m \in S : \A k \in S : m <= k
  <2>1. S \subseteq Nat
    OBVIOUS
  <2> QED
    BY <2>1, Least
<1>2. m = 1
  <2>1. CASE m # 1
    <3>1. m - 1 \in S /\ m \in Nat
      BY <2>1
    <3> QED
      BY <1>1, <3>1
  <2> QED
    BY <2>1
<1>3. n \in S
  BY <1>2
<1> SUFFICES ASSUME NEW j \in 1 .. n, j \notin S PROVE FALSE
  OBVIOUS
<1> DEFINE T == {n - k : k \in (1 .. n) \ S}
<1>4. T \subseteq Nat /\ T # {}
  OBVIOUS
<1>5. PICK x \in T : \A y \in T : x <= y
  <2> HIDE DEF T
  <2> QED
    BY <1>4, Least
<1>6. PICK k \in (1 .. n) \ S : x = n - k
  OBVIOUS
<1>7. k # n /\ k + 1 \in 1 .. n
  BY <1>3
<1>8. k + 1 \in S
  <2>1. CASE k + 1 \notin S
    <3>1. n - (k + 1) \in T
      BY <1>7, <2>1
    <3>2. n - k <= n - (k + 1)
      BY <1>5, <1>6, <3>1
    <3> QED
      BY <3>2
  <2> QED
    BY <2>1
<1> QED
  BY <1>6, <1>7, <1>8

\* Going round a point, always the same way, one gets above it.
LEMMA NotBelow ==
  ASSUME NEW n \in Nat \ {0}, NEW X \in [1 .. n -> Int], NEW Y \in [1 .. n -> Int],
         \A k \in 1 .. n : Y[k] <= 0,
         \A k \in 1 .. n :
           LET b == IF k = 1 THEN n ELSE k - 1 IN (X[b] * Y[k]) - (X[k] * Y[b]) > 0
  PROVE  FALSE
<1> DEFINE After(k) == \/ k = 1
                       \/ (X[1] * Y[k]) - (X[k] * Y[1]) > 0
                       \/ Y[1] = 0 /\ Y[k] = 0 /\ X[1] < 0 /\ X[k] > 0
           T == {k \in 1 .. n : ~After(k)}
<1>1. T = {}
  <2> SUFFICES ASSUME T # {} PROVE FALSE
    OBVIOUS
  <2>1. PICK m \in T : \A k \in T : m <= k
    <3>1. T \subseteq Nat
      OBVIOUS
    <3> HIDE DEF T
    <3> QED
      BY <3>1, Least
  <2>2. m \in 1 .. n /\ m - 1 \in 1 .. n /\ m # 1 /\ ~After(m)
    OBVIOUS
  <2>3. After(m - 1)
    <3>1. m - 1 \notin T
      BY <2>1, <2>2
    <3> QED
      BY <2>2, <3>1
  <2>4. (X[m - 1] * Y[m]) - (X[m] * Y[m - 1]) > 0
    BY <2>2
  <2> DEFINE a == X[1]
             b == Y[1]
             c == X[m - 1]
             d == Y[m - 1]
             e == X[m]
             f == Y[m]
  <2>5. a \in Int /\ b \in Int /\ c \in Int /\ d \in Int /\ e \in Int /\ f \in Int
        /\ b <= 0 /\ d <= 0 /\ f <= 0
    BY <2>2
  <2>6. (c * f) - (e * d) > 0
    BY <2>4
  <2>7. \/ a = c /\ b = d
        \/ (a * d) - (c * b) > 0
        \/ b = 0 /\ d = 0 /\ a < 0 /\ c > 0
    BY <2>2, <2>3
  <2>8. ~((a * f) - (e * b) > 0) /\ ~(b = 0 /\ f = 0 /\ a < 0 /\ e > 0)
    BY <2>2
  <2> HIDE DEF a, b, c, d, e, f
  <2>9. CASE a = c /\ b = d
    BY <2>6, <2>8, <2>9
  <2>10. CASE b = 0 /\ d = 0 /\ a < 0 /\ c > 0
    <3>1. c * f \in Int /\ c * f <= 0
      BY <2>5, <2>10, Signs
    <3>2. e * d = 0
      BY <2>5, <2>10
    <3> QED
      BY <2>6, <3>1, <3>2
  <2>11. CASE (a * d) - (c * b) > 0
    <3>1. d * ((a * f) - (e * b)) = f * ((a * d) - (c * b)) + b * ((c * f) - (e * d))
      BY <2>5
    <3> DEFINE u == (a * d) - (c * b)
               v == (c * f) - (e * d)
               w == (a * f) - (e * b)
    <3>2. u \in Int /\ v \in Int /\ w \in Int /\ u > 0 /\ v > 0 /\ w <= 0
      BY <2>5, <2>6, <2>8, <2>11, Signs
    <3>3. d * w = f * u + b * v
      BY <3>1
    <3>4. CASE d = 0
      <4>1. u = -(c * b) /\ v = c * f
        BY <2>5, <3>4, Signs
      <4> HIDE DEF u, v, w
      <4>2. c * b < 0 /\ c * f > 0
        BY <2>5, <3>2, <4>1, Signs
      <4>3. c > 0
        BY <2>5, <4>2, Signs
      <4> QED
        BY <2>5, <4>2, <4>3, Signs
    <3>5. CASE d < 0
      <4> HIDE DEF u, v, w
      <4>a. d \in Int /\ w \in Int /\ f \in Int /\ u \in Int /\ b \in Int /\ v \in Int
            /\ d <= 0 /\ w <= 0 /\ f <= 0 /\ u >= 0 /\ b <= 0 /\ v >= 0
        BY <2>5, <3>2
      <4>b. d * w \in Int /\ d * w >= 0
        BY <4>a, Signs
      <4>c. f * u \in Int /\ f * u <= 0
        BY <4>a, Signs
      <4>d. b * v \in Int /\ b * v <= 0
        BY <4>a, Signs
      <4>2. f * u = 0 /\ b * v = 0
        BY <3>3, <4>b, <4>c, <4>d, SumOfNegatives
      <4>3. f = 0 /\ b = 0
        BY <2>5, <3>2, <4>2, Signs
      <4>4. a * d > 0 /\ e * d < 0
        BY <2>5, <3>2, <4>3, Signs DEF u, v
      <4>5. a < 0 /\ e > 0
        BY <2>5, <3>5, <4>4, Signs
      <4> QED
        BY <2>8, <4>3, <4>5
    <3> QED
      BY <2>5, <3>4, <3>5
  <2> QED
    BY <2>7, <2>9, <2>10, <2>11
<1>2. 1 \in 1 .. n /\ n \in 1 .. n
  OBVIOUS
<1>3. After(n)
  BY <1>1, <1>2
<1>4. (X[n] * Y[1]) - (X[1] * Y[n]) > 0
  BY <1>2
<1> DEFINE q == X[n] * Y[1]
           r == X[1] * Y[n]
<1>5. q \in Int /\ r \in Int /\ q - r > 0
  BY <1>2, <1>4, Signs
<1>6. CASE n = 1
  <2>1. q = r
    BY <1>6
  <2> QED
    BY <1>5, <2>1
<1>7. CASE r - q > 0
  BY <1>5, <1>7
<1>8. CASE Y[1] = 0 /\ Y[n] = 0
  <2>1. q = 0 /\ r = 0
    BY <1>2, <1>8
  <2> QED
    BY <1>5, <2>1
<1> QED
  BY <1>3, <1>6, <1>7, <1>8
-----------------------------------------------------------------------------
(***************************************************************************)
(* A convex polygon.  Its edges, those of one that turns clockwise taken   *)
(* the other way round, have the polygon on their left.                    *)
(***************************************************************************)
Polygon(ps, way) ==
  ps \in Seq(Plane) /\ Len(ps) >= 3 /\ way \in {1, -1} /\ TurnsOneWay(ps, way)

EdgeFrom(ps, way, i) == ps[IF way = 1 THEN Before(ps, i) ELSE i]
EdgeTo(ps, way, i) == ps[IF way = 1 THEN i ELSE Before(ps, i)]
Left(ps, way, i, q) == Across(EdgeFrom(ps, way, i), EdgeTo(ps, way, i), q)

\* The edge meets the horizontal through p, going up or down.
Rises(ps, way, i, p) == EdgeFrom(ps, way, i).y <= p.y /\ p.y < EdgeTo(ps, way, i).y
Falls(ps, way, i, p) == p.y < EdgeFrom(ps, way, i).y /\ EdgeTo(ps, way, i).y <= p.y

\* The edges of a polygon are between two of its points.
LEMMA Edges ==
  ASSUME NEW ps, NEW way, Polygon(ps, way)
  PROVE  /\ Len(ps) \in Nat /\ Len(ps) >= 3 /\ DOMAIN ps = 1 .. Len(ps)
         /\ \A i \in 1 .. Len(ps) :
              /\ ps[i] \in Plane
              /\ Before(ps, i) \in 1 .. Len(ps) /\ Before(ps, i) # i
              /\ EdgeFrom(ps, way, i) \in Plane /\ EdgeTo(ps, way, i) \in Plane
         /\ \A i, j \in 1 .. Len(ps) : Before(ps, i) = Before(ps, j) => i = j
<1>1. Len(ps) \in Nat /\ Len(ps) >= 3 /\ DOMAIN ps = 1 .. Len(ps)
      /\ \A i \in 1 .. Len(ps) : ps[i] \in Plane
  BY DEF Polygon
<1>2. \A i \in 1 .. Len(ps) : Before(ps, i) \in 1 .. Len(ps) /\ Before(ps, i) # i
  <2> SUFFICES ASSUME NEW i \in 1 .. Len(ps)
               PROVE  Before(ps, i) \in 1 .. Len(ps) /\ Before(ps, i) # i
    OBVIOUS
  <2>1. CASE i = 1
    BY <1>1, <2>1 DEF Before
  <2>2. CASE i # 1
    BY <1>1, <2>2 DEF Before
  <2> QED
    BY <2>1, <2>2
<1>3. \A i, j \in 1 .. Len(ps) : Before(ps, i) = Before(ps, j) => i = j
  BY <1>1 DEF Before
<1> QED
  BY <1>1, <1>2, <1>3 DEF EdgeFrom, EdgeTo

\* On which side of an edge points are.
LEMMA LeftIs ==
  ASSUME NEW ps, NEW way, Polygon(ps, way), NEW i \in 1 .. Len(ps)
  PROVE  /\ \A q \in Plane :
              /\ Left(ps, way, i, q) \in Int
              /\ Across(ps[Before(ps, i)], ps[i], q) \in Int
              /\ Left(ps, way, i, q) = way * Across(ps[Before(ps, i)], ps[i], q)
         /\ \A j \in 1 .. Len(ps) :
              /\ Left(ps, way, i, ps[j]) \in Int
              /\ Left(ps, way, i, ps[j]) >= 0
              /\ j \notin {i, Before(ps, i)} => Left(ps, way, i, ps[j]) > 0
<1> DEFINE a == ps[Before(ps, i)]
           b == ps[i]
<1>1. a \in Plane /\ b \in Plane /\ way \in {1, -1} /\ DOMAIN ps = 1 .. Len(ps)
      /\ \A j \in 1 .. Len(ps) : ps[j] \in Plane
  BY Edges DEF Polygon
<1>2. ASSUME NEW q \in Plane
      PROVE  /\ Left(ps, way, i, q) \in Int
             /\ Across(a, b, q) \in Int
             /\ Left(ps, way, i, q) = way * Across(a, b, q)
  <2>1. Across(a, b, q) \in Int /\ Across(b, a, q) = -Across(a, b, q)
    BY <1>1, AcrossType
  <2>2. CASE way = 1
    <3>1. Left(ps, way, i, q) = Across(a, b, q)
      BY <2>2 DEF Left, EdgeFrom, EdgeTo
    <3> QED
      BY <2>1, <2>2, <3>1
  <2>3. CASE way = -1
    <3>1. Left(ps, way, i, q) = Across(b, a, q)
      BY <2>3 DEF Left, EdgeFrom, EdgeTo
    <3> HIDE DEF a, b
    <3> QED
      BY <2>1, <2>3, <3>1
  <2> QED
    BY <1>1, <2>2, <2>3
<1>3. ASSUME NEW j \in 1 .. Len(ps)
      PROVE  /\ Left(ps, way, i, ps[j]) \in Int
             /\ Left(ps, way, i, ps[j]) >= 0
             /\ j \notin {i, Before(ps, i)} => Left(ps, way, i, ps[j]) > 0
  <2>1. Left(ps, way, i, ps[j]) \in Int /\ Left(ps, way, i, ps[j]) = way * Across(a, b, ps[j])
    BY <1>1, <1>2
  <2>2. CASE j \notin {i, Before(ps, i)}
    <3>1. way * Across(a, b, ps[j]) > 0
      BY <1>1, <2>2 DEF Polygon, TurnsOneWay
    <3> QED
      BY <2>1, <2>2, <3>1
  <2>3. CASE j \in {i, Before(ps, i)}
    <3>1. Across(a, b, ps[j]) = 0
      <4>1. Across(a, b, a) = 0 /\ Across(a, b, b) = 0
        BY <1>1, AcrossType
      <4> QED
        BY <2>3, <4>1
    <3>2. way * 0 = 0
      BY <1>1
    <3> QED
      BY <2>1, <2>3, <3>1, <3>2
  <2> QED
    BY <2>2, <2>3
<1> QED
  BY <1>2, <1>3

\* The ray crosses the edges that rise with p on their left, and those that fall
\* with p on their right.
LEMMA CrossesIf ==
  ASSUME NEW ps, NEW way, Polygon(ps, way), NEW i \in 1 .. Len(ps), NEW p \in Plane
  PROVE  Crosses(ps, i, p) <=> \/ Rises(ps, way, i, p) /\ Left(ps, way, i, p) > 0
                               \/ Falls(ps, way, i, p) /\ Left(ps, way, i, p) < 0
<1> DEFINE a == ps[Before(ps, i)]
           b == ps[i]
           n == Across(a, b, p)
<1>1. a \in Plane /\ b \in Plane /\ way \in {1, -1}
  BY Edges DEF Polygon
<1>2. /\ a.x \in Int /\ a.y \in Int /\ b.x \in Int /\ b.y \in Int /\ p.x \in Int /\ p.y \in Int
      /\ n \in Int
  BY <1>1, AcrossType DEF Plane
<1>4. /\ (p.x - b.x) * (a.y - b.y) < (a.x - b.x) * (p.y - b.y) <=> n < 0
      /\ (p.x - b.x) * (a.y - b.y) > (a.x - b.x) * (p.y - b.y) <=> n > 0
  <2>1. n = ((p.x - b.x) * (a.y - b.y)) - ((a.x - b.x) * (p.y - b.y))
    <3> DEFINE g == a.x
               h == a.y
               j == b.x
               k == b.y
               q == p.x
               r == p.y
    <3>1. n = ((j - g) * (r - h)) - ((k - h) * (q - g))
      BY DEF Across
    <3>2. g \in Int /\ h \in Int /\ j \in Int /\ k \in Int /\ q \in Int /\ r \in Int
      BY <1>2
    <3> HIDE DEF n, g, h, j, k, q, r
    <3>3. n = ((q - j) * (h - k)) - ((g - j) * (r - k))
      BY <3>1, <3>2
    <3> QED
      BY <3>3 DEF g, h, j, k, q, r
  <2> DEFINE k == (p.x - b.x) * (a.y - b.y)
             m == (a.x - b.x) * (p.y - b.y)
  <2>2. k \in Int /\ m \in Int
    <3>1. /\ p.x - b.x \in Int /\ a.y - b.y \in Int
          /\ a.x - b.x \in Int /\ p.y - b.y \in Int
      <4> HIDE DEF a, b, n, k, m
      <4> QED
        BY <1>2
    <3> QED
      BY <3>1, Signs
  <2>3. n = k - m
    BY <2>1
  <2>4. (k < m <=> n < 0) /\ (k > m <=> n > 0)
    <3> HIDE DEF k, m, n
    <3> QED
      BY <2>2, <2>3
  <2> QED
    BY <2>4
<1>5. Crosses(ps, i, p) <=> \/ a.y <= p.y /\ p.y < b.y /\ n > 0
                            \/ p.y < a.y /\ b.y <= p.y /\ n < 0
  <2>1. Crosses(ps, i, p) <=>
          /\ ~((b.y > p.y) <=> (a.y > p.y))
          /\ a.y > b.y => (p.x - b.x) * (a.y - b.y) < (a.x - b.x) * (p.y - b.y)
          /\ ~(a.y > b.y) => (p.x - b.x) * (a.y - b.y) > (a.x - b.x) * (p.y - b.y)
    BY DEF Crosses
  <2>2. Crosses(ps, i, p) <=> /\ ~((b.y > p.y) <=> (a.y > p.y))
                              /\ a.y > b.y => n < 0
                              /\ ~(a.y > b.y) => n > 0
    BY <1>4, <2>1
  <2> HIDE DEF a, b, n
  <2> QED
    BY <1>2, <2>2
<1>6. CASE way = 1
  BY <1>5, <1>6 DEF Rises, Falls, Left, EdgeFrom, EdgeTo
<1>7. CASE way = -1
  <2>1. Across(b, a, p) = -n
    BY <1>1, AcrossType
  <2>2. /\ Rises(ps, way, i, p) <=> b.y <= p.y /\ p.y < a.y
        /\ Falls(ps, way, i, p) <=> p.y < b.y /\ a.y <= p.y
        /\ Left(ps, way, i, p) = -n
    BY <1>7, <2>1 DEF Rises, Falls, Left, EdgeFrom, EdgeTo
  <2> HIDE DEF a, b, n
  <2> QED
    BY <1>2, <1>5, <2>2
<1> QED
  BY <1>1, <1>6, <1>7

\* Of two segments up through a horizontal, not each has the other on its left,
\* nor each on its right.
LEMMA NotBothLeft ==
  ASSUME NEW a \in Plane, NEW b \in Plane, NEW c \in Plane, NEW d \in Plane, NEW h \in Int,
         a.y <= h, h < b.y, c.y <= h, h < d.y, NEW s \in {1, -1},
         s * Across(a, b, c) > 0, s * Across(a, b, d) > 0,
         s * Across(c, d, a) > 0, s * Across(c, d, b) > 0
  PROVE  FALSE
<1> DEFINE k == s * Across(a, b, c)
           l == s * Across(a, b, d)
           m == s * Across(c, d, a)
           n == s * Across(c, d, b)
<1>1. /\ Across(a, b, c) \in Int /\ Across(a, b, d) \in Int
      /\ Across(c, d, a) \in Int /\ Across(c, d, b) \in Int
  BY AcrossType
<1>2. /\ k \in Int /\ l \in Int /\ m \in Int /\ n \in Int
      /\ k > 0 /\ l > 0 /\ m > 0 /\ n > 0
  BY <1>1
<1>3. (d.y - h) * k + (h - c.y) * l = -((b.y - h) * m + (h - a.y) * n)
  <2>1. (d.y - h) * Across(a, b, c) + (h - c.y) * Across(a, b, d)
          = -((b.y - h) * Across(c, d, a) + (h - a.y) * Across(c, d, b))
    BY TwoSegments
  <2> DEFINE e == Across(a, b, c)
             f == Across(a, b, d)
             g == Across(c, d, a)
             i == Across(c, d, b)
  <2>2. /\ d.y - h \in Int /\ h - c.y \in Int /\ b.y - h \in Int /\ h - a.y \in Int
        /\ e \in Int /\ f \in Int /\ g \in Int /\ i \in Int
    BY <1>1 DEF Plane
  <2>3. (d.y - h) * e + (h - c.y) * f = -((b.y - h) * g + (h - a.y) * i)
    BY <2>1
  <2>4. k = s * e /\ l = s * f /\ m = s * g /\ n = s * i
    OBVIOUS
  <2> HIDE DEF e, f, g, i, k, l, m, n
  <2>5. CASE s = 1
    <3>1. k = e /\ l = f /\ m = g /\ n = i
      BY <2>2, <2>4, <2>5
    <3> QED
      BY <2>3, <3>1
  <2>6. CASE s = -1
    <3>1. k = -e /\ l = -f /\ m = -g /\ n = -i
      BY <2>2, <2>4, <2>6
    <3> QED
      BY <2>2, <2>3, <3>1
  <2> QED
    BY <2>5, <2>6
<1>4. /\ d.y - h \in Int /\ h - c.y \in Int /\ b.y - h \in Int /\ h - a.y \in Int
      /\ d.y - h > 0 /\ h - c.y >= 0 /\ b.y - h > 0 /\ h - a.y >= 0
  BY DEF Plane
<1> HIDE DEF k, l, m, n
<1>5. (d.y - h) * k \in Int /\ (d.y - h) * k > 0
  BY <1>2, <1>4, Signs
<1>6. (h - c.y) * l \in Int /\ (h - c.y) * l >= 0
  BY <1>2, <1>4, Signs
<1>7. (b.y - h) * m \in Int /\ (b.y - h) * m > 0
  BY <1>2, <1>4, Signs
<1>8. (h - a.y) * n \in Int /\ (h - a.y) * n >= 0
  BY <1>2, <1>4, Signs
<1> DEFINE q == (d.y - h) * k
           r == (h - c.y) * l
           t == (b.y - h) * m
           u == (h - a.y) * n
<1>9. /\ q \in Int /\ r \in Int /\ t \in Int /\ u \in Int
      /\ q > 0 /\ r >= 0 /\ t > 0 /\ u >= 0 /\ q + r = -(t + u)
  BY <1>3, <1>5, <1>6, <1>7, <1>8
<1> HIDE DEF q, r, t, u
<1> QED
  BY <1>9

\* At most one edge of a convex polygon rises through a horizontal, and at most
\* one falls.
LEMMA OneOfEach ==
  ASSUME NEW ps, NEW way, Polygon(ps, way), NEW p \in Plane,
         NEW i \in 1 .. Len(ps), NEW j \in 1 .. Len(ps), i # j
  PROVE  /\ ~(Rises(ps, way, i, p) /\ Rises(ps, way, j, p))
         /\ ~(Falls(ps, way, i, p) /\ Falls(ps, way, j, p))
<1> DEFINE b(k) == Before(ps, k)
           ti == EdgeFrom(ps, way, i)
           hi == EdgeTo(ps, way, i)
           tj == EdgeFrom(ps, way, j)
           hj == EdgeTo(ps, way, j)
<1>1. /\ ti \in Plane /\ hi \in Plane /\ tj \in Plane /\ hj \in Plane
      /\ b(i) \in 1 .. Len(ps) /\ b(j) \in 1 .. Len(ps) /\ b(i) # b(j)
      /\ way \in {1, -1} /\ p.y \in Int
  BY Edges DEF Polygon, Plane
<1>2. ASSUME j # b(i), i # b(j)
      PROVE  /\ Across(ti, hi, tj) > 0 /\ Across(ti, hi, hj) > 0
             /\ Across(tj, hj, ti) > 0 /\ Across(tj, hj, hi) > 0
  <2>1. /\ Left(ps, way, i, ps[j]) > 0 /\ Left(ps, way, i, ps[b(j)]) > 0
        /\ Left(ps, way, j, ps[i]) > 0 /\ Left(ps, way, j, ps[b(i)]) > 0
    BY <1>1, <1>2, LeftIs
  <2> QED
    BY <1>1, <2>1 DEF Left, EdgeFrom, EdgeTo
<1>3. ASSUME j = b(i) \/ i = b(j)
      PROVE  ti = hj \/ tj = hi
  <2>1. CASE way = 1
    BY <1>3, <2>1 DEF EdgeFrom, EdgeTo
  <2>2. CASE way = -1
    BY <1>3, <2>2 DEF EdgeFrom, EdgeTo
  <2> QED
    BY <1>1, <2>1, <2>2
<1>4. ASSUME Rises(ps, way, i, p), Rises(ps, way, j, p) PROVE FALSE
  <2>1. ti.y <= p.y /\ p.y < hi.y /\ tj.y <= p.y /\ p.y < hj.y
    BY <1>4 DEF Rises
  <2> HIDE DEF ti, hi, tj, hj
  <2>2. ti # hj /\ tj # hi
    BY <1>1, <2>1 DEF Plane
  <2>3. /\ Across(ti, hi, tj) > 0 /\ Across(ti, hi, hj) > 0
        /\ Across(tj, hj, ti) > 0 /\ Across(tj, hj, hi) > 0
    BY <1>2, <1>3, <2>2
  <2>4. /\ 1 * Across(ti, hi, tj) > 0 /\ 1 * Across(ti, hi, hj) > 0
        /\ 1 * Across(tj, hj, ti) > 0 /\ 1 * Across(tj, hj, hi) > 0
    <3>1. /\ Across(ti, hi, tj) \in Int /\ Across(ti, hi, hj) \in Int
          /\ Across(tj, hj, ti) \in Int /\ Across(tj, hj, hi) \in Int
      BY <1>1, AcrossType
    <3> QED
      BY <2>3, <3>1
  <2> QED
    BY <1>1, <2>1, <2>4, NotBothLeft
<1>5. ASSUME Falls(ps, way, i, p), Falls(ps, way, j, p) PROVE FALSE
  <2>1. p.y < ti.y /\ hi.y <= p.y /\ p.y < tj.y /\ hj.y <= p.y
    BY <1>5 DEF Falls
  <2> HIDE DEF ti, hi, tj, hj
  <2>2. ti # hj /\ tj # hi
    BY <1>1, <2>1 DEF Plane
  <2>3. /\ Across(ti, hi, tj) > 0 /\ Across(ti, hi, hj) > 0
        /\ Across(tj, hj, ti) > 0 /\ Across(tj, hj, hi) > 0
    BY <1>2, <1>3, <2>2
  <2>4. /\ Across(hi, ti, tj) = -Across(ti, hi, tj) /\ Across(hi, ti, hj) = -Across(ti, hi, hj)
        /\ Across(hj, tj, ti) = -Across(tj, hj, ti) /\ Across(hj, tj, hi) = -Across(tj, hj, hi)
    BY <1>1, AcrossType
  <2>5. /\ Across(ti, hi, tj) \in Int /\ Across(ti, hi, hj) \in Int
        /\ Across(tj, hj, ti) \in Int /\ Across(tj, hj, hi) \in Int
    BY <1>1, AcrossType
  <2>6. /\ (-1) * Across(hi, ti, hj) > 0 /\ (-1) * Across(hi, ti, tj) > 0
        /\ (-1) * Across(hj, tj, hi) > 0 /\ (-1) * Across(hj, tj, ti) > 0
    BY <2>3, <2>4, <2>5
  <2> QED
    BY <1>1, <2>1, <2>6, NotBothLeft
<1> QED
  BY <1>4, <1>5

\* A polygon with a point above a horizontal and one that is not goes up through
\* it and down.
LEMMA UpAndDown ==
  ASSUME NEW ps, NEW way, Polygon(ps, way), NEW p \in Plane,
         NEW i \in 1 .. Len(ps), NEW j \in 1 .. Len(ps), ps[i].y <= p.y, p.y < ps[j].y
  PROVE  /\ \E k \in 1 .. Len(ps) : Rises(ps, way, k, p)
         /\ \E k \in 1 .. Len(ps) : Falls(ps, way, k, p)
<1> DEFINE N == Len(ps)
           High == {k \in 1 .. N : p.y < ps[k].y}
           Low  == {k \in 1 .. N : ps[k].y <= p.y}
<1>1. /\ N \in Nat /\ way \in {1, -1} /\ p.y \in Int
      /\ \A k \in 1 .. N : ps[k] \in Plane /\ ps[k].y \in Int /\ Before(ps, k) \in 1 .. N
  BY Edges DEF Polygon, Plane
<1>2. \A k \in 1 .. N : ~(k \in High /\ k \in Low) /\ (k \in High \/ k \in Low)
  <2> SUFFICES ASSUME NEW k \in 1 .. N
               PROVE  ~(k \in High /\ k \in Low) /\ (k \in High \/ k \in Low)
    OBVIOUS
  <2>1. (k \in High <=> p.y < ps[k].y) /\ (k \in Low <=> ps[k].y <= p.y)
    OBVIOUS
  <2>2. ps[k].y \in Int /\ p.y \in Int
    BY <1>1
  <2> HIDE DEF High, Low
  <2> QED
    BY <2>1, <2>2
<1>3. j \in High /\ i \in Low /\ High \subseteq 1 .. N /\ Low \subseteq 1 .. N
  OBVIOUS
<1>4. PICK u \in High : Before(ps, u) \in Low
  <2> SUFFICES ASSUME \A k \in High : Before(ps, k) \notin Low PROVE FALSE
    OBVIOUS
  <2> HIDE DEF High, Low
  <2>1. \A k \in High : (IF k = 1 THEN N ELSE k - 1) \in High
    BY <1>1, <1>2, <1>3 DEF Before
  <2> HIDE DEF N
  <2>2. High = 1 .. N
    BY <1>1, <1>3, <2>1, AllRound
  <2> QED
    BY <1>2, <1>3, <2>2
<1>5. PICK v \in Low : Before(ps, v) \in High
  <2> SUFFICES ASSUME \A k \in Low : Before(ps, k) \notin High PROVE FALSE
    OBVIOUS
  <2> HIDE DEF High, Low
  <2>1. \A k \in Low : (IF k = 1 THEN N ELSE k - 1) \in Low
    BY <1>1, <1>2, <1>3 DEF Before
  <2> HIDE DEF N
  <2>2. Low = 1 .. N
    BY <1>1, <1>3, <2>1, AllRound
  <2> QED
    BY <1>2, <1>3, <2>2
<1>6. /\ u \in 1 .. N /\ ps[Before(ps, u)].y <= p.y /\ p.y < ps[u].y
      /\ v \in 1 .. N /\ ps[v].y <= p.y /\ p.y < ps[Before(ps, v)].y
  BY <1>4, <1>5
<1>7. CASE way = 1
  <2>1. Rises(ps, way, u, p) /\ Falls(ps, way, v, p)
    BY <1>6, <1>7 DEF Rises, Falls, EdgeFrom, EdgeTo
  <2> QED
    BY <1>6, <2>1
<1>8. CASE way = -1
  <2>1. Rises(ps, way, v, p) /\ Falls(ps, way, u, p)
    BY <1>6, <1>8 DEF Rises, Falls, EdgeFrom, EdgeTo
  <2> QED
    BY <1>6, <2>1
<1> QED
  BY <1>1, <1>7, <1>8

\* A polygon that goes round a point is not all above it, nor all not above it.
LEMMA AroundPoint ==
  ASSUME NEW ps, NEW way, Polygon(ps, way), NEW p \in Plane,
         NEW s \in {1, -1}, NEW e \in {1, -1},
         \A k \in 1 .. Len(ps) : s * Across(ps[Before(ps, k)], ps[k], p) > 0,
         \A k \in 1 .. Len(ps) : e * (ps[k].y - p.y) <= 0
  PROVE  FALSE
<1> DEFINE N == Len(ps)
           X == [k \in 1 .. N |-> (s * e) * (ps[k].x - p.x)]
           Y == [k \in 1 .. N |-> e * (ps[k].y - p.y)]
<1>1. /\ N \in Nat \ {0} /\ p.x \in Int /\ p.y \in Int
      /\ \A k \in 1 .. N :
           /\ ps[k] \in Plane /\ ps[k].x \in Int /\ ps[k].y \in Int
           /\ Before(ps, k) \in 1 .. N
           /\ Before(ps, k) = IF k = 1 THEN N ELSE k - 1
  <2>1. /\ N \in Nat /\ N >= 3
        /\ \A k \in 1 .. N : ps[k] \in Plane /\ Before(ps, k) \in 1 .. N
    BY Edges
  <2>2. \A q \in Plane : q.x \in Int /\ q.y \in Int
    BY DEF Plane
  <2>3. \A k \in 1 .. N : Before(ps, k) = IF k = 1 THEN N ELSE k - 1
    BY DEF Before
  <2> HIDE DEF N
  <2> QED
    BY <2>1, <2>2, <2>3
<1>2. X \in [1 .. N -> Int] /\ Y \in [1 .. N -> Int]
  <2>1. \A k \in 1 .. N : (s * e) * (ps[k].x - p.x) \in Int /\ e * (ps[k].y - p.y) \in Int
    <3> SUFFICES ASSUME NEW k \in 1 .. N
                 PROVE  (s * e) * (ps[k].x - p.x) \in Int /\ e * (ps[k].y - p.y) \in Int
      OBVIOUS
    <3>1. s * e \in Int /\ e \in Int
      OBVIOUS
    <3>2. ps[k].x - p.x \in Int /\ ps[k].y - p.y \in Int
      BY <1>1, Differences
    <3> QED
      BY <3>1, <3>2, Signs
  <2> QED
    BY <2>1
<1>3. \A k \in 1 .. N : Y[k] <= 0
  OBVIOUS
<1>4. ASSUME NEW k \in 1 .. N
      PROVE  LET b == IF k = 1 THEN N ELSE k - 1 IN (X[b] * Y[k]) - (X[k] * Y[b]) > 0
  <2> DEFINE b  == Before(ps, k)
             x1 == ps[b].x - p.x
             y1 == ps[b].y - p.y
             x2 == ps[k].x - p.x
             y2 == ps[k].y - p.y
  <2>1. b \in 1 .. N /\ x1 \in Int /\ y1 \in Int /\ x2 \in Int /\ y2 \in Int
    <3>1. b \in 1 .. N
      BY <1>1
    <3>2. ps[b].x \in Int /\ ps[b].y \in Int /\ ps[k].x \in Int /\ ps[k].y \in Int
      BY <1>1, <3>1
    <3> QED
      BY <1>1, <3>1, <3>2, Differences
  <2>2. s * Across(ps[b], ps[k], p) > 0
    OBVIOUS
  <2>3. Across(ps[b], ps[k], p) = (x1 * y2) - (x2 * y1)
    <3>1. ps[b] \in Plane /\ ps[k] \in Plane
      BY <1>1, <2>1
    <3> QED
      BY <3>1, AcrossSeen
  <2>4. X[b] = (s * e) * x1 /\ Y[b] = e * y1 /\ X[k] = (s * e) * x2 /\ Y[k] = e * y2
    BY <2>1
  <2> HIDE DEF x1, y1, x2, y2, X, Y
  <2>5. ((s * e) * x1) * (e * y2) - ((s * e) * x2) * (e * y1) = s * ((x1 * y2) - (x2 * y1))
    <3>1. CASE s = 1 /\ e = 1
      BY <2>1, <3>1
    <3>2. CASE s = 1 /\ e = -1
      BY <2>1, <3>2
    <3>3. CASE s = -1 /\ e = 1
      BY <2>1, <3>3
    <3>4. CASE s = -1 /\ e = -1
      BY <2>1, <3>4
    <3> QED
      BY <3>1, <3>2, <3>3, <3>4
  <2>6. (X[b] * Y[k]) - (X[k] * Y[b]) > 0
    BY <2>2, <2>3, <2>4, <2>5
  <2> QED
    BY <1>1, <2>6
<1> HIDE DEF N, X, Y
<1> QED
  BY <1>1, <1>2, <1>3, <1>4, NotBelow

\* What lies between two points of a half-plane is in it: w and z are how far the
\* points are in it, n how far p is, which is as far from the points as u and v.
LEMMA Between ==
  ASSUME NEW w \in Int, NEW z \in Int, NEW n \in Int, NEW m \in Int, NEW u \in Int, NEW v \in Int,
         NEW h \in Int, NEW k \in Int, h > 0, k > 0, w >= 0, z >= 0,
         w = (h * n) - (m * u), z = (k * n) + (m * v), u > 0, v >= 0
  PROVE  n >= 0
<1>1. (v * w) + (u * z) = n * ((h * v) + (k * u))
  OBVIOUS
<1>2. v * w \in Int /\ v * w >= 0
  BY Signs
<1>3. u * z \in Int /\ u * z >= 0
  BY Signs
<1>4. h * v \in Int /\ h * v >= 0
  BY Signs
<1>5. k * u \in Int /\ k * u > 0
  BY Signs
<1> DEFINE vw == v * w
           uz == u * z
           q  == (h * v) + (k * u)
<1>6. vw >= 0 /\ uz >= 0 /\ vw \in Int /\ uz \in Int /\ q \in Int /\ q > 0 /\ vw + uz = n * q
  BY <1>1, <1>2, <1>3, <1>4, <1>5
<1> HIDE DEF vw, uz, q
<1> QED
  BY <1>6, Signs

\* point_in_poly is right about what is strictly inside of a convex polygon, and
\* about what is strictly outside.
LEMMA PointInConvex ==
  ASSUME NEW ps, NEW way, Polygon(ps, way), NEW p \in Plane
  PROVE  /\ InsideOf(ps, p) => PointInPoly(ps, p)
         /\ OutsideOf(ps, p) => ~PointInPoly(ps, p)
<1> DEFINE N == Len(ps)
           L(i) == Left(ps, way, i, p)
           AllOneSide == (\A i \in 1 .. N : L(i) > 0) \/ (\A i \in 1 .. N : L(i) < 0)
           SomeRight == \E i \in 1 .. N : L(i) < 0
<1>1. /\ N \in Nat /\ N >= 3 /\ DOMAIN ps = 1 .. N /\ way \in {1, -1} /\ p.y \in Int
      /\ \A i \in 1 .. N : ps[i].y \in Int
  BY Edges DEF Polygon, Plane
<1>2. \A i \in 1 .. N : /\ L(i) \in Int /\ Across(ps[Before(ps, i)], ps[i], p) \in Int
                        /\ L(i) = way * Across(ps[Before(ps, i)], ps[i], p)
  BY LeftIs
<1>3. (InsideOf(ps, p) => AllOneSide) /\ (OutsideOf(ps, p) => SomeRight)
  <2> DEFINE S(i) == Across(ps[Before(ps, i)], ps[i], p)
  <2>1. /\ InsideOf(ps, p) <=> (\A i \in 1 .. N : S(i) > 0) \/ (\A i \in 1 .. N : S(i) < 0)
        /\ OutsideOf(ps, p) <=> (\E i \in 1 .. N : S(i) > 0) /\ (\E i \in 1 .. N : S(i) < 0)
    BY <1>1 DEF InsideOf, OutsideOf, Positive, Negative, Sides
  <2>2. \A i \in 1 .. N : S(i) \in Int /\ L(i) = way * S(i) /\ L(i) \in Int
    BY <1>2
  <2> HIDE DEF S, L
  <2>3. CASE way = 1
    <3>1. \A i \in 1 .. N : S(i) \in Int /\ L(i) = S(i)
      BY <2>2, <2>3
    <3> QED
      BY <2>1, <3>1
  <2>4. CASE way = -1
    <3>1. \A i \in 1 .. N : S(i) \in Int /\ L(i) = -S(i)
      BY <2>2, <2>4
    <3> QED
      BY <2>1, <3>1
  <2> QED
    BY <1>1, <2>3, <2>4
<1>4. CASE (\E i \in 1 .. N : ps[i].y <= p.y) /\ (\E j \in 1 .. N : p.y < ps[j].y)
  <2>1. PICK u \in 1 .. N : Rises(ps, way, u, p)
    BY <1>4, UpAndDown
  <2>2. PICK v \in 1 .. N : Falls(ps, way, v, p)
    BY <1>4, UpAndDown
  <2> DEFINE a == EdgeFrom(ps, way, u)
             b == EdgeTo(ps, way, u)
             c == EdgeFrom(ps, way, v)
             d == EdgeTo(ps, way, v)
  <2>3. /\ a \in Plane /\ b \in Plane /\ c \in Plane /\ d \in Plane
        /\ a.y \in Int /\ b.y \in Int /\ c.y \in Int /\ d.y \in Int
        /\ a.y <= p.y /\ p.y < b.y /\ p.y < c.y /\ d.y <= p.y
    BY <2>1, <2>2, Edges DEF Rises, Falls, Plane
  <2>4. ~Falls(ps, way, u, p) /\ ~Rises(ps, way, v, p) /\ u # v
    BY <1>1, <2>1, <2>2, <2>3 DEF Rises, Falls
  <2>5. \A k \in 1 .. N : Crosses(ps, k, p) => k = u \/ k = v
    BY <2>1, <2>2, CrossesIf, OneOfEach
  <2>6. PointInPoly(ps, p) <=> ~(L(u) > 0 <=> L(v) < 0)
    <3>1. (Crosses(ps, u, p) <=> L(u) > 0) /\ (Crosses(ps, v, p) <=> L(v) < 0)
      BY <2>1, <2>2, <2>4, CrossesIf
    <3>2. PointInPoly(ps, p) <=> ~(Crosses(ps, u, p) <=> Crosses(ps, v, p))
      BY <1>1, <2>4, <2>5, TwoCrossings
    <3> QED
      BY <3>1, <3>2
  <2> DEFINE m(i) == EdgeTo(ps, way, i).y - EdgeFrom(ps, way, i).y
             hu == b.y - a.y
             hv == c.y - d.y
             W(i) == (hu * L(i)) - (m(i) * L(u))
             Z(i) == (hv * L(i)) + (m(i) * L(v))
  <2>7. ASSUME NEW i \in 1 .. N PROVE m(i) \in Int /\ W(i) \in Int /\ Z(i) \in Int /\ W(i) >= 0 /\ Z(i) >= 0
    <3> DEFINE g == EdgeFrom(ps, way, i)
               k == EdgeTo(ps, way, i)
    <3>1. g \in Plane /\ k \in Plane /\ m(i) \in Int
      BY Edges DEF Plane
    <3>2. /\ Across(g, k, a) \in Int /\ Across(g, k, a) >= 0
          /\ Across(g, k, b) \in Int /\ Across(g, k, b) >= 0
          /\ Across(g, k, c) \in Int /\ Across(g, k, c) >= 0
          /\ Across(g, k, d) \in Int /\ Across(g, k, d) >= 0
      <4>1. \A j \in 1 .. N : Across(g, k, ps[j]) \in Int /\ Across(g, k, ps[j]) >= 0
        BY LeftIs DEF Left
      <4>2. \A j \in 1 .. N : Before(ps, j) \in 1 .. N
        BY Edges
      <4> HIDE DEF g, k
      <4> QED
        BY <4>1, <4>2 DEF EdgeFrom, EdgeTo
    <3>3. /\ (b.y - p.y) * Across(g, k, a) + (p.y - a.y) * Across(g, k, b) = W(i)
          /\ (d.y - p.y) * Across(g, k, c) + (p.y - c.y) * Across(g, k, d) = -Z(i)
      <4>1. /\ L(i) = Across(g, k, p) /\ L(u) = Across(a, b, p) /\ L(v) = Across(c, d, p)
            /\ m(i) = k.y - g.y
        BY DEF Left
      <4>2. /\ L(i) \in Int /\ L(u) \in Int /\ L(v) \in Int
        BY <1>2
      <4>3. /\ (b.y - p.y) * Across(g, k, a) + (p.y - a.y) * Across(g, k, b)
                  = (b.y - a.y) * Across(g, k, p) - (k.y - g.y) * Across(a, b, p)
            /\ (d.y - p.y) * Across(g, k, c) + (p.y - c.y) * Across(g, k, d)
                  = (d.y - c.y) * Across(g, k, p) - (k.y - g.y) * Across(c, d, p)
        <5> HIDE DEF a, b, c, d, g, k
        <5> QED
          BY <2>3, <3>1, AtHeight
      <4> HIDE DEF L, m, a, b, c, d, g, k
      <4>4. (d.y - c.y) * L(i) - m(i) * L(v) = -((c.y - d.y) * L(i) + m(i) * L(v))
        BY <2>3, <3>1, <4>2
      <4> QED
        BY <4>1, <4>3, <4>4
    <3> DEFINE e1 == Across(g, k, a)
               e2 == Across(g, k, b)
               e3 == Across(g, k, c)
               e4 == Across(g, k, d)
               w == W(i)
               z == Z(i)
    <3>4. /\ e1 \in Int /\ e1 >= 0 /\ e2 \in Int /\ e2 >= 0
          /\ e3 \in Int /\ e3 >= 0 /\ e4 \in Int /\ e4 >= 0
          /\ (b.y - p.y) * e1 + (p.y - a.y) * e2 = w
          /\ (d.y - p.y) * e3 + (p.y - c.y) * e4 = -z
      BY <3>2, <3>3
    <3>5. w \in Int /\ z \in Int
      <4>1. hu \in Int /\ hv \in Int /\ L(i) \in Int /\ L(u) \in Int /\ L(v) \in Int
        <5>1. L(i) \in Int /\ L(u) \in Int /\ L(v) \in Int
          <6> HIDE DEF L
          <6> QED
            BY <1>2
        <5>2. hu \in Int /\ hv \in Int
          <6> HIDE DEF a, b, c, d
          <6> QED
            BY <2>3
        <5> QED
          BY <5>1, <5>2
      <4>2. w = (hu * L(i)) - (m(i) * L(u)) /\ z = (hv * L(i)) + (m(i) * L(v))
        OBVIOUS
      <4> HIDE DEF L, m, hu, hv, w, z
      <4>3. hu * L(i) \in Int /\ hv * L(i) \in Int /\ m(i) * L(u) \in Int /\ m(i) * L(v) \in Int
        BY <3>1, <4>1, Signs
      <4> QED
        BY <4>2, <4>3
    <3> HIDE DEF e1, e2, e3, e4, w, z, a, b, c, d
    <3>6. /\ b.y - p.y \in Int /\ b.y - p.y >= 0 /\ p.y - a.y \in Int /\ p.y - a.y >= 0
          /\ d.y - p.y \in Int /\ d.y - p.y <= 0 /\ p.y - c.y \in Int /\ p.y - c.y <= 0
      <4>1. a.y <= p.y /\ p.y <= b.y /\ p.y <= c.y /\ d.y <= p.y
        BY <1>1, <2>3
      <4> QED
        BY <1>1, <2>3, <4>1, Differences
    <3>7. (b.y - p.y) * e1 \in Int /\ (b.y - p.y) * e1 >= 0
      BY <3>4, <3>6, Signs
    <3>8. (p.y - a.y) * e2 \in Int /\ (p.y - a.y) * e2 >= 0
      BY <3>4, <3>6, Signs
    <3>9. (d.y - p.y) * e3 \in Int /\ (d.y - p.y) * e3 <= 0
      BY <3>4, <3>6, Signs
    <3>10. (p.y - c.y) * e4 \in Int /\ (p.y - c.y) * e4 <= 0
      BY <3>4, <3>6, Signs
    <3>11. w >= 0
      BY <3>4, <3>5, <3>7, <3>8
    <3>12. z >= 0
      BY <3>4, <3>5, <3>9, <3>10
    <3> QED
      BY <3>1, <3>5, <3>11, <3>12 DEF w, z
  <2>8. hu \in Int /\ hv \in Int /\ hu > 0 /\ hv > 0 /\ L(u) \in Int /\ L(v) \in Int
    <3>1. L(u) \in Int /\ L(v) \in Int
      BY <1>2
    <3>2. hu \in Int /\ hv \in Int /\ hu > 0 /\ hv > 0
      <4> HIDE DEF a, b, c, d
      <4> QED
        BY <1>1, <2>3
    <3> QED
      BY <3>1, <3>2
  <2>9. ASSUME L(u) > 0, L(v) >= 0, NEW i \in 1 .. N PROVE L(i) >= 0
    <3>1. L(i) \in Int /\ m(i) \in Int /\ W(i) \in Int /\ Z(i) \in Int /\ W(i) >= 0 /\ Z(i) >= 0
      BY <1>2, <2>7
    <3>2. W(i) = (hu * L(i)) - (m(i) * L(u)) /\ Z(i) = (hv * L(i)) + (m(i) * L(v))
      OBVIOUS
    <3> HIDE DEF L, m, hu, hv, W, Z
    <3> QED
      BY <2>8, <2>9, <3>1, <3>2, Between
  <2>10. ASSUME L(u) <= 0, L(v) < 0 PROVE FALSE
    <3>1. Z(u) >= 0 /\ Z(u) = (hv * L(u)) + (hu * L(v))
      BY <2>7
    <3> HIDE DEF L, hu, hv, Z
    <3>2. hv * L(u) \in Int /\ hv * L(u) <= 0
      BY <2>8, <2>10, Signs
    <3>3. hu * L(v) \in Int /\ hu * L(v) < 0
      BY <2>8, <2>10, Signs
    <3> QED
      BY <3>1, <3>2, <3>3
  <2> HIDE DEF L
  <2>11. AllOneSide => PointInPoly(ps, p)
    <3>1. CASE \A i \in 1 .. N : L(i) > 0
      <4>1. L(u) > 0 /\ ~(L(v) < 0)
        BY <2>8, <3>1
      <4> QED
        BY <2>6, <4>1
    <3>2. CASE \A i \in 1 .. N : L(i) < 0
      BY <2>8, <2>10, <3>2
    <3> QED
      BY <3>1, <3>2
  <2>12. SomeRight => ~PointInPoly(ps, p)
    <3> SUFFICES ASSUME NEW i \in 1 .. N, L(i) < 0, PointInPoly(ps, p) PROVE FALSE
      OBVIOUS
    <3>1. L(i) \in Int
      BY <1>2 DEF L
    <3>2. (L(u) > 0 /\ L(v) >= 0) \/ (L(u) <= 0 /\ L(v) < 0)
      BY <2>6, <2>8
    <3>3. CASE L(u) > 0 /\ L(v) >= 0
      BY <2>9, <3>1, <3>3
    <3> QED
      BY <2>10, <3>2, <3>3
  <2> QED
    BY <1>3, <2>11, <2>12
<1>5. CASE \/ \A i \in 1 .. N : ~(ps[i].y <= p.y)
           \/ \A i \in 1 .. N : ~(p.y < ps[i].y)
  <2>1. \A k \in 1 .. N : ~Crosses(ps, k, p)
    <3>1. ASSUME NEW k \in 1 .. N PROVE ~Rises(ps, way, k, p) /\ ~Falls(ps, way, k, p)
      <4>1. Before(ps, k) \in 1 .. N
        BY Edges
      <4> QED
        BY <1>5, <4>1 DEF Rises, Falls, EdgeFrom, EdgeTo
    <3> QED
      BY <3>1, CrossesIf
  <2>2. ~PointInPoly(ps, p)
    <3>1. 1 \in 1 .. N /\ 2 \in 1 .. N
      BY <1>1
    <3> QED
      BY <1>1, <2>1, <3>1, TwoCrossings
  <2>3. ~InsideOf(ps, p)
    <3> SUFFICES ASSUME InsideOf(ps, p) PROVE FALSE
      OBVIOUS
    <3> DEFINE S(i) == Across(ps[Before(ps, i)], ps[i], p)
    <3>1. (\A i \in 1 .. N : S(i) > 0) \/ (\A i \in 1 .. N : S(i) < 0)
      BY <1>1 DEF InsideOf, Positive, Negative, Sides
    <3>2. \A i \in 1 .. N : S(i) \in Int
      BY <1>2
    <3>3. PICK s \in {1, -1} : \A i \in 1 .. N : s * S(i) > 0
      <4> HIDE DEF S
      <4>1. CASE \A i \in 1 .. N : S(i) > 0
        <5>1. \A i \in 1 .. N : 1 * S(i) > 0
          BY <3>2, <4>1
        <5> QED
          BY <5>1
      <4>2. CASE \A i \in 1 .. N : S(i) < 0
        <5>1. \A i \in 1 .. N : (-1) * S(i) > 0
          BY <3>2, <4>2
        <5> QED
          BY <5>1
      <4> QED
        BY <3>1, <4>1, <4>2
    <3>4. PICK e \in {1, -1} : \A k \in 1 .. N : e * (ps[k].y - p.y) <= 0
      <4>1. CASE \A i \in 1 .. N : ~(ps[i].y <= p.y)
        <5>1. \A k \in 1 .. N : (-1) * (ps[k].y - p.y) <= 0
          BY <1>1, <4>1
        <5> QED
          BY <5>1
      <4>2. CASE \A i \in 1 .. N : ~(p.y < ps[i].y)
        <5>1. \A k \in 1 .. N : 1 * (ps[k].y - p.y) <= 0
          BY <1>1, <4>2
        <5> QED
          BY <5>1
      <4> QED
        BY <1>5, <4>1, <4>2
    <3> QED
      BY <3>3, <3>4, AroundPoint
  <2> QED
    BY <2>2, <2>3
<1> QED
  BY <1>4, <1>5
-----------------------------------------------------------------------------
(***************************************************************************)
(* Boxes, segments and sums.                                               *)
(***************************************************************************)
\* A box is as its polygon: strictly inside, and strictly outside.
LEMMA BoxIs ==
  ASSUME NEW f \in Plane, NEW c \in Plane, NEW p \in Plane, f.x < c.x, f.y < c.y
  PROVE  LET box == <<f, Point(c.x, f.y), c, Point(f.x, c.y)>>
             within == f.x <= p.x /\ f.y <= p.y /\ p.x <= c.x /\ p.y <= c.y
         IN  /\ InsideOf(box, p) => within
             /\ OutsideOf(box, p) => ~within
<1> DEFINE box == <<f, Point(c.x, f.y), c, Point(f.x, c.y)>>
           w == c.x - f.x
           h == c.y - f.y
           s1 == w * (p.y - f.y)
           s2 == h * (c.x - p.x)
           s3 == w * (c.y - p.y)
           s4 == h * (p.x - f.x)
<1>1. /\ f.x \in Int /\ f.y \in Int /\ c.x \in Int /\ c.y \in Int /\ p.x \in Int /\ p.y \in Int
      /\ w \in Int /\ h \in Int /\ w > 0 /\ h > 0
  BY DEF Plane
<1>2. Sides(box, p) = {s1, s2, s3, s4}
  <2> DEFINE g == Point(c.x, f.y)
             k == Point(f.x, c.y)
  <2>a. g.x = c.x /\ g.y = f.y /\ k.x = f.x /\ k.y = c.y
    BY DEF Point
  <2>1. /\ Across(k, f, p) = s4 /\ Across(f, g, p) = s1
        /\ Across(g, c, p) = s2 /\ Across(c, k, p) = s3
    <3> HIDE DEF g, k
    <3>1. Across(k, f, p) = s4
      <4>1. Across(k, f, p) = ((f.x - f.x) * (p.y - c.y)) - ((f.y - c.y) * (p.x - f.x))
        BY <2>a DEF Across
      <4>2. ((f.x - f.x) * (p.y - c.y)) - ((f.y - c.y) * (p.x - f.x)) = (c.y - f.y) * (p.x - f.x)
        <5>1. \A i, j, m, n, o \in Int :
                ((i - i) * (m - j)) - ((n - j) * (o - i)) = (j - n) * (o - i)
          OBVIOUS
        <5> QED
          BY <1>1, <5>1
      <4> QED
        BY <4>1, <4>2
    <3>2. Across(f, g, p) = s1
      BY <1>1, <2>a DEF Across
    <3>3. Across(g, c, p) = s2
      BY <1>1, <2>a DEF Across
    <3>4. Across(c, k, p) = s3
      BY <1>1, <2>a DEF Across
    <3> QED
      BY <3>1, <3>2, <3>3, <3>4
  <2>2. /\ DOMAIN box = 1 .. 4 /\ Len(box) = 4
        /\ box[1] = f /\ box[2] = Point(c.x, f.y) /\ box[3] = c /\ box[4] = Point(f.x, c.y)
    OBVIOUS
  <2>3. /\ Before(box, 1) = 4 /\ Before(box, 2) = 1 /\ Before(box, 3) = 2 /\ Before(box, 4) = 3
    BY <2>2 DEF Before
  <2>4. 1 .. 4 = {1, 2, 3, 4}
    OBVIOUS
  <2> HIDE DEF box, s1, s2, s3, s4
  <2> QED
    BY <2>1, <2>2, <2>3, <2>4 DEF Sides
<1>3. /\ (s1 > 0 => p.y > f.y) /\ (s1 < 0 => p.y < f.y)
      /\ (s2 > 0 => p.x < c.x) /\ (s2 < 0 => p.x > c.x)
      /\ (s3 > 0 => p.y < c.y) /\ (s3 < 0 => p.y > c.y)
      /\ (s4 > 0 => p.x > f.x) /\ (s4 < 0 => p.x < f.x)
  <2>1. ASSUME NEW k \in Int, NEW n \in Int, k > 0
        PROVE  (k * n > 0 => n > 0) /\ (k * n < 0 => n < 0)
    BY <2>1, Signs
  <2>2. (s1 > 0 => p.y - f.y > 0) /\ (s1 < 0 => p.y - f.y < 0)
    BY <1>1, <2>1
  <2>3. (s2 > 0 => c.x - p.x > 0) /\ (s2 < 0 => c.x - p.x < 0)
    BY <1>1, <2>1
  <2>4. (s3 > 0 => c.y - p.y > 0) /\ (s3 < 0 => c.y - p.y < 0)
    BY <1>1, <2>1
  <2>5. (s4 > 0 => p.x - f.x > 0) /\ (s4 < 0 => p.x - f.x < 0)
    BY <1>1, <2>1
  <2> HIDE DEF s1, s2, s3, s4
  <2> QED
    BY <1>1, <2>2, <2>3, <2>4, <2>5
<1> HIDE DEF s1, s2, s3, s4, box
<1>4. ASSUME InsideOf(box, p)
      PROVE  f.x <= p.x /\ f.y <= p.y /\ p.x <= c.x /\ p.y <= c.y
  <2>1. (s1 > 0 /\ s2 > 0 /\ s3 > 0 /\ s4 > 0) \/ (s1 < 0 /\ s2 < 0 /\ s3 < 0 /\ s4 < 0)
    BY <1>2, <1>4 DEF InsideOf, Positive, Negative
  <2> QED
    BY <1>1, <1>3, <2>1
<1>5. ASSUME OutsideOf(box, p)
      PROVE  ~(f.x <= p.x /\ f.y <= p.y /\ p.x <= c.x /\ p.y <= c.y)
  <2>1. s1 < 0 \/ s2 < 0 \/ s3 < 0 \/ s4 < 0
    BY <1>2, <1>5 DEF OutsideOf
  <2> QED
    BY <1>1, <1>3, <2>1
<1> QED
  BY <1>4, <1>5 DEF box
-----------------------------------------------------------------------------
\* A factor on both sides of a bound.
LEMMA Cancel ==
  ASSUME NEW k \in Int, NEW m \in Int, NEW n \in Int, k > 0
  PROVE  /\ m * k <= n * k <=> m <= n
         /\ m * k >= n * k <=> m >= n
<1>1. (m * k) - (n * k) = (m - n) * k
  OBVIOUS
<1>2. m - n \in Int /\ m * k \in Int /\ n * k \in Int
  BY Signs, Differences
<1>3. /\ m - n > 0 => (m - n) * k > 0
      /\ m - n < 0 => (m - n) * k < 0
      /\ m - n = 0 => (m - n) * k = 0
  BY <1>2, Signs
<1> DEFINE mk == m * k
           nk == n * k
           d  == (m - n) * k
<1>4. mk \in Int /\ nk \in Int /\ mk - nk = d /\ (m > n => d > 0) /\ (m < n => d < 0) /\ (m = n => d = 0)
  BY <1>1, <1>2, <1>3
<1>5. (mk <= nk <=> m <= n) /\ (mk >= nk <=> m >= n)
  <2> HIDE DEF mk, nk, d
  <2> QED
    BY <1>4
<1> QED
  BY <1>5

\* bc_crossarc gives the distance to the segment.
LEMMA CrossArcIs ==
  ASSUME NEW a \in Plane, NEW b \in Plane, NEW c \in Plane, ~Wraps(a, b, c), NEW k \in Int
  PROVE  /\ AtMost(CrossArc(a, b, c), k) <=> AtMost(SegmentDistance(a, b, c), k)
         /\ AtLeast(CrossArc(a, b, c), k) <=> AtLeast(SegmentDistance(a, b, c), k)
<1> DEFINE long == Distance(a, b).num
           t == Along(a, b, c)
           x == Across(a, b, c)
           d == Distance(a, c).num
           e == Distance(b, c).num
           k2 == Square(k)
<1>1. long \in Int /\ t \in Int /\ x \in Int /\ d \in Int /\ e \in Int /\ k2 \in Int /\ long >= 0
  <2>1. \A m \in Int : m * m \in Int /\ m * m >= 0
    BY Signs
  <2>2. long = (a.x - b.x) * (a.x - b.x) + (a.y - b.y) * (a.y - b.y)
    BY DEF Distance, Square
  <2>3. a.x - b.x \in Int /\ a.y - b.y \in Int
    BY DEF Plane
  <2>4. long \in Int /\ long >= 0
    BY <2>1, <2>2, <2>3
  <2>5. t \in Int /\ x \in Int /\ d \in Int /\ e \in Int /\ k2 \in Int
    BY DEF Along, Across, Distance, Square, Plane
  <2> QED
    BY <2>4, <2>5
<1>2. Square(x) = (d * long) - Square(t)
  <2> DEFINE u == b.x - a.x
             v == b.y - a.y
             q == c.x - a.x
             r == c.y - a.y
  <2>1. u \in Int /\ v \in Int /\ q \in Int /\ r \in Int
    BY DEF Plane
  <2>2. x = (u * r) - (v * q) /\ t = (u * q) + (v * r)
    BY DEF Along, Across
  <2>3. long = (u * u) + (v * v)
    BY DEF Distance, Square, Plane
  <2>4. d = (q * q) + (r * r)
    BY DEF Distance, Square, Plane
  <2> HIDE DEF u, v, q, r, x, t, long, d
  <2> QED
    BY <2>1, <2>2, <2>3, <2>4 DEF Square
<1>3. e = (d - (2 * t)) + long
  BY DEF Along, Distance, Square, Plane
<1>4. long = 0 => t = 0
  <2> SUFFICES ASSUME long = 0 PROVE t = 0
    OBVIOUS
  <2> DEFINE u == a.x - b.x
             v == a.y - b.y
  <2>1. u \in Int /\ v \in Int /\ (u * u) + (v * v) = 0
    BY DEF Distance, Square, Plane
  <2> HIDE DEF u, v
  <2>2. u * u >= 0 /\ v * v >= 0 /\ u * u \in Int /\ v * v \in Int
    BY <2>1, Signs
  <2>3. u * u = 0 /\ v * v = 0
    BY <2>1, <2>2
  <2>4. u = 0 /\ v = 0
    BY <2>1, <2>3, Signs
  <2>5. b.x - a.x = 0 /\ b.y - a.y = 0
    BY <2>4 DEF u, v, Plane
  <2>6. c.x - a.x \in Int /\ c.y - a.y \in Int
    BY DEF Plane
  <2> QED
    BY <2>5, <2>6 DEF Along
<1>5. /\ Distance(a, c) = [num |-> d, den |-> 1] /\ Distance(b, c) = [num |-> e, den |-> 1]
  BY DEF Distance
<1>6. /\ CrossArc(a, b, c) = IF t < 0 \/ long = 0 THEN Distance(a, c)
                              ELSE IF t > long THEN Distance(b, c)
                              ELSE [num |-> Square(x), den |-> long]
      /\ SegmentDistance(a, b, c) = IF t <= 0 THEN Distance(a, c)
                                     ELSE IF t >= long THEN Distance(b, c)
                                     ELSE [num |-> (d * long) - Square(t), den |-> long]
  BY DEF CrossArc, SegmentDistance, Behind
<1>7. ASSUME NEW n \in Int, long > 0, Square(x) = n * long
      PROVE  /\ AtMost([num |-> Square(x), den |-> long], k) <=> AtMost([num |-> n, den |-> 1], k)
             /\ AtLeast([num |-> Square(x), den |-> long], k) <=> AtLeast([num |-> n, den |-> 1], k)
  <2>1. /\ AtMost([num |-> Square(x), den |-> long], k) <=> k >= 0 /\ n * long <= k2 * long
        /\ AtMost([num |-> n, den |-> 1], k) <=> k >= 0 /\ n <= k2 * 1
        /\ AtLeast([num |-> Square(x), den |-> long], k) <=> k <= 0 \/ n * long >= k2 * long
        /\ AtLeast([num |-> n, den |-> 1], k) <=> k <= 0 \/ n >= k2 * 1
    BY <1>7 DEF AtMost, AtLeast
  <2>2. k2 * 1 = k2
    BY <1>1
  <2> HIDE DEF k2, long, x
  <2>3. (n * long <= k2 * long <=> n <= k2) /\ (n * long >= k2 * long <=> n >= k2)
    BY <1>1, <1>7, Cancel
  <2> QED
    BY <2>1, <2>2, <2>3
<1> HIDE DEF long, t, x, d, e, k2
<1>8. CASE t < 0 \/ long = 0 \/ t > long
  <2>1. CrossArc(a, b, c) = SegmentDistance(a, b, c)
    BY <1>1, <1>4, <1>6, <1>8
  <2> QED
    BY <2>1
<1>9. CASE t = 0 /\ long > 0
  <2>1. Square(x) = d * long
    BY <1>1, <1>2, <1>9 DEF Square
  <2>2. CrossArc(a, b, c) = [num |-> Square(x), den |-> long]
    BY <1>1, <1>6, <1>9
  <2>3. SegmentDistance(a, b, c) = [num |-> d, den |-> 1]
    BY <1>1, <1>5, <1>6, <1>9
  <2> QED
    BY <1>1, <1>7, <1>9, <2>1, <2>2, <2>3
<1>10. CASE 0 < t /\ t < long
  <2>1. CrossArc(a, b, c) = SegmentDistance(a, b, c)
    BY <1>1, <1>2, <1>6, <1>10
  <2> QED
    BY <2>1
<1>11. CASE 0 < t /\ t = long
  <2>1. Square(x) = e * long
    <3>1. e = d - long /\ Square(t) = long * long
      BY <1>1, <1>3, <1>11 DEF Square
    <3>2. (d * long) - (long * long) = (d - long) * long
      BY <1>1
    <3> QED
      BY <1>2, <3>1, <3>2
  <2>2. CrossArc(a, b, c) = [num |-> Square(x), den |-> long]
    BY <1>1, <1>6, <1>11
  <2>3. SegmentDistance(a, b, c) = [num |-> e, den |-> 1]
    BY <1>1, <1>5, <1>6, <1>11
  <2> QED
    BY <1>1, <1>7, <1>11, <2>1, <2>2, <2>3
<1> QED
  BY <1>1, <1>8, <1>9, <1>10, <1>11
-----------------------------------------------------------------------------
\* An axis is a number, and where it is read it is the one that is there.
LEMMA AxisType ==
  ASSUME NEW axes, AreAxes(axes)
  PROVE  /\ \A i \in Nat \ {0} : Axis(axes, i) \in Int
         /\ \A n \in Nat : Numbers(axes, n) =>
              \A i \in 1 .. n : i \in DOMAIN axes => Axis(axes, i) = axes[i] /\ axes[i] \in Int
         /\ PointOf(axes) \in Plane
<1>1. DOMAIN axes = 1 .. Len(axes) /\ Len(axes) \in Nat
      /\ \A i \in DOMAIN axes : axes[i] \in Int \cup {Bad}
  BY DEF AreAxes
<1>2. \A i \in Nat \ {0} : i \in 1 .. i
  OBVIOUS
<1>3. \A i \in Nat \ {0} : Axis(axes, i) \in Int
  BY <1>1, <1>2 DEF Axis, Numbers
<1>4. ASSUME NEW n \in Nat, Numbers(axes, n), NEW i \in 1 .. n, i \in DOMAIN axes
      PROVE  Axis(axes, i) = axes[i] /\ axes[i] \in Int
  <2>1. \A k \in 1 .. i : k \in 1 .. n
    OBVIOUS
  <2>2. Numbers(axes, i)
    BY <1>4, <2>1 DEF Numbers
  <2>3. axes[i] # Bad
    BY <1>4 DEF Numbers
  <2> QED
    BY <1>1, <1>4, <2>2, <2>3 DEF Axis
<1>5. PointOf(axes) \in Plane
  BY <1>3 DEF PointOf, Point, Plane
<1> QED
  BY <1>3, <1>4, <1>5

\* The squares along the axes are summed as far as the op has axes.
LEMMA SumsAre ==
  ASSUME NEW o, NEW axes, o.kind \in 0 .. 4,
         \A i \in 1 .. 4 : Axis(o.axes, i) \in Int /\ Axis(axes, i) \in Int
  PROVE  /\ Sums(o, axes)[0] = 0
         /\ \A n \in 1 .. o.kind :
              Sums(o, axes)[n] = Sums(o, axes)[n - 1] + Square(Axis(o.axes, n) - Axis(axes, n))
<1> DEFINE s == [n \in 1 .. 4 |-> Square(Axis(o.axes, n) - Axis(axes, n))]
           Eqn(h) == h = [n \in 0 .. o.kind |-> IF n = 0 THEN 0 ELSE
                            h[n - 1] + Square(Axis(o.axes, n) - Axis(axes, n))]
           F == CHOOSE h : Eqn(h)
           f == [n \in 0 .. o.kind |-> IF n = 0 THEN 0 ELSE
                                      IF n = 1 THEN s[1] ELSE
                                      IF n = 2 THEN s[1] + s[2] ELSE
                                      IF n = 3 THEN s[1] + s[2] + s[3] ELSE
                                      s[1] + s[2] + s[3] + s[4]]
<1>1. \A n \in 1 .. 4 : s[n] \in Int /\ s[n] = Square(Axis(o.axes, n) - Axis(axes, n))
  BY DEF Square
<1> HIDE DEF s
<1>2. ASSUME NEW n \in 0 .. o.kind
      PROVE  f[n] = IF n = 0 THEN 0 ELSE f[n - 1] + s[n]
  <2>1. n \in {0, 1, 2, 3, 4} /\ (n # 0 => n - 1 \in 0 .. o.kind)
    OBVIOUS
  <2>a. s[1] \in Int /\ s[2] \in Int /\ s[3] \in Int /\ s[4] \in Int
    BY <1>1
  <2>2. CASE n = 0
    BY <2>2
  <2>3. CASE n = 1
    <3>1. f[1] = s[1] /\ f[0] = 0
      BY <2>1, <2>3
    <3> HIDE DEF f
    <3> QED
      BY <2>a, <2>3, <3>1
  <2>4. CASE n = 2
    <3>1. f[2] = s[1] + s[2] /\ f[1] = s[1]
      BY <2>1, <2>4
    <3> HIDE DEF f
    <3> QED
      BY <2>a, <2>4, <3>1
  <2>5. CASE n = 3
    <3>1. f[3] = s[1] + s[2] + s[3] /\ f[2] = s[1] + s[2]
      BY <2>1, <2>5
    <3> HIDE DEF f
    <3> QED
      BY <2>a, <2>5, <3>1
  <2>6. CASE n = 4
    <3>1. f[4] = s[1] + s[2] + s[3] + s[4] /\ f[3] = s[1] + s[2] + s[3]
      BY <2>1, <2>6
    <3> HIDE DEF f
    <3> QED
      BY <2>a, <2>6, <3>1
  <2> QED
    BY <2>1, <2>2, <2>3, <2>4, <2>5, <2>6
<1>3. Eqn(f)
  <2> DEFINE e == [n \in 0 .. o.kind |-> IF n = 0 THEN 0 ELSE
                     f[n - 1] + Square(Axis(o.axes, n) - Axis(axes, n))]
  <2>1. \A n \in 0 .. o.kind : f[n] = e[n]
    <3> SUFFICES ASSUME NEW n \in 0 .. o.kind PROVE f[n] = e[n]
      OBVIOUS
    <3>1. n # 0 => n \in 1 .. 4
      OBVIOUS
    <3>2. e[n] = IF n = 0 THEN 0 ELSE f[n - 1] + Square(Axis(o.axes, n) - Axis(axes, n))
      OBVIOUS
    <3> HIDE DEF e, f
    <3> QED
      BY <1>1, <1>2, <3>1, <3>2
  <2>2. e = [n \in 0 .. o.kind |-> e[n]]
    OBVIOUS
  <2>4. f = [n \in 0 .. o.kind |-> f[n]]
    OBVIOUS
  <2> HIDE DEF e, f
  <2>3. f = e
    BY <2>1, <2>2, <2>4
  <2> QED
    BY <2>3 DEF e
<1>4. Eqn(F)
  <2> HIDE DEF Eqn, f
  <2> QED
    BY <1>3
<1>5. Sums(o, axes) = F
  BY DEF Sums
<1> HIDE DEF F
<1>6. \A n \in 0 .. o.kind : F[n] = IF n = 0 THEN 0 ELSE
        F[n - 1] + Square(Axis(o.axes, n) - Axis(axes, n))
  BY <1>4
<1>7. 0 \in 0 .. o.kind /\ \A n \in 1 .. o.kind : n \in 0 .. o.kind /\ n # 0
  OBVIOUS
<1> HIDE DEF Eqn
<1> QED
  BY <1>5, <1>6, <1>7

\* What a legacy $near is to match.
IsNear(axes, maxd, other) ==
  /\ Len(axes) = AxesUpTo4(other)
  /\ Numbers(other, Len(axes))
  /\ maxd >= 0
  /\ \E d \in 0 .. Square(maxd) :
       d = LET diff(i) == IF i \in DOMAIN axes
                          THEN Square(axes[i] - other[i]) ELSE 0
           IN  diff(1) + diff(2) + diff(3) + diff(4)

\* _mongoc_matcher_op_near matches that.
LEMMA NearRight ==
  ASSUME NEW axes, NEW other, AreAxes(axes), AreAxes(other), Len(axes) \in 2 .. 4,
         ArrayOk(axes), NEW o, o.axes = axes, o.kind = Kind(axes), o.maxd \in Int
  PROVE  ArrayOk(other) /\ Inside(o, other) <=> IsNear(axes, o.maxd, other)
<1> DEFINE n == Len(axes)
           m == Len(other)
           sq(i) == Square(axes[i] - other[i])
           sums == Sums(o, other)
           m2 == Square(o.maxd)
<1>1. /\ n \in Nat /\ n >= 2 /\ n <= 4 /\ m \in Nat
      /\ DOMAIN axes = 1 .. n /\ DOMAIN other = 1 .. m
  <2>1. axes \in Seq(Int \cup {Bad}) /\ other \in Seq(Int \cup {Bad})
    BY DEF AreAxes
  <2>2. m \in Nat /\ DOMAIN axes = 1 .. n /\ DOMAIN other = 1 .. m
    BY <2>1
  <2>3. n \in Nat /\ n >= 2 /\ n <= 4
    <3>1. n \in 2 .. 4
      OBVIOUS
    <3> HIDE DEF n
    <3> QED
      BY <3>1
  <2> QED
    BY <2>2, <2>3
<1>a. /\ Kind(axes) = IF n < 2 THEN 0 ELSE IF n < 4 THEN n ELSE 4
      /\ Kind(other) = IF m < 2 THEN 0 ELSE IF m < 4 THEN m ELSE 4
      /\ AxesUpTo4(other) = IF m < 4 THEN m ELSE 4
  BY DEF Kind, AxesUpTo4
<1>b. Kind(axes) = n
  <2> HIDE DEF n, m
  <2> QED
    BY <1>1, <1>a
<1>2. Kind(other) = n <=> AxesUpTo4(other) = n
  <2> HIDE DEF n, m
  <2> QED
    BY <1>1, <1>a
<1>3. AxesUpTo4(other) = n => (\A i \in 1 .. n : i \in DOMAIN other) /\ (n = m \/ n = 4)
  <2> HIDE DEF n, m
  <2> QED
    BY <1>1, <1>a
<1>4. AxesUpTo4(other) = n => (ArrayOk(other) <=> Numbers(other, n))
  <2> SUFFICES ASSUME AxesUpTo4(other) = n PROVE ArrayOk(other) <=> Numbers(other, n)
    OBVIOUS
  <2>1. CASE n = 4
    BY <2>1 DEF ArrayOk
  <2>2. CASE n = m
    <3>1. \A i \in 1 .. 4 : i \in DOMAIN other <=> i \in 1 .. n
      BY <1>1, <2>2
    <3>2. \A i \in 1 .. n : i \in 1 .. 4
      BY <1>1
    <3> QED
      BY <3>1, <3>2 DEF ArrayOk, Numbers
  <2> QED
    BY <1>3, <2>1, <2>2
<1>5. Inside(o, other) <=> /\ AxesUpTo4(other) = n
                           /\ o.maxd >= 0 /\ sums[n] <= m2 * 1
  BY <1>b, <1>2 DEF Inside, AtMost
<1>6. ASSUME AxesUpTo4(other) = n, Numbers(other, n)
      PROVE  /\ \A i \in 1 .. n : sq(i) \in Int /\ sq(i) >= 0
             /\ sums[n] = (IF 1 \in DOMAIN axes THEN sq(1) ELSE 0) + (IF 2 \in DOMAIN axes THEN sq(2) ELSE 0)
                          + (IF 3 \in DOMAIN axes THEN sq(3) ELSE 0) + (IF 4 \in DOMAIN axes THEN sq(4) ELSE 0)
             /\ sums[n] \in Nat
  <2>1. \A i \in 1 .. 4 : Axis(o.axes, i) \in Int /\ Axis(other, i) \in Int
    BY AxisType
  <2>2. /\ sums[0] = 0
        /\ \A i \in 1 .. n : sums[i] = sums[i - 1] + Square(Axis(axes, i) - Axis(other, i))
    <3>1. o.kind \in 0 .. 4 /\ o.kind = n
      BY <1>1, <1>b
    <3> QED
      BY <2>1, <3>1, SumsAre
  <2>3. \A i \in 1 .. n : /\ Axis(axes, i) = axes[i] /\ axes[i] \in Int
                           /\ Axis(other, i) = other[i] /\ other[i] \in Int
    <3> SUFFICES ASSUME NEW i \in 1 .. n
                 PROVE  /\ Axis(axes, i) = axes[i] /\ axes[i] \in Int
                        /\ Axis(other, i) = other[i] /\ other[i] \in Int
      OBVIOUS
    <3>1. i \in DOMAIN axes /\ i \in DOMAIN other
      BY <1>1, <1>3, <1>6
    <3>2. n \in Nat /\ 4 \in Nat /\ i \in 1 .. 4
      <4> HIDE DEF n
      <4> QED
        BY <1>1
    <3>3. Numbers(axes, 4)
      BY DEF ArrayOk
    <3>4. Axis(axes, i) = axes[i] /\ axes[i] \in Int
      BY <3>1, <3>2, <3>3, AxisType
    <3>5. Axis(other, i) = other[i] /\ other[i] \in Int
      <4> HIDE DEF n
      <4> QED
        BY <1>6, <3>1, <3>2, AxisType
    <3> QED
      BY <3>4, <3>5
  <2>4. \A i \in 1 .. n : sq(i) \in Int /\ sq(i) >= 0
    <3>1. \A k \in Int : k * k \in Int /\ k * k >= 0
      BY Signs
    <3>2. \A i \in 1 .. n : axes[i] - other[i] \in Int
      BY <2>3, Differences
    <3>3. \A i \in 1 .. n : sq(i) = (axes[i] - other[i]) * (axes[i] - other[i])
      BY DEF Square
    <3> HIDE DEF sq, n
    <3> QED
      BY <3>1, <3>2, <3>3
  <2>5. \A i \in 1 .. n : sums[i] = sums[i - 1] + sq(i)
    BY <2>2, <2>3
  <2> HIDE DEF sq, sums
  <2>6. CASE n = 2
    <3>1. 1 \in DOMAIN axes /\ 2 \in DOMAIN axes /\ 3 \notin DOMAIN axes /\ 4 \notin DOMAIN axes
      BY <1>1, <2>6
    <3>2. sums[1] = sums[0] + sq(1) /\ sums[2] = sums[1] + sq(2)
      BY <2>5, <2>6
    <3> QED
      BY <2>2, <2>4, <2>6, <3>1, <3>2
  <2>7. CASE n = 3
    <3>1. 1 \in DOMAIN axes /\ 2 \in DOMAIN axes /\ 3 \in DOMAIN axes /\ 4 \notin DOMAIN axes
      BY <1>1, <2>7
    <3>2. sums[1] = sums[0] + sq(1) /\ sums[2] = sums[1] + sq(2) /\ sums[3] = sums[2] + sq(3)
      BY <2>5, <2>7
    <3> QED
      BY <2>2, <2>4, <2>7, <3>1, <3>2
  <2>8. CASE n = 4
    <3>1. 1 \in DOMAIN axes /\ 2 \in DOMAIN axes /\ 3 \in DOMAIN axes /\ 4 \in DOMAIN axes
      BY <1>1, <2>8
    <3>2. /\ sums[1] = sums[0] + sq(1) /\ sums[2] = sums[1] + sq(2)
          /\ sums[3] = sums[2] + sq(3) /\ sums[4] = sums[3] + sq(4)
      BY <2>5, <2>8
    <3> QED
      BY <2>2, <2>4, <2>8, <3>1, <3>2
  <2> QED
    BY <1>1, <2>6, <2>7, <2>8
<1>7. m2 \in Int /\ m2 * 1 = m2
  BY DEF Square
<1>8. IsNear(axes, o.maxd, other) <=>
        /\ n = AxesUpTo4(other) /\ Numbers(other, n) /\ o.maxd >= 0
        /\ \E d \in 0 .. m2 :
             d = (IF 1 \in DOMAIN axes THEN sq(1) ELSE 0) + (IF 2 \in DOMAIN axes THEN sq(2) ELSE 0)
                 + (IF 3 \in DOMAIN axes THEN sq(3) ELSE 0) + (IF 4 \in DOMAIN axes THEN sq(4) ELSE 0)
  BY DEF IsNear
<1> DEFINE all == (IF 1 \in DOMAIN axes THEN sq(1) ELSE 0) + (IF 2 \in DOMAIN axes THEN sq(2) ELSE 0)
                  + (IF 3 \in DOMAIN axes THEN sq(3) ELSE 0) + (IF 4 \in DOMAIN axes THEN sq(4) ELSE 0)
<1>9. IsNear(axes, o.maxd, other) <=>
        n = AxesUpTo4(other) /\ Numbers(other, n) /\ o.maxd >= 0 /\ \E d \in 0 .. m2 : d = all
  BY <1>8
<1>10. AxesUpTo4(other) = n /\ Numbers(other, n) => sums[n] = all /\ sums[n] \in Nat
  BY <1>6
<1> HIDE DEF n, m, sums, m2, all
<1> QED
  BY <1>4, <1>5, <1>7, <1>9, <1>10
-----------------------------------------------------------------------------
(***************************************************************************)
(* The answers.                                                            *)
(***************************************************************************)
\* The numbers and points of an op.
OpNumbers(o) ==
  /\ o.maxd \in Int /\ o.mind \in Int
  /\ o.first \in Plane /\ o.corner \in Plane /\ o.points \in Seq(Plane)

\* A legacy $near has the numbers of its query.
OfLegacy ==
  op.type = "near" =>
    /\ query.name = "legacy" /\ op.axes = query.axes /\ ArrayOk(query.axes)
    /\ op.kind = Kind(query.axes) /\ op.maxd = query.maxd

\* What document is looked at when the program is there.
Looks ==
  /\ at = "parse"    => op.type = "undefined"
  /\ at = "ring"     => op.type = "polygon" /\ doc.type = "geo" /\ doc.at.type = "rings"
  /\ at = "boundary" => op.type = "boundary"

RightAnswers == NearByDistance /\ WithinMeaning /\ NearLine

AnswerInv ==
  ReasonInv /\ OpNumbers(op) /\ doc \in Docs /\ OfLegacy /\ Looks /\ RightAnswers

\* A fresh op has numbers.
LEMMA NewNumbers == OpNumbers(NewOp)
<1>1. << >> \in Seq(Plane)
  OBVIOUS
<1>2. Origin \in Plane
  BY DEF Origin, Point, Plane
<1> QED
  BY <1>1, <1>2 DEF OpNumbers, NewOp

\* Reading a $geometry gives points.
LEMMA GeometryNumbers ==
  ASSUME NEW o, IsOp(o), OpNumbers(o), NEW c, IsPlace(c), AreCoordinates(c)
  PROVE  OpNumbers(Geometry(o, c))
<1>1. CASE c.type = "none"
  <2>1. Geometry(o, c) = [o EXCEPT !.type = Opcode(o, c)]
    BY <1>1 DEF Geometry
  <2> QED
    BY <2>1 DEF IsOp, OpNumbers
<1>2. CASE c.type = "point"
  <2>1. Geometry(o, c) = [o EXCEPT !.type = Opcode(o, c), !.first = PointOf(c.axes), !.kind = 2]
    BY <1>2 DEF Geometry
  <2>2. PointOf(c.axes) \in Plane
    BY <1>2, AxisType DEF IsPlace
  <2> QED
    BY <2>1, <2>2 DEF IsOp, OpNumbers
<1>3. CASE c.type = "list"
  <2> DEFINE r == Read(c.points)
             points == [i \in DOMAIN r |-> PointOf(r[i])]
             n == Len(r)
             k == IF points = << >> THEN o.kind ELSE 2
             f == IF points = << >> THEN o.first ELSE points[1]
             ps == IF points = << >> THEN << >> ELSE ChainOf(points)
  <2>1. Geometry(o, c) = [o EXCEPT !.type = Opcode(o, c), !.kind = k, !.first = f, !.points = ps]
    BY <1>3 DEF Geometry
  <2>2. /\ n \in Nat /\ DOMAIN r = 1 .. n
        /\ \A i \in 1 .. n : AreAxes(r[i])
    <3>1. r \in Seq({c.points[i] : i \in DOMAIN c.points})
      BY <1>3 DEF AreCoordinates
    <3>2. \A i \in DOMAIN c.points : AreAxes(c.points[i])
      BY <1>3 DEF IsPlace, ArePoints, AreAxes
    <3> QED
      BY <3>1, <3>2
  <2>3. points = [i \in 1 .. n |-> points[i]] /\ \A i \in 1 .. n : points[i] \in Plane
    BY <2>2, AxisType
  <2> HIDE DEF points, r, n
  <2>4. Len(points) = n /\ (points # << >> => n # 0)
    <3>1. Len(points) = n
      BY <2>2, <2>3, FunctionIsList
    <3>2. points \in Seq(Plane)
      BY <2>2, <2>3
    <3> QED
      BY <3>1, <3>2
  <2>5. f \in Plane
    <3>1. points # << >> => 1 \in 1 .. n
      BY <2>2, <2>4
    <3> QED
      BY <2>3, <3>1 DEF OpNumbers
  <2>6. ps \in Seq(Plane)
    <3>1. CASE points = << >>
      BY <3>1
    <3>2. CASE points # << >>
      <4>1. ChainOf(points) = [i \in 1 .. n |-> IF i < n THEN points[i + 1] ELSE Origin]
        BY <2>4 DEF ChainOf
      <4>2. Origin \in Plane
        BY DEF Origin, Point, Plane
      <4>3. \A i \in 1 .. n : (IF i < n THEN points[i + 1] ELSE Origin) \in Plane
        BY <2>2, <2>3, <4>2
      <4>4. ChainOf(points) \in [1 .. n -> Plane]
        BY <4>1, <4>3
      <4>5. ChainOf(points) \in Seq(Plane)
        BY <2>2, <4>4
      <4> QED
        BY <3>2, <4>5
    <3> QED
      BY <3>1, <3>2
  <2> HIDE DEF k, f, ps
  <2> QED
    BY <2>1, <2>5, <2>6 DEF IsOp, OpNumbers
<1> QED
  BY <1>1, <1>2, <1>3 DEF AreCoordinates
-----------------------------------------------------------------------------
\* _mongoc_matcher_op_near answers right.
LEMMA NearAnswers ==
  ASSUME AnswerInv, MatchNear
  PROVE  RightAnswers'
<1>1. /\ op.type = "near" /\ op' = op /\ query' = query /\ doc' = doc
      /\ result' = (doc.type = "array" /\ ArrayOk(doc.axes) /\ Inside(op, doc.axes))
  BY DEF MatchNear, Matching, Answer
<1>2. /\ query.name = "legacy" /\ op.axes = query.axes /\ ArrayOk(query.axes)
      /\ op.kind = Kind(query.axes) /\ op.maxd = query.maxd
      /\ query \in Queries /\ doc \in Docs /\ op.maxd \in Int
  BY <1>1 DEF AnswerInv, OfLegacy, ReasonInv, GeoInv, OpNumbers
<1>3. AreAxes(query.axes) /\ (doc.type = "array" => AreAxes(doc.axes))
  BY <1>2, NumbersAssumption
<1>4. ASSUME Len(query.axes) \in 2 .. 4, doc.type = "array"
      PROVE  ArrayOk(doc.axes) /\ Inside(op, doc.axes) <=> IsNear(query.axes, query.maxd, doc.axes)
  <2>1. op.axes = query.axes /\ AreAxes(doc.axes)
    BY <1>2, <1>3, <1>4
  <2>2. ArrayOk(doc.axes) /\ Inside(op, doc.axes) <=> IsNear(query.axes, op.maxd, doc.axes)
    BY <1>2, <1>3, <1>4, <2>1, NearRight
  <2> QED
    BY <1>2, <2>2
<1>5. ASSUME Len(query.axes) \in 2 .. 4
      PROVE  result' <=> doc.type = "array" /\ IsNear(query.axes, query.maxd, doc.axes)
  BY <1>1, <1>4, <1>5
<1>6. NearByDistance'
  BY <1>1, <1>5 DEF NearByDistance, IsNear
<1>7. WithinMeaning' /\ NearLine'
  BY <1>1 DEF WithinMeaning, NearLine, IsNearLine
<1> QED
  BY <1>6, <1>7 DEF RightAnswers

\* The point of a document that is one.
LEMMA ThePointIs ==
  ASSUME doc \in Docs, Len(ThePoint) = 2
  PROVE  /\ AreAxes(ThePoint) /\ Kind(ThePoint) = 2 /\ PointOf(ThePoint) \in Plane
         /\ Numbers(ThePoint, 2) => ArrayOk(ThePoint)
         /\ doc.type = "array" \/ (doc.type = "geo" /\ doc.at.type = "point")
         /\ doc.type = "array" => ThePoint = doc.axes
         /\ doc.type = "geo" => ThePoint = doc.at.axes
<1>1. Len(<< >>) # 2
  OBVIOUS
<1>2. doc.type = "array" \/ (doc.type = "geo" /\ doc.at.type = "point")
  BY <1>1 DEF ThePoint
<1>3. /\ doc.type = "array" => ThePoint = doc.axes
      /\ doc.type = "geo" => ThePoint = doc.at.axes
  BY <1>2 DEF ThePoint
<1>4. AreAxes(ThePoint)
  BY <1>2, <1>3, NumbersAssumption DEF IsPlace
<1>5. DOMAIN ThePoint = 1 .. 2
  <2> DEFINE s == ThePoint
  <2>1. s \in Seq(Int \cup {Bad}) /\ Len(s) = 2
    BY <1>4 DEF AreAxes
  <2> HIDE DEF s
  <2>2. DOMAIN s = 1 .. 2
    BY <2>1
  <2> QED
    BY <2>2 DEF s
<1>6. Numbers(ThePoint, 2) => ArrayOk(ThePoint)
  BY <1>5 DEF Numbers, ArrayOk
<1>7. Kind(ThePoint) = 2
  BY DEF Kind, AxesUpTo4
<1> QED
  BY <1>2, <1>3, <1>4, <1>6, <1>7, AxisType

\* _mongoc_matcher_op_geowithin answers right of a box.
LEMMA BoxAnswers ==
  ASSUME AnswerInv, MatchBox
  PROVE  RightAnswers'
<1>1. /\ op.type = "box" /\ op' = op /\ query' = query /\ doc' = doc
      /\ LET p == PointOf(doc.axes)
         IN  result' = (/\ doc.type = "array" /\ ArrayOk(doc.axes) /\ Kind(doc.axes) = 2
                        /\ op.first.x <= p.x /\ op.first.y <= p.y
                        /\ p.x <= op.corner.x /\ p.y <= op.corner.y)
  BY DEF MatchBox, Matching, Answer
<1>2. doc \in Docs /\ op.first \in Plane /\ op.corner \in Plane
  BY DEF AnswerInv, OpNumbers
<1>3. ASSUME Len(ThePoint) = 2, Numbers(ThePoint, 2), doc.type = "array",
             op.first.x < op.corner.x, op.first.y < op.corner.y
      PROVE  LET box == <<op.first, Point(op.corner.x, op.first.y), op.corner,
                          Point(op.first.x, op.corner.y)>>
             IN  /\ InsideOf(box, PointOf(ThePoint)) => result'
                 /\ OutsideOf(box, PointOf(ThePoint)) => ~result'
  <2>1. /\ ThePoint = doc.axes /\ Kind(doc.axes) = 2 /\ ArrayOk(doc.axes)
        /\ PointOf(ThePoint) \in Plane
    BY <1>2, <1>3, ThePointIs
  <2> DEFINE box == <<op.first, Point(op.corner.x, op.first.y), op.corner,
                      Point(op.first.x, op.corner.y)>>
             p == PointOf(ThePoint)
             within == /\ op.first.x <= p.x /\ op.first.y <= p.y
                       /\ p.x <= op.corner.x /\ p.y <= op.corner.y
  <2>2. (InsideOf(box, p) => within) /\ (OutsideOf(box, p) => ~within)
    BY <1>2, <1>3, <2>1, BoxIs
  <2>3. result' <=> within
    BY <1>1, <1>3, <2>1
  <2> QED
    BY <2>2, <2>3
<1>4. ThePoint' = ThePoint
  BY <1>1 DEF ThePoint
<1>5. WithinMeaning'
  BY <1>1, <1>3, <1>4 DEF WithinMeaning
<1>6. NearByDistance' /\ NearLine'
  BY <1>1 DEF NearByDistance, NearLine, IsNearLine
<1> QED
  BY <1>5, <1>6 DEF RightAnswers

\* _mongoc_matcher_op_geowithinpoly answers right of a point.
LEMMA PolygonAnswers ==
  ASSUME AnswerInv, MatchPolygon, at' = "answered"
  PROVE  RightAnswers'
<1>1. /\ op.type = "polygon" /\ op' = op /\ query' = query /\ doc' = doc
      /\ result' = (\/ doc.type = "array" /\ PointInOp(doc.axes)
                    \/ doc.type = "geo" /\ doc.at.type = "point" /\ PointInOp(doc.at.axes))
  BY DEF MatchPolygon, Matching, Answer
<1>2. doc \in Docs /\ op.points \in Seq(Plane)
  BY DEF AnswerInv, OpNumbers
<1>3. ASSUME Len(ThePoint) = 2, Numbers(ThePoint, 2), Convex(op.points)
      PROVE  /\ InsideOf(op.points, PointOf(ThePoint)) => result'
             /\ OutsideOf(op.points, PointOf(ThePoint)) => ~result'
  <2>1. /\ Kind(ThePoint) = 2 /\ ArrayOk(ThePoint) /\ PointOf(ThePoint) \in Plane
        /\ doc.type = "array" \/ (doc.type = "geo" /\ doc.at.type = "point")
        /\ doc.type = "array" => ThePoint = doc.axes
        /\ doc.type = "geo" => ThePoint = doc.at.axes
    BY <1>2, <1>3, ThePointIs
  <2>2. result' <=> PointInOp(ThePoint)
    BY <1>1, <2>1
  <2>3. result' <=> PointInPoly(op.points, PointOf(ThePoint))
    BY <2>1, <2>2 DEF PointInOp
  <2>4. PICK way \in {1, -1} : TurnsOneWay(op.points, way)
    BY <1>3 DEF Convex
  <2>5. Polygon(op.points, way)
    BY <1>2, <1>3, <2>4 DEF Polygon, Convex
  <2> QED
    BY <2>1, <2>3, <2>5, PointInConvex
<1>4. ThePoint' = ThePoint
  BY <1>1 DEF ThePoint
<1>5. WithinMeaning'
  BY <1>1, <1>3, <1>4 DEF WithinMeaning
<1>6. NearByDistance' /\ NearLine'
  BY <1>1 DEF NearByDistance, NearLine, IsNearLine
<1> QED
  BY <1>5, <1>6 DEF RightAnswers

\* _mongoc_matcher_op_near_boundary answers right of a line of two points.
LEMMA BoundaryAnswers ==
  ASSUME AnswerInv, StartBoundary \/ NextVertex, at' = "answered"
  PROVE  RightAnswers'
<1>1. /\ op.type = "boundary" /\ op' = op /\ query' = query /\ doc' = doc
      /\ doc \in Docs /\ OpNumbers(op)
  BY DEF AnswerInv, StartBoundary, NextVertex, Looks
<1>2. NearByDistance' /\ WithinMeaning'
  BY <1>1 DEF NearByDistance, WithinMeaning
<1> DEFINE c == PointOf(doc.at.axes)
<1>3. ASSUME Len(op.points) = 2, doc.first = "document",
             doc.type = "geo", doc.at.type = "point", HasPoint(doc.at.axes),
             ~Wraps(op.first, op.points[1], c)
      PROVE  LET d == SegmentDistance(op.first, op.points[1], c)
             IN  result' <=> AtMost(d, op.maxd) /\ AtLeast(d, op.mind)
  <2>1. NextVertex
    <3>1. op.points # << >>
      BY <1>3
    <3>2. GeometryOk(doc.at) /\ PlaceOf(doc) = doc.at
      BY <1>3 DEF PlaceOf, GeometryOk
    <3>3. IsPlaced(doc)
      BY <1>3, <3>2 DEF IsPlaced
    <3> QED
      BY <3>1, <3>3 DEF StartBoundary
  <2>2. index = 1
    <3>1. index \in 1 .. Len(op.points) /\ (index = Len(op.points) => Len(op.points) = 1)
      BY <2>1 DEF AnswerInv, ReasonInv, Reasons, NextVertex
    <3> QED
      BY <1>3, <3>1
  <2>3. Here = c
    <3>1. /\ PlaceOf(doc) = doc.at
          /\ Geometry(NewOp, doc.at) = [NewOp EXCEPT !.type = Opcode(NewOp, doc.at),
                                                    !.first = c, !.kind = 2]
      BY <1>3 DEF Geometry, PlaceOf
    <3> QED
      BY <3>1 DEF Here, NewOp
  <2>4. result' <=> Near
    BY <1>3, <2>1, <2>2 DEF NextVertex, Answer
  <2>5. Near <=> /\ AtMost(CrossArc(op.first, op.points[1], c), op.maxd)
                 /\ AtLeast(CrossArc(op.first, op.points[1], c), op.mind)
    BY <2>2, <2>3 DEF Near
  <2>6. op.first \in Plane /\ op.points[1] \in Plane /\ c \in Plane /\ op.maxd \in Int /\ op.mind \in Int
    <3>1. c \in Plane
      BY <1>1, <1>3, NumbersAssumption, AxisType DEF IsPlace
    <3>2. op.points[1] \in Plane
      BY <1>1, <1>3 DEF OpNumbers
    <3> QED
      BY <1>1, <3>1, <3>2 DEF OpNumbers
  <2> HIDE DEF c
  <2>7. /\ AtMost(CrossArc(op.first, op.points[1], c), op.maxd) <=>
              AtMost(SegmentDistance(op.first, op.points[1], c), op.maxd)
        /\ AtLeast(CrossArc(op.first, op.points[1], c), op.mind) <=>
              AtLeast(SegmentDistance(op.first, op.points[1], c), op.mind)
    BY <1>3, <2>6, CrossArcIs
  <2> QED
    BY <2>4, <2>5, <2>7
<1>4. NearLine'
  BY <1>1, <1>3 DEF NearLine, IsNearLine
<1> QED
  BY <1>2, <1>4 DEF RightAnswers
-----------------------------------------------------------------------------
\* The query and the document stay.
LEMMA SameQuestion == [Next]_vars => UNCHANGED <<query, doc>>
<1> SUFFICES ASSUME [Next]_vars PROVE UNCHANGED <<query, doc>>
  OBVIOUS
<1>1. CASE CompileLegacy \/ StartParts \/ ReadGeometryPart \/ GeometryRead
  BY <1>1 DEF CompileLegacy, StartParts, ReadGeometryPart, GeometryRead
<1>2. CASE ReadBox \/ StartPolygon \/ SkipPart \/ AddPoint \/ PolygonRead \/ NothingWithin
  BY <1>2 DEF ReadBox, StartPolygon, SkipPart, AddPoint, PolygonRead, NothingWithin
<1>3. CASE MatchNear \/ MatchGeoNear \/ MatchBox \/ MatchPolygon
  BY <1>3 DEF MatchNear, MatchGeoNear, MatchBox, MatchPolygon, Matching
<1>4. CASE StartRing \/ RingPoint \/ StartBoundary \/ NextVertex \/ Destroy
  BY <1>4 DEF StartRing, RingPoint, StartBoundary, NextVertex, Destroy
<1>5. CASE Stopped \/ UNCHANGED vars
  BY <1>5 DEF Stopped, vars
<1> QED
  BY <1>1, <1>2, <1>3, <1>4, <1>5 DEF Next

\* The numbers of the op stay numbers, and a legacy $near those of its query.
LEMMA NumbersStep ==
  ASSUME AnswerInv, [Next]_vars
  PROVE  OpNumbers(op') /\ OfLegacy'
<1>a. /\ ReasonInv /\ GeoInv /\ Reasons /\ Counted /\ OpNumbers(op) /\ OfLegacy
      /\ query \in Queries /\ IsOp(op) /\ part \in Nat \ {0} /\ query' = query
  BY SameQuestion DEF AnswerInv, ReasonInv, GeoInv
<1>b. /\ query.name \in {"legacy", "geometry", "within"}
      /\ query.name # "legacy" =>
           Len(query.parts) \in Nat /\ DOMAIN query.parts = 1 .. Len(query.parts)
  BY <1>a, QueriesAssumption
<1>c. ASSUME op' = op PROVE OpNumbers(op') /\ OfLegacy'
  BY <1>a, <1>c DEF OfLegacy
<1>1. CASE CompileLegacy
  <2>1. CASE op' = op
    BY <1>c, <2>1
  <2>2. CASE op' = [NewOp EXCEPT !.type = "near", !.kind = Kind(query.axes),
                                 !.axes = query.axes, !.maxd = query.maxd]
             /\ ArrayOk(query.axes)
    <3>1. query.name = "legacy" /\ query.maxd \in Int
      BY <1>1, <1>a, NumbersAssumption DEF CompileLegacy
    <3>2. OpNumbers(op')
      BY <2>2, <3>1, NewNumbers, NewOpIsOp DEF OpNumbers, IsOp
    <3>3. OfLegacy'
      BY <1>a, <2>2, <3>1, NewOpIsOp DEF OfLegacy, IsOp
    <3> QED
      BY <3>2, <3>3
  <2> QED
    BY <1>1, <2>1, <2>2 DEF CompileLegacy
<1>2. CASE StartParts
  <2>1. PICK t \in {"undefined", "geonear"} : op' = [NewOp EXCEPT !.type = t]
    BY <1>2 DEF StartParts
  <2>2. OpNumbers(op') /\ op'.type # "near"
    BY <2>1, NewNumbers, NewOpIsOp DEF OpNumbers, IsOp
  <2> QED
    BY <2>2 DEF OfLegacy
<1>3. CASE ReadGeometryPart
  <2> DEFINE key == query.parts[part].key
  <2>1. /\ at = "geometry" /\ query.name = "geometry" /\ part \in 1 .. Len(query.parts)
        /\ op.type # "near"
    BY <1>3, <1>a, <1>b DEF ReadGeometryPart, Counted, OfLegacy
  <2>2. CASE op' = op
    BY <1>c, <2>2
  <2>3. CASE key = "$geometry" /\ op' = Geometry(op, Value)
    <3>1. AreCoordinates(Value) /\ IsPlace(Value)
      BY <1>a, <2>1, <2>3, QueriesAssumption, NumbersAssumption DEF Value, AreCoordinates
    <3>2. OpNumbers(op')
      BY <1>a, <2>3, <3>1, GeometryNumbers
    <3>3. op'.type # "near"
      BY <1>a, <2>1, <2>3, <3>1, GeometryType
    <3> QED
      BY <3>2, <3>3 DEF OfLegacy
  <2>4. CASE /\ key \in {"$maxDistance", "$minDistance"} /\ Value # Bad
             /\ op' = [op EXCEPT !.maxd = Value] \/ op' = [op EXCEPT !.mind = Value]
    <3>1. Value \in Int
      BY <1>a, <2>1, <2>4, NumbersAssumption DEF Value
    <3>2. OpNumbers(op') /\ op'.type = op.type
      BY <1>a, <2>4, <3>1 DEF OpNumbers, IsOp
    <3> QED
      BY <2>1, <3>2 DEF OfLegacy
  <2> QED
    BY <1>3, <2>2, <2>3, <2>4 DEF ReadGeometryPart
<1>4. CASE ReadBox
  <2>1. CASE op' = op
    BY <1>c, <2>1
  <2>2. CASE op' = [op EXCEPT !.type = "box", !.kind = 2,
                              !.first = PointOf(Value[1]), !.corner = PointOf(Value[2])]
             /\ BoxOk(Value)
    <3>1. ArePoints(Value)
      <4>1. query.name # "legacy" /\ part \in 1 .. Len(query.parts)
        BY <1>4, <1>a, <1>b DEF ReadBox, Counted
      <4> QED
        BY <1>4, <1>a, <4>1, NumbersAssumption DEF ReadBox, Value
    <3>2. AreAxes(Value[1]) /\ AreAxes(Value[2])
      BY <2>2, <3>1 DEF BoxOk, ArePoints, AreAxes
    <3>3. PointOf(Value[1]) \in Plane /\ PointOf(Value[2]) \in Plane
      BY <3>2, AxisType
    <3>4. OpNumbers(op') /\ op'.type = "box"
      BY <1>a, <2>2, <3>3 DEF OpNumbers, IsOp
    <3> QED
      BY <3>4 DEF OfLegacy
  <2> QED
    BY <1>4, <2>1, <2>2 DEF ReadBox
<1>5. CASE StartPolygon
  <2>1. CASE op' = op
    BY <1>c, <2>1
  <2>2. CASE op' = [op EXCEPT !.type = "polygon", !.kind = 2, !.maxd = 0]
    <3>1. OpNumbers(op') /\ op'.type = "polygon"
      BY <1>a, <2>2 DEF OpNumbers, IsOp
    <3> QED
      BY <3>1 DEF OfLegacy
  <2> QED
    BY <1>5, <2>1, <2>2 DEF StartPolygon
<1>6. CASE AddPoint
  <2>1. /\ at = "points" /\ query.name = "within" /\ op.type = "polygon"
        /\ part \in DOMAIN query.parts /\ query.parts[part].key = "$polygon"
        /\ index = op.maxd + 1 /\ op.maxd = Len(op.points) /\ index <= Len(Value)
    BY <1>6, <1>a DEF AddPoint, Reasons, Counted
  <2>2. CASE op' = op
    BY <1>c, <2>2
  <2>3. CASE op' = [op EXCEPT !.freed = TRUE]
    <3>1. OpNumbers(op') /\ op'.type = "polygon"
      BY <1>a, <2>1, <2>3 DEF OpNumbers, IsOp
    <3> QED
      BY <3>1 DEF OfLegacy
  <2>4. CASE op' = [op EXCEPT !.points = Append(@, PointOf(Value[index])), !.maxd = @ + 1]
    <3>1. op.points \in Seq(Plane) /\ Len(op.points) \in Nat
      BY <1>a DEF OpNumbers
    <3>2. AreAxes(Value[index])
      <4>1. ArePoints(Value)
        BY <1>a, <1>b, <2>1, NumbersAssumption DEF Value
      <4>2. index \in 1 .. Len(Value)
        BY <2>1, <3>1, <4>1 DEF ArePoints
      <4> QED
        BY <4>1, <4>2 DEF ArePoints, AreAxes
    <3>3. Append(op.points, PointOf(Value[index])) \in Seq(Plane)
      BY <3>1, <3>2, AxisType
    <3>4. OpNumbers(op') /\ op'.type = "polygon"
      BY <1>a, <2>1, <2>4, <3>3 DEF OpNumbers, IsOp
    <3> QED
      BY <3>4 DEF OfLegacy
  <2> QED
    BY <1>6, <2>2, <2>3, <2>4 DEF AddPoint
<1>7. CASE Destroy
  <2>1. op' = [op EXCEPT !.freed = TRUE]
    BY <1>7 DEF Destroy
  <2>2. /\ OpNumbers(op') /\ op'.type = op.type /\ op'.axes = op.axes
        /\ op'.kind = op.kind /\ op'.maxd = op.maxd
    BY <1>a, <2>1 DEF OpNumbers, IsOp
  <2> QED
    BY <1>a, <2>2 DEF OfLegacy
<1>8. CASE GeometryRead \/ SkipPart \/ PolygonRead \/ NothingWithin
  BY <1>8, <1>c DEF GeometryRead, SkipPart, PolygonRead, NothingWithin
<1>9. CASE MatchNear \/ MatchGeoNear \/ MatchBox \/ MatchPolygon
  BY <1>9, <1>c DEF MatchNear, MatchGeoNear, MatchBox, MatchPolygon, Matching
<1>10. CASE StartRing \/ RingPoint \/ StartBoundary \/ NextVertex
  BY <1>10, <1>c DEF StartRing, RingPoint, StartBoundary, NextVertex
<1>11. CASE Stopped \/ UNCHANGED vars
  BY <1>11, <1>c DEF Stopped, vars
<1> QED
  BY <1>1, <1>2, <1>3, <1>4, <1>5, <1>6, <1>7, <1>8, <1>9, <1>10, <1>11 DEF Next

\* The program starts without an answer, and with a fresh op.
LEMMA AnswerInit == Init => AnswerInv
<1> SUFFICES ASSUME Init PROVE AnswerInv
  OBVIOUS
<1>1. op.type = "undefined" /\ OpNumbers(op)
  BY NewNumbers DEF Init, NewOp
<1>2. ReasonInv /\ at = "parse" /\ doc \in Docs
  BY ReasonInit DEF Init
<1>3. RightAnswers
  BY <1>2 DEF RightAnswers, NearByDistance, WithinMeaning, NearLine, IsNearLine, Answered
<1> QED
  BY <1>1, <1>2, <1>3 DEF AnswerInv, OfLegacy, Looks

\* Every step that answers answers right.
LEMMA AnswerStep == AnswerInv /\ [Next]_vars => AnswerInv'
<1> SUFFICES ASSUME AnswerInv, [Next]_vars PROVE AnswerInv'
  OBVIOUS
<1>a. /\ ReasonInv /\ ReasonInv' /\ doc' = doc /\ doc' \in Docs /\ query' = query
      /\ OpNumbers(op') /\ OfLegacy' /\ Looks /\ RightAnswers
  BY ReasonStep, NumbersStep, SameQuestion DEF AnswerInv
<1> SUFFICES Looks' /\ RightAnswers'
  BY <1>a DEF AnswerInv
<1>b. ASSUME at' # "answered" PROVE RightAnswers'
  BY <1>b DEF RightAnswers, NearByDistance, WithinMeaning, NearLine, IsNearLine, Answered
<1>c. ASSUME at' \notin {"parse", "ring", "boundary"} PROVE Looks'
  BY <1>c DEF Looks
<1>1. CASE CompileLegacy \/ GeometryRead \/ NothingWithin \/ PolygonRead \/ StartPolygon \/ Destroy
  <2>1. at' \in {"refused", "abort", "compiled", "useAfterFree", "points", "destroyed"}
    BY <1>1 DEF CompileLegacy, GeometryRead, NothingWithin, PolygonRead, StartPolygon, Destroy
  <2> QED
    BY <1>b, <1>c, <2>1
<1>2. CASE StartParts
  <2>1. at' \in {"geometry", "within"}
    <3>1. query \in Queries
      BY <1>a DEF ReasonInv, GeoInv
    <3> QED
      BY <1>2, <3>1, QueriesAssumption DEF StartParts
  <2> QED
    BY <1>b, <1>c, <2>1
<1>3. CASE ReadGeometryPart \/ ReadBox \/ SkipPart \/ AddPoint
  <2>1. at' \in {"geometry", "abort", "useAfterFree", "compiled", "within", "overflow", "points"}
    BY <1>3 DEF ReadGeometryPart, ReadBox, SkipPart, AddPoint
  <2> QED
    BY <1>b, <1>c, <2>1
<1>4. CASE MatchNear
  <2>1. at' = "answered"
    BY <1>4 DEF MatchNear, Answer
  <2> QED
    BY <1>4, <1>c, <2>1, NearAnswers
<1>5. CASE MatchGeoNear
  <2>1. at' = "answered" /\ op'.type = "geonear"
    BY <1>5 DEF MatchGeoNear, Matching, Answer
  <2>2. RightAnswers'
    BY <2>1 DEF RightAnswers, NearByDistance, WithinMeaning, NearLine, IsNearLine
  <2> QED
    BY <1>c, <2>1, <2>2
<1>6. CASE MatchBox
  <2>1. at' = "answered"
    BY <1>6 DEF MatchBox, Answer
  <2> QED
    BY <1>6, <1>c, <2>1, BoxAnswers
<1>7. CASE MatchPolygon
  <2>1. at' \in {"answered", "undefined"}
    BY <1>7 DEF MatchPolygon, Answer
  <2> QED
    BY <1>7, <1>b, <1>c, <2>1, PolygonAnswers
<1>8. CASE StartRing
  <2>1. at' = "ring" /\ op' = op /\ op.type = "polygon" /\ doc.type = "geo" /\ doc.at.type = "rings"
    BY <1>8 DEF StartRing, Ring
  <2>2. Looks'
    BY <1>a, <2>1 DEF Looks
  <2> QED
    BY <1>b, <2>1, <2>2
<1>9. CASE RingPoint
  <2>1. /\ at' \in {"ring", "answered"} /\ op' = op
        /\ op.type = "polygon" /\ doc.type = "geo" /\ doc.at.type = "rings"
    BY <1>9, <1>a DEF RingPoint, Looks
  <2>2. Looks'
    BY <1>a, <2>1 DEF Looks
  <2>3. ThePoint' = << >> /\ Len(<< >>) # 2
    BY <1>a, <2>1 DEF ThePoint
  <2>4. RightAnswers'
    BY <2>1, <2>3 DEF RightAnswers, NearByDistance, WithinMeaning, NearLine, IsNearLine
  <2> QED
    BY <2>2, <2>4
<1>10. CASE StartBoundary
  <2>1. at' \in {"answered", "boundary"}
    BY <1>10 DEF StartBoundary, Answer
  <2>2. op' = op /\ op.type = "boundary"
    BY <1>10 DEF StartBoundary
  <2>3. Looks'
    BY <1>a, <2>1, <2>2 DEF Looks
  <2> QED
    BY <1>10, <1>b, <2>1, <2>3, BoundaryAnswers
<1>11. CASE NextVertex
  <2>1. at' \in {"answered", "nullPointer", "boundary"} /\ op' = op /\ at = "boundary"
    BY <1>11 DEF NextVertex, Answer
  <2>2. Looks'
    BY <1>a, <2>1 DEF Looks
  <2> QED
    BY <1>11, <1>b, <2>1, <2>2, BoundaryAnswers
<1>12. CASE Stopped \/ UNCHANGED vars
  <2>1. UNCHANGED vars
    BY <1>12 DEF Stopped
  <2>2. Looks'
    BY <1>a, <2>1 DEF Looks, vars
  <2>3. ThePoint' = ThePoint
    BY <2>1 DEF ThePoint, vars
  <2>4. RightAnswers'
    BY <1>a, <2>1, <2>3 DEF RightAnswers, NearByDistance, WithinMeaning, NearLine, IsNearLine, Answered, vars
  <2> QED
    BY <2>2, <2>4
<1> QED
  BY <1>1, <1>2, <1>3, <1>4, <1>5, <1>6, <1>7, <1>8, <1>9, <1>10, <1>11, <1>12 DEF Next

\* For any legacy $near of two to four axes and any document: it matches just
\* the arrays of as many axes that are no farther away than its distance.
THEOREM NearMatchesByDistance == Spec => []NearByDistance
<1>1. AnswerInv => NearByDistance
  BY DEF AnswerInv, RightAnswers
<1> QED
  BY <1>1, AnswerInit, AnswerStep, PTL DEF Spec

\* For any box, any convex polygon and any point: a $geoWithin matches the point
\* when it is strictly inside, and does not when it is strictly outside.
THEOREM WithinMeansInside == Spec => []WithinMeaning
<1>1. AnswerInv => WithinMeaning
  BY DEF AnswerInv, RightAnswers
<1> QED
  BY <1>1, AnswerInit, AnswerStep, PTL DEF Spec

\* For any line of two points, and any point whose bearings do not wrap, at a
\* path whose first key is a document: a $near matches when the distance of the
\* point to the segment is in the range.
THEOREM LinesMatchByDistance == Spec => []NearLine
<1>1. AnswerInv => NearLine
  BY DEF AnswerInv, RightAnswers
<1> QED
  BY <1>1, AnswerInit, AnswerStep, PTL DEF Spec
=============================================================================
