--------------------------------- MODULE MCGeo ---------------------------------
(***************************************************************************)
(* A grid of a few points, polygons of three to five, lists of at most six.*)
(***************************************************************************)
EXTENDS Geo

Grid == 0 .. 4
Axes2 == {<<x, y>> : x, y \in Grid}

\* A value at a path without dots; At puts it below a first key of another type.
Arr(axes)    == [type |-> "array", axes |-> axes, first |-> "array"]
Geom(c)      == [type |-> "geo", at |-> c, first |-> "document"]
Other        == [type |-> "other", first |-> "other"]
At(t, d)     == [d EXCEPT !.first = t]

None         == [type |-> "none", line |-> FALSE]
Pt(axes)     == [type |-> "point", axes |-> axes, line |-> FALSE]
Line(ps)     == [type |-> "list", points |-> ps, line |-> FALSE]
Rings(ps)    == [type |-> "rings", points |-> ps, line |-> FALSE]
Lined(c)     == [c EXCEPT !.line = TRUE]

MCDocs ==
  {Other, Geom(None)}
    \cup {Arr(a) : a \in Axes2} \cup {Geom(Pt(a)) : a \in Axes2}
    \cup {Arr(a) : a \in {<< >>, <<1>>, <<1, Bad>>, <<Bad, 1>>, <<1, 2, 3>>, <<1, 2, 3, 4>>,
                         <<1, 2, 3, 4, Bad>>}}
    \cup {Geom(Pt(a)) : a \in {<<1>>, <<1, Bad>>, <<1, 1, 7>>}}
    \cup {Geom(Line(ps)) : ps \in {<< >>, <<<<1, 1>>, <<2, 2>>>>, <<<<1>>>>,
                                 <<<<1, 1>>, <<1, 1>>, <<1, 1>>, <<1, 1>>, <<1, 1>>, <<1, 1>>>>}}
    \cup {Geom(Rings(ps)) : ps \in {<< >>, <<<<1, 1>>, <<2, 1>>>>, <<<<1, 1>>, <<4, 4>>, <<1, 2>>>>,
                                  <<<<4, 4>>, <<1, 1>>>>, <<<<1, Bad>>>>}}
    \cup {At("array", d) : d \in {Geom(None), Geom(Pt(<<2, 1>>)), Geom(Pt(<<3, 1>>)), Other}}
    \cup {At("document", d) : d \in {Arr(<<2, 1>>), Arr(<< >>), Other}}
    \cup {Geom(Lined(c)) : c \in {None, Pt(<<2, 1>>), Line(<<<<1, 1>>, <<2, 2>>>>)}}

Legacy(axes, second, maxd) ==
  [name |-> "legacy", axes |-> axes, second |-> second, maxd |-> maxd]
Part(k, v)       == [key |-> k, value |-> v]
Geometries(ps)   == [name |-> "geometry", parts |-> ps]
Within(ps)       == [name |-> "within", parts |-> ps]
Near3(c, lo, hi) == Geometries(<<Part("$geometry", c), Part("$minDistance", lo),
                                 Part("$maxDistance", hi)>>)

Lines == {<<p, q>> : p \in {<<0, 0>>, <<2, 2>>, <<3, 1>>}, q \in {<<0, 0>>, <<4, 2>>, <<2, 0>>, <<1, 4>>}}

Polygons ==
  {<< >>, <<<<1, 1>>>>, <<<<0, 0>>, <<4, 0>>, <<0, 4>>>>, <<<<0, 0>>, <<0, 4>>, <<4, 1>>>>,
   <<<<0, 0>>, <<3, 0>>, <<3, 3>>, <<0, 3>>>>, <<<<1, 0>>, <<0, 2>>, <<2, 4>>, <<4, 3>>, <<3, 1>>>>,
   <<<<0, 0>>, <<4, 0>>, <<2, 1>>, <<4, 4>>, <<0, 4>>>>, <<<<0, 0>>, <<4, Bad>>, <<0, 4>>>>}

Full == [i \in 1 .. MaxPoints |-> <<i, i>>]
Box1 == Part("$box", <<<<1, 1>>, <<3, 4>>>>)

MCQueries ==
  {Legacy(a, "int32", d) : a \in {<<2, 2>>, <<1, 2, 3>>, <<1, 2, 3, 3>>, <<1, 2, 3, 4, 5>>, <<1>>, << >>},
                           d \in {-1, 0, 1, 2}}
    \cup {Legacy(<<1, 1>>, "other", 1), Legacy(<<1, 1>>, "none", 1), Legacy(<<1, Bad>>, "int32", 1)}
    \cup {Near3(Pt(<<2, 1>>), lo, hi) : lo \in {0, 1}, hi \in {0, 2}}
    \cup {Near3(Line(l), lo, hi) : l \in Lines, lo \in {0, 1}, hi \in {0, 1, 2}}
    \cup {Near3(Line(<<<<0, 4>>, <<0, 0>>, <<4, 0>>, <<4, 4>>>>), 0, 1), Near3(Line(<<<<3, 3>>>>), 0, 1),
          Near3(Line(<< >>), 0, 1), Near3(Line([i \in 1 .. MaxPoints |-> <<1, 1>>]), 0, 1),
          Near3(Line(<<<<1, 1>>, << >>, <<2, Bad>>>>), 0, 1), Near3(None, 0, 1),
          Near3(Lined(Pt(<<2, 1>>)), 0, 1), Near3(Lined(None), 0, 1),
          Near3(Lined(Line(<<<<0, 0>>, <<4, 2>>>>)), 0, 1), Near3(Line(<<<< >>>>), 0, 1),
          Near3(Pt(<<1>>), 0, 1), Near3(Pt(<<1, 1>>), 0, Bad), Geometries(<<Part("$other", 1)>>)}
    \cup {Within(<<Part("$polygon", ps)>>) : ps \in Polygons}
    \cup {Within(<<Box1>>), Within(<<Part("$box", <<<<1, 1>>>>), Part("$other", 1)>>), Within(<< >>),
          Within(<<Part("$box", <<<<1, 1>>>>), Part("$polygon", <<<<0, 0>>, <<4, 0>>, <<0, 4>>>>)>>),
          Within(<<Part("$polygon", Full)>>), Within(<<Part("$polygon", Full), Box1>>),
          Within(<<Part("$polygon", Full), Part("$polygon", << >>)>>),
          Within(<<Part("$polygon", Full \o Full)>>)}
=============================================================================
