------------------------------ MODULE Rasterizer2D ------------------------------
(****************************************************************************)
(* The rasterizer of the motion core (Rasterizer2D.cpp): lines after        *)
(* Bresenham, outlines of polygons made of them, and polygons filled row by *)
(* row with spans between their edges.  A behaviour is one call; a step is  *)
(* one turn of its loop, and the point or the spans of that turn are what    *)
(* the callback gets.                                                       *)
(*                                                                          *)
(* The x of an edge is a double to which the inverse slope, another double,  *)
(* is added row by row.  A double is here the number of units, 1 / Unit,    *)
(* that it is; it is rounded to a multiple of a quantum, the distance of    *)
(* doubles of its magnitude.  The difference of two coordinates is an       *)
(* int32_t.                                                                 *)
(****************************************************************************)
EXTENDS Integers, Sequences, FiniteSets, FiniteSetsExt, SequencesExt

CONSTANTS
  Calls,         \* the calls: what is drawn, and its vertices
  Unit,          \* so many units are one
  Quanta,        \* the distances of neighbouring doubles, in units
  Significands   \* 2^53: below so many quanta doubles lie a quantum apart

Points == [x : Int, y : Int]
Magnitude(n) == IF n < 0 THEN - n ELSE n

ASSUME RasterizerAssumption ==
  Calls \subseteq [what : {"line", "outline", "fill"}, vertices : Seq(Points)]

\* Unit is fine enough for all doubles that occur, and polygons are so small
\* that the errors of all their rows do not add up to the distance of a point
\* from an edge beside it.
ASSUME DoublesAssumption ==
  /\ Unit \in Nat \ {0} /\ Significands \in Nat
  /\ Quanta \subseteq Nat \ {0} /\ \A q \in Quanta : Unit % q = 0
  /\ \A c \in Calls : c.what = "fill" =>
       \E q \in Quanta : \A a, b \in Range(c.vertices) :
         /\ (Magnitude(a.x) + Magnitude(b.x) + 1) * Unit < Significands * q
         /\ (a.y - b.y) * (a.y - b.y) * q < Unit

VARIABLES
  call,                \* the call, which does not change
  at,                  \* where it is
  edge,                \* the edge that is drawn, by its first vertex
  x, y, err,           \* drawLine: x0, y0 and err
  buckets,             \* fillPolygon: bucketStorage, the edges by their row,
  row, active, left,   \*   y, activeEdges, and the next span's left edge among
  spans                \*   them; the spans given out

line == <<x, y, err>>
fill == <<buckets, row, active, left, spans>>
vars == <<call, at, edge, line, fill>>

\* Edge i goes from vertex i to the next one, from the last to the first.
From(i) == call.vertices[i]
To(i) == call.vertices[(i % Len(call.vertices)) + 1]

Dx(i) == Magnitude(To(i).x - From(i).x)
Dy(i) == Magnitude(To(i).y - From(i).y)

\* What a call needs: drawLine has both of its points.
MinVertices ==
  CASE call.what = "line" -> 2
    [] call.what = "outline" -> 2
    [] call.what = "fill" -> 3

Init ==
  /\ call \in Calls
  /\ at = IF Len(call.vertices) < MinVertices THEN "done"
          ELSE IF call.what = "fill" THEN "prepare" ELSE "start"
  /\ edge = 1
  /\ x = 0 /\ y = 0 /\ err = 0
  /\ buckets = {} /\ row = 0 /\ active = <<>> /\ left = 1 /\ spans = <<>>

------------------------------------------------------------------------------
(* drawLine and drawPolygon.                                                *)

StartLine ==
  /\ at = "start"
  /\ at' = "plot"
  /\ x' = From(edge).x /\ y' = From(edge).y
  /\ err' = Dx(edge) - Dy(edge)
  /\ UNCHANGED <<call, edge, fill>>

Arrived == x = To(edge).x /\ y = To(edge).y

Towards(from, to) == IF from < to THEN 1 ELSE -1

\* Mutant: the error is compared without being doubled.
AdvanceSingle ==
  LET stepX == err >= - Dy(edge)
      stepY == err <= Dx(edge)
  IN  /\ x' = IF stepX THEN x + Towards(From(edge).x, To(edge).x) ELSE x
      /\ y' = IF stepY THEN y + Towards(From(edge).y, To(edge).y) ELSE y
      /\ err' = err - (IF stepX THEN Dy(edge) ELSE 0)
                    + (IF stepY THEN Dx(edge) ELSE 0)

\* Both tests use the error from before either step.
Advance ==
  LET stepX == 2 * err >= - Dy(edge)
      stepY == 2 * err <= Dx(edge)
  IN  /\ x' = IF stepX THEN x + Towards(From(edge).x, To(edge).x) ELSE x
      /\ y' = IF stepY THEN y + Towards(From(edge).y, To(edge).y) ELSE y
      /\ err' = err - (IF stepX THEN Dy(edge) ELSE 0)
                    + (IF stepY THEN Dx(edge) ELSE 0)

\* The callback gets the point (x, y), the last one being the end of the line.
PlotPoint ==
  /\ at = "plot" /\ ~ Arrived
  /\ Advance
  /\ UNCHANGED <<call, at, edge, fill>>

PlotLastPoint ==
  /\ at = "plot" /\ Arrived
  /\ IF call.what = "outline" /\ edge < Len(call.vertices)
       THEN at' = "start" /\ edge' = edge + 1
       ELSE at' = "done" /\ UNCHANGED edge
  /\ UNCHANGED <<call, line, fill>>

------------------------------------------------------------------------------
(* fillPolygon.                                                             *)

Indices == 1 .. Len(call.vertices)
Rows == {call.vertices[i].y : i \in Indices}

\* The whole number nearest to a / d, the even one of two.
Nearest(a, d) ==
  LET below == a \div d
      rest == a % d
  IN  IF 2 * rest < d \/ (2 * rest = d /\ below % 2 = 0) THEN below ELSE below + 1

\* The double nearest to a / d units.
Rounded(a, d) ==
  LET quantum == Min({q \in Quanta : Magnitude(a) < Significands * q * d})
  IN  quantum * Nearest(a, quantum * d)

\* The edges that are not horizontal, downwards.
FillEdges ==
  LET Downwards(i) ==
        IF From(i).y < To(i).y THEN <<From(i), To(i)>> ELSE <<To(i), From(i)>>
      FillEdge(i) ==
        LET top == Downwards(i)[1]
            bottom == Downwards(i)[2]
        IN  [yMin |-> top.y, yMaxExclusive |-> bottom.y,
             x |-> top.x * Unit,
             slope |-> Rounded((bottom.x - top.x) * Unit, bottom.y - top.y),
             sortOrder |-> i]
  IN  {FillEdge(i) : i \in {j \in Indices : From(j).y # To(j).y}}

PrepareFill ==
  /\ at = "prepare"
  /\ at' = "row"
  /\ buckets' = FillEdges
  /\ row' = Min(Rows)
  /\ UNCHANGED <<call, edge, line, active, left, spans>>

\* No memory for the edges: nothing is drawn, and nobody is told.
AllocationFails ==
  /\ at = "prepare"
  /\ at' = "failed"
  /\ UNCHANGED <<call, edge, line, fill>>

\* The order of sortFillEdges: by x, then inverse slope, then sortOrder.
Less(e, f) ==
  \/ e.x < f.x
  \/ e.x = f.x /\ e.slope < f.slope
  \/ e.x = f.x /\ e.slope = f.slope /\ e.sortOrder < f.sortOrder

Ceiling(e) == - ((- e.x) \div Unit)

\* sortFillEdges: each edge at the place that the number of edges before it gives.
Sorted(edges) ==
  LET Before(e) == {f \in edges : Less(f, e)}
  IN  [k \in 1 .. Cardinality(edges) |->
         CHOOSE e \in edges : Cardinality(Before(e)) = k - 1]

\* Mutant: an edge still counts in the row of its lower end.
CrossedInclusive ==
  {e \in Range(active) \cup {f \in buckets : f.yMin = row} :
     row <= e.yMaxExclusive}

\* The edges that cross the row: those that begin in it join, those that end
\* in it leave.
Crossed ==
  {e \in Range(active) \cup {f \in buckets : f.yMin = row} :
     row < e.yMaxExclusive}

BeginRow ==
  /\ at = "row" /\ row <= Max(Rows)
  /\ at' = "spans"
  /\ active' = Sorted(Crossed)
  /\ left' = 1
  /\ UNCHANGED <<call, edge, line, buckets, row, spans>>

\* The span between two edges, given out unless it is empty.
NextSpan ==
  LET ends == {Ceiling(active[left]), Ceiling(active[left + 1])}
      span == [y |-> row, xStart |-> Min(ends), xEndExclusive |-> Max(ends)]
  IN  /\ at = "spans" /\ left < Len(active)
      /\ spans' = IF span.xStart < span.xEndExclusive THEN Append(spans, span)
                  ELSE spans
      /\ left' = left + 2
      /\ UNCHANGED <<call, at, edge, line, buckets, row, active>>

Advanced(e) == [e EXCEPT !.x = Rounded(@ + e.slope, 1)]

\* Mutant: a row without edges is not left.
LeaveRowContinue ==
  /\ at = "spans" /\ left >= Len(active)
  /\ at' = "row"
  /\ active' = [k \in DOMAIN active |-> Advanced(active[k])]
  /\ row' = IF Len(active) < 2 THEN row ELSE row + 1
  /\ UNCHANGED <<call, edge, line, buckets, left, spans>>

LeaveRow ==
  /\ at = "spans" /\ left >= Len(active)
  /\ at' = "row"
  /\ active' = [k \in DOMAIN active |-> Advanced(active[k])]
  /\ row' = row + 1
  /\ UNCHANGED <<call, edge, line, buckets, left, spans>>

FinishFill ==
  /\ at = "row" /\ row > Max(Rows)
  /\ at' = "done"
  /\ UNCHANGED <<call, edge, line, fill>>

------------------------------------------------------------------------------

Draw == StartLine \/ PlotPoint \/ PlotLastPoint
        \/ PrepareFill \/ AllocationFails
        \/ BeginRow \/ NextSpan \/ LeaveRow \/ FinishFill

Returned == at \in {"done", "failed"} /\ UNCHANGED vars

Next == Draw \/ Returned

Spec == Init /\ [][Next]_vars /\ WF_vars(Draw)

------------------------------------------------------------------------------
(* Properties.                                                              *)

\* Every point given out is within half a unit of the ideal line, measured
\* along the axis on which the line advances less, and between its ends: the
\* loop never runs past them (Rasterizer2D.cpp, lines 44-66).
Deviation ==
  Dx(edge) * Magnitude(y - From(edge).y) - Dy(edge) * Magnitude(x - From(edge).x)

LineIsNearest ==
  at = "plot" =>
    /\ 2 * Magnitude(Deviation) <= Max({Dx(edge), Dy(edge)})
    /\ Magnitude(x - From(edge).x) + Magnitude(x - To(edge).x) = Dx(edge)
    /\ Magnitude(y - From(edge).y) + Magnitude(y - To(edge).y) = Dy(edge)

\* Every call ends: each line meets its end exactly, and each row of a polygon
\* is left, also one with no edge in it (Rasterizer2D.cpp, lines 52-66 and 199).
CallEnds == <>(at \in {"done", "failed"})

\* Reference: the point (px, py) is inside when an odd number of edges cross
\* its row at or left of it, an edge counting from its upper end to just above
\* its lower one.
EdgesLeftOf(px, py) ==
  {i \in Indices :
     \/ /\ From(i).y <= py /\ py < To(i).y
        /\ (px - From(i).x) * (To(i).y - From(i).y)
             >= (py - From(i).y) * (To(i).x - From(i).x)
     \/ /\ To(i).y <= py /\ py < From(i).y
        /\ (px - To(i).x) * (From(i).y - To(i).y)
             >= (py - To(i).y) * (From(i).x - To(i).x)}
Inside(px, py) == Cardinality(EdgesLeftOf(px, py)) % 2 = 1

Columns == {call.vertices[i].x : i \in Indices}

SpansHolding(px, py) ==
  {k \in 1 .. Len(spans) : /\ spans[k].y = py
                           /\ spans[k].xStart <= px
                           /\ px < spans[k].xEndExclusive}

\* The slope of edge i is a double, and so is every x on it.
SlopeIsDouble(i) ==
  \A q \in Quanta : ((To(i).x - From(i).x) * Unit) % (Dy(i) * q) = 0

\* An edge whose slope is none, as a third, passes through the point below its
\* upper end: the x that the code has there may be right or left of the point.
InDoubt(px, py) ==
  \E i \in Indices :
    /\ py \in (From(i).y + 1 .. To(i).y - 1) \cup (To(i).y + 1 .. From(i).y - 1)
    /\ (px - From(i).x) * (To(i).y - From(i).y)
         = (py - From(i).y) * (To(i).x - From(i).x)
    /\ ~ SlopeIsDouble(i)

\* Although each row adds a rounding to the x of an edge, the spans of a filled
\* polygon, whatever its shape (concave, with crossing edges, with vertices that
\* meet), hold no point twice, and each point exactly when it is inside, but for
\* points in doubt; and they stay within its rows and columns (Rasterizer2D.cpp,
\* lines 8-37 and 181-244).
FillIsEvenOdd ==
  call.what = "fill" /\ at = "done" /\ Len(call.vertices) >= 3 =>
    /\ \A px \in Min(Columns) .. Max(Columns), py \in Min(Rows) .. Max(Rows) :
         /\ Cardinality(SpansHolding(px, py)) <= 1
         /\ InDoubt(px, py) \/ (SpansHolding(px, py) # {} <=> Inside(px, py))
    /\ \A k \in 1 .. Len(spans) :
         /\ spans[k].y \in Min(Rows) .. Max(Rows)
         /\ Min(Columns) <= spans[k].xStart
         /\ spans[k].xEndExclusive <= Max(Columns) + 1
==============================================================================
