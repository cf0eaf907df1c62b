--------------------------- MODULE Rasterizer2DProofs ---------------------------
(****************************************************************************)
(* Proofs about Rasterizer2D: the points of a line, for all lines, and the  *)
(* spans of a filled polygon, for all polygons.                             *)
(****************************************************************************)
EXTENDS Rasterizer2D, FiniteSetTheorems, WellFoundedInduction, TLAPS

------------------------------------------------------------------------------
(* Arithmetic.  A line has got a of dx and b of dy on its way; d is how far  *)
(* it deviates, as in Deviation.                                            *)

\* A product with a factor of at least one is not below the other factor.
LEMMA FactorAtLeastOne ==
  ASSUME NEW n \in Nat, NEW k \in Nat, k >= 1
  PROVE  n * k >= n
<1>1. PICK j \in Nat : k = j + 1
  OBVIOUS
<1>2. n * k = n * j + n
  BY <1>1
<1>3. n * j \in Nat
  OBVIOUS
<1> QED
  BY <1>2, <1>3

\* While a line that advances more in x is not at its end, each turn advances
\* in x, and in y only when there is way left in y.
LEMMA FlatLineAdvances ==
  ASSUME NEW dx \in Nat, NEW dy \in Nat, dy <= dx,
         NEW a \in 0..dx, NEW b \in 0..dy, NEW d \in Int,
         d = dx * b - dy * a, 2 * d <= dx, - dx <= 2 * d,
         ~ (a = dx /\ b = dy)
  PROVE  /\ 2 * (d + dx - dy) >= - dy
         /\ a < dx
         /\ 2 * (d + dx - dy) <= dx => b < dy
<1>1. 2 * (d + dx - dy) >= - dy
  OBVIOUS
<1>2. a < dx
  <2>1. SUFFICES ASSUME a = dx PROVE FALSE
    OBVIOUS
  <2>2. b < dy
    BY <2>1
  <2>3. d = - (dx * (dy - b))
    BY <2>1
  <2>4. dx * (dy - b) >= dx
    BY <2>2, FactorAtLeastOne, dy - b \in Nat, dy - b >= 1
  <2>5. dx * (dy - b) \in Int
    OBVIOUS
  <2>6. dx <= 0
    BY <2>3, <2>4, <2>5
  <2> QED
    BY <2>2, <2>6
<1>3. ASSUME 2 * (d + dx - dy) <= dx PROVE b < dy
  <2>1. SUFFICES ASSUME b = dy PROVE FALSE
    OBVIOUS
  <2>2. d = dy * (dx - a)
    BY <2>1
  <2>3. dy * (dx - a) >= dy
    BY <1>2, FactorAtLeastOne, dx - a \in Nat, dx - a >= 1
  <2>4. dy * (dx - a) \in Int
    OBVIOUS
  <2> QED
    BY <1>2, <1>3, <2>2, <2>3, <2>4
<1> QED
  BY <1>1, <1>2, <1>3

\* The same of a line that advances more in y.
LEMMA SteepLineAdvances ==
  ASSUME NEW dx \in Nat, NEW dy \in Nat, dx <= dy,
         NEW a \in 0..dx, NEW b \in 0..dy, NEW d \in Int,
         d = dx * b - dy * a, 2 * d <= dy, - dy <= 2 * d,
         ~ (a = dx /\ b = dy)
  PROVE  /\ 2 * (d + dx - dy) <= dx
         /\ b < dy
         /\ 2 * (d + dx - dy) >= - dy => a < dx
<1>1. 2 * (d + dx - dy) <= dx
  OBVIOUS
<1>2. b < dy
  <2>1. SUFFICES ASSUME b = dy PROVE FALSE
    OBVIOUS
  <2>2. a < dx
    BY <2>1
  <2>3. d = dy * (dx - a)
    BY <2>1
  <2>4. dy * (dx - a) >= dy
    BY <2>2, FactorAtLeastOne, dx - a \in Nat, dx - a >= 1
  <2>5. dy * (dx - a) \in Int
    OBVIOUS
  <2>6. dy <= 0
    BY <2>3, <2>4, <2>5
  <2> QED
    BY <2>2, <2>6
<1>3. ASSUME 2 * (d + dx - dy) >= - dy PROVE a < dx
  <2>1. SUFFICES ASSUME a = dx PROVE FALSE
    OBVIOUS
  <2>2. d = - (dx * (dy - b))
    BY <2>1
  <2>3. dx * (dy - b) >= dx
    BY <1>2, FactorAtLeastOne, dy - b \in Nat, dy - b >= 1
  <2>4. dx * (dy - b) \in Int
    OBVIOUS
  <2> QED
    BY <1>2, <1>3, <2>2, <2>3, <2>4
<1> QED
  BY <1>1, <1>2, <1>3

\* One turn: the line stays between its ends, and within half a unit.
LEMMA DeviationStaysSmall ==
  ASSUME NEW dx \in Nat, NEW dy \in Nat,
         NEW a \in 0..dx, NEW b \in 0..dy, NEW d \in Int,
         d = dx * b - dy * a,
         NEW m \in Nat, m = dx \/ m = dy, dx <= m, dy <= m,
         2 * d <= m, - m <= 2 * d,
         ~ (a = dx /\ b = dy),
         NEW u \in {0, 1}, u = 1 <=> 2 * (d + dx - dy) >= - dy,
         NEW v \in {0, 1}, v = 1 <=> 2 * (d + dx - dy) <= dx
  PROVE  /\ a + u \in 0..dx /\ b + v \in 0..dy
         /\ dx * (b + v) - dy * (a + u) = d + v * dx - u * dy
         /\ 2 * (d + v * dx - u * dy) <= m
         /\ - m <= 2 * (d + v * dx - u * dy)
<1>1. dx * (b + v) = dx * b + v * dx /\ dy * (a + u) = dy * a + u * dy
  <2>1. CASE u = 0
    BY <2>1, v = 0 \/ v = 1
  <2>2. CASE u = 1
    BY <2>2, v = 0 \/ v = 1
  <2> QED
    BY <2>1, <2>2
<1>2. dx * b \in Int /\ dy * a \in Int
  OBVIOUS
<1>3. dx * (b + v) - dy * (a + u) = d + v * dx - u * dy
  <2>1. v * dx \in Int /\ u * dy \in Int
    OBVIOUS
  <2> QED
    BY <1>1, <1>2, <2>1
<1>4. CASE dy <= dx
  <2>1. m = dx
    BY <1>4
  <2>2. u = 1 /\ a < dx /\ (v = 1 => b < dy)
    BY <1>4, <2>1, FlatLineAdvances
  <2>3. a + u \in 0..dx /\ b + v \in 0..dy
    BY <2>2
  <2>4. u * dy = dy
    BY <2>2
  <2>5. CASE v = 1
    BY <1>3, <1>4, <2>1, <2>3, <2>4, <2>5, v * dx = dx
  <2>6. CASE v = 0
    BY <1>3, <1>4, <2>1, <2>3, <2>4, <2>6, v * dx = 0
  <2> QED
    BY <2>5, <2>6
<1>5. CASE dx <= dy
  <2>1. m = dy
    BY <1>5
  <2>2. v = 1 /\ b < dy /\ (u = 1 => a < dx)
    BY <1>5, <2>1, SteepLineAdvances
  <2>3. a + u \in 0..dx /\ b + v \in 0..dy
    BY <2>2
  <2>4. v * dx = dx
    BY <2>2
  <2>5. CASE u = 1
    BY <1>3, <1>5, <2>1, <2>3, <2>4, <2>5, u * dy = dy
  <2>6. CASE u = 0
    BY <1>3, <1>5, <2>1, <2>3, <2>4, <2>6, u * dy = 0
  <2> QED
    BY <2>5, <2>6
<1> QED
  BY <1>4, <1>5

------------------------------------------------------------------------------
(* The invariant.  TLC checks its parts through LineIsNearest.              *)

LineTypeOK ==
  /\ call \in Calls
  /\ at \in {"start", "plot", "prepare", "row", "spans", "done", "failed"}
  /\ at \in {"start", "plot"} => edge \in 1 .. Len(call.vertices)

\* The line that is drawn has got a of its width and b of its height on its
\* way, and err tells how far that is off.
OnWay(a, b) ==
  LET d == Dx(edge) * b - Dy(edge) * a
  IN  /\ x = From(edge).x + Towards(From(edge).x, To(edge).x) * a
      /\ y = From(edge).y + Towards(From(edge).y, To(edge).y) * b
      /\ err = d + Dx(edge) - Dy(edge)
      /\ 2 * d <= Max({Dx(edge), Dy(edge)})
      /\ - Max({Dx(edge), Dy(edge)}) <= 2 * d

LineInv == at = "plot" => \E a \in 0 .. Dx(edge), b \in 0 .. Dy(edge) : OnWay(a, b)

\* The vertices of a call are points with integer coordinates.
LEMMA EndsArePoints ==
  ASSUME call \in Calls, NEW i \in 1 .. Len(call.vertices)
  PROVE  From(i) \in Points /\ To(i) \in Points
<1>1. call.vertices \in Seq(Points)
  BY RasterizerAssumption
<1>2. Len(call.vertices) \in Nat /\ Len(call.vertices) >= 1
  BY <1>1
<1>3. ASSUME NEW n \in Nat, n >= 1, NEW k \in Nat PROVE (k % n) + 1 \in 1 .. n
  BY <1>3
<1>4. (i % Len(call.vertices)) + 1 \in 1 .. Len(call.vertices)
  BY <1>2, <1>3, i \in Nat
<1> QED
  BY <1>1, <1>4 DEF From, To

\* Between two coordinates lie as many steps as their difference says.
LEMMA StepsBetween ==
  ASSUME NEW p \in Int, NEW q \in Int, NEW a \in 0 .. Magnitude(q - p)
  PROVE  LET r == p + Towards(p, q) * a
         IN  /\ r \in Int
             /\ Magnitude(r - p) = a
             /\ Magnitude(r - q) = Magnitude(q - p) - a
             /\ r = q <=> a = Magnitude(q - p)
<1>1. CASE p < q
  <2>1. Magnitude(q - p) = q - p /\ Towards(p, q) = 1
    BY <1>1 DEF Magnitude, Towards
  <2> QED
    BY <2>1 DEF Magnitude
<1>2. CASE p >= q
  <2>1. Magnitude(q - p) = p - q /\ Towards(p, q) = -1
    BY <1>2 DEF Magnitude, Towards
  <2> QED
    BY <2>1 DEF Magnitude
<1> QED
  BY <1>1, <1>2

\* They end there when they are that many.
Reaches(p, q, a) == p + Towards(p, q) * a = q <=> a = Magnitude(q - p)

\* That is so for any two numbers.
LEMMA StepsReach ==
  ASSUME NEW p \in Int, NEW q \in Int, NEW a \in 0 .. Magnitude(q - p)
  PROVE  Reaches(p, q, a)
BY StepsBetween DEF Reaches

\* The larger of two numbers.
LEMMA MaxOfTwo ==
  ASSUME NEW m \in Nat, NEW n \in Nat
  PROVE  LET larger == Max({m, n})
         IN  /\ larger \in Nat
             /\ larger = m \/ larger = n
             /\ m <= larger /\ n <= larger
<1>1. \E k \in {m, n} : \A j \in {m, n} : k >= j
  BY m >= n \/ n >= m
<1>2. Max({m, n}) \in {m, n} /\ \A j \in {m, n} : Max({m, n}) >= j
  BY <1>1 DEF Max
<1> QED
  BY <1>2

\* What is needed of a line's way to draw conclusions from it.
LEMMA WayIsSmall ==
  ASSUME LineTypeOK, at = "plot"
  PROVE  /\ From(edge) \in Points /\ To(edge) \in Points
         /\ Dx(edge) \in Nat /\ Dy(edge) \in Nat
<1>1. From(edge) \in Points /\ To(edge) \in Points
  BY EndsArePoints DEF LineTypeOK
<1> QED
  BY <1>1 DEF Dx, Dy, Magnitude, Points

\* The invariant says what LineIsNearest says.
LEMMA WayImpliesNearest == LineTypeOK /\ LineInv => LineIsNearest
<1> SUFFICES ASSUME LineTypeOK, LineInv, at = "plot"
             PROVE  /\ 2 * Magnitude(Deviation) <= Max({Dx(edge), Dy(edge)})
                    /\ Magnitude(x - From(edge).x) + Magnitude(x - To(edge).x) = Dx(edge)
                    /\ Magnitude(y - From(edge).y) + Magnitude(y - To(edge).y) = Dy(edge)
  BY DEF LineIsNearest
<1> DEFINE f == From(edge)
           t == To(edge)
<1>1. /\ f.x \in Int /\ f.y \in Int /\ t.x \in Int /\ t.y \in Int
      /\ Dx(edge) \in Nat /\ Dy(edge) \in Nat
  BY WayIsSmall DEF Points
<1>2. PICK a \in 0 .. Dx(edge), b \in 0 .. Dy(edge) : OnWay(a, b)
  BY DEF LineInv
<1>3. Magnitude(x - f.x) = a /\ Magnitude(x - t.x) = Dx(edge) - a
  BY <1>1, <1>2, StepsBetween DEF OnWay, Dx
<1>4. Magnitude(y - f.y) = b /\ Magnitude(y - t.y) = Dy(edge) - b
  BY <1>1, <1>2, StepsBetween DEF OnWay, Dy
<1>5. Deviation = Dx(edge) * b - Dy(edge) * a
  BY <1>3, <1>4 DEF Deviation
<1>6. Dx(edge) * b - Dy(edge) * a \in Int /\ Max({Dx(edge), Dy(edge)}) \in Nat
  BY <1>1, MaxOfTwo
<1>7. 2 * Magnitude(Deviation) <= Max({Dx(edge), Dy(edge)})
  BY <1>2, <1>5, <1>6 DEF OnWay, Magnitude
<1> QED
  BY <1>1, <1>3, <1>4, <1>7

\* A line starts at its beginning.
LEMMA StartIsOnWay ==
  ASSUME LineTypeOK, StartLine PROVE LineTypeOK' /\ LineInv'
<1>1. LineTypeOK' /\ at' = "plot" /\ UNCHANGED <<call, edge>>
  BY DEF LineTypeOK, StartLine
<1>2. From(edge)' = From(edge) /\ To(edge)' = To(edge)
      /\ Dx(edge)' = Dx(edge) /\ Dy(edge)' = Dy(edge)
  BY <1>1 DEF From, To, Dx, Dy
<1>3. From(edge) \in Points /\ To(edge) \in Points
  BY EndsArePoints DEF LineTypeOK, StartLine
<1>4. Dx(edge) \in Nat /\ Dy(edge) \in Nat
  BY <1>3 DEF Dx, Dy, Magnitude, Points
<1>5. Max({Dx(edge), Dy(edge)}) \in Nat
  BY <1>4, MaxOfTwo
<1>6. /\ Towards(From(edge).x, To(edge).x) \in Int
      /\ Towards(From(edge).y, To(edge).y) \in Int
  BY DEF Towards
<1>7. /\ x' = From(edge).x + Towards(From(edge).x, To(edge).x) * 0
      /\ y' = From(edge).y + Towards(From(edge).y, To(edge).y) * 0
  BY <1>3, <1>6 DEF StartLine, Points
<1>8. err' = (Dx(edge) * 0 - Dy(edge) * 0) + Dx(edge) - Dy(edge)
  BY <1>4 DEF StartLine
<1>9. /\ 2 * (Dx(edge) * 0 - Dy(edge) * 0) <= Max({Dx(edge), Dy(edge)})
      /\ - Max({Dx(edge), Dy(edge)}) <= 2 * (Dx(edge) * 0 - Dy(edge) * 0)
  BY <1>4, <1>5
<1>10. OnWay(0, 0)'
  BY <1>2, <1>7, <1>8, <1>9 DEF OnWay
<1>11. 0 \in 0 .. Dx(edge)' /\ 0 \in 0 .. Dy(edge)'
  BY <1>2, <1>4
<1> QED
  BY <1>1, <1>10, <1>11 DEF LineInv

\* A line goes on its way.
LEMMA PlotStaysOnWay ==
  ASSUME LineTypeOK, LineInv, PlotPoint PROVE LineTypeOK' /\ LineInv'
<1>1. LineTypeOK' /\ at = "plot" /\ UNCHANGED <<call, edge>>
  BY DEF LineTypeOK, PlotPoint
<1>2. From(edge)' = From(edge) /\ To(edge)' = To(edge)
      /\ Dx(edge)' = Dx(edge) /\ Dy(edge)' = Dy(edge)
  BY <1>1 DEF From, To, Dx, Dy
<1> DEFINE f == From(edge)
           t == To(edge)
           dx == Dx(edge)
           dy == Dy(edge)
           m == Max({dx, dy})
           sx == Towards(f.x, t.x)
           sy == Towards(f.y, t.y)
<1>3. /\ f.x \in Int /\ f.y \in Int /\ t.x \in Int /\ t.y \in Int
      /\ dx \in Nat /\ dy \in Nat
  BY <1>1, WayIsSmall DEF Points
<1>4. m \in Nat /\ (m = dx \/ m = dy) /\ dx <= m /\ dy <= m
  BY <1>3, MaxOfTwo
<1>5. sx \in Int /\ sy \in Int
  BY DEF Towards
<1>6. PICK a \in 0 .. dx, b \in 0 .. dy : OnWay(a, b)
  BY <1>1 DEF LineInv
<1> DEFINE d == dx * b - dy * a
<1>7. /\ x = f.x + sx * a /\ y = f.y + sy * b
      /\ err = d + dx - dy /\ 2 * d <= m /\ - m <= 2 * d
  BY <1>6 DEF OnWay
<1>8. d \in Int
  BY <1>3
<1>9. ~ (a = dx /\ b = dy)
  <2>1. a \in 0 .. Magnitude(t.x - f.x) /\ b \in 0 .. Magnitude(t.y - f.y)
    BY DEF Dx, Dy
  <2>2. Reaches(f.x, t.x, a) /\ Reaches(f.y, t.y, b)
    BY <1>3, <2>1, StepsReach
  <2>3. /\ f.x + sx * a = t.x <=> a = Magnitude(t.x - f.x)
        /\ f.y + sy * b = t.y <=> b = Magnitude(t.y - f.y)
    BY <2>2 DEF Reaches
  <2>4. dx = Magnitude(t.x - f.x) /\ dy = Magnitude(t.y - f.y)
    BY DEF Dx, Dy
  <2>5. ~ (x = t.x /\ y = t.y)
    BY DEF PlotPoint, Arrived
  <2> HIDE DEF f, t, dx, dy, sx, sy
  <2> QED
    BY <1>7, <2>3, <2>4, <2>5
<1>10. PICK u \in {0, 1}, v \in {0, 1} :
          /\ u = 1 <=> 2 * (d + dx - dy) >= - dy
          /\ v = 1 <=> 2 * (d + dx - dy) <= dx
  <2>1. \A P \in BOOLEAN : \E w \in {0, 1} : w = 1 <=> P
    <3>1. TAKE P \in BOOLEAN
    <3>2. CASE P
      <4>1. WITNESS 1 \in {0, 1}
      <4> QED
        BY <3>2
    <3>3. CASE ~ P
      <4>1. WITNESS 0 \in {0, 1}
      <4> QED
        BY <3>3
    <3> QED
      BY <3>2, <3>3
  <2> HIDE DEF d, dx, dy
  <2> QED
    BY <2>1
<1>11. /\ x' = x + sx * u /\ y' = y + sy * v
       /\ err' = err - u * dy + v * dx
  BY <1>3, <1>5, <1>7, <1>8, <1>10 DEF PlotPoint, Advance
<1> DEFINE e == dx * (b + v) - dy * (a + u)
<1> HIDE DEF f, t, dx, dy, m, sx, sy, d
<1>12. /\ a + u \in 0 .. dx /\ b + v \in 0 .. dy
       /\ e = d + v * dx - u * dy
       /\ 2 * (d + v * dx - u * dy) <= m
       /\ - m <= 2 * (d + v * dx - u * dy)
  <2>1. d = dx * b - dy * a
    BY DEF d
  <2> QED
    BY <1>3, <1>4, <1>7, <1>8, <1>9, <1>10, <2>1, DeviationStaysSmall
<1>13. e \in Int /\ v * dx \in Int /\ u * dy \in Int
  BY <1>3, <1>10
<1>14. /\ x' = f.x + sx * (a + u)
       /\ y' = f.y + sy * (b + v)
  <2>1. sx * (a + u) = sx * a + sx * u /\ sy * (b + v) = sy * b + sy * v
    BY <1>5, <1>10
  <2>2. sx * a \in Int /\ sx * u \in Int /\ sy * b \in Int /\ sy * v \in Int
    BY <1>5, <1>10
  <2> QED
    BY <1>3, <1>7, <1>11, <2>1, <2>2
<1>15. err' = e + dx - dy /\ 2 * e <= m /\ - m <= 2 * e
  BY <1>3, <1>7, <1>8, <1>11, <1>12, <1>13
<1>16. OnWay(a + u, b + v)'
  BY <1>2, <1>14, <1>15 DEF OnWay, f, t, dx, dy, m, sx, sy
<1>17. a + u \in 0 .. Dx(edge)' /\ b + v \in 0 .. Dy(edge)'
  BY <1>2, <1>12 DEF dx, dy
<1> QED
  BY <1>1, <1>16, <1>17 DEF LineInv

\* The remaining steps draw nothing.
LEMMA OthersDrawNothing ==
  ASSUME LineTypeOK, LineInv,
         \/ PlotLastPoint \/ PrepareFill \/ AllocationFails
         \/ BeginRow \/ NextSpan \/ LeaveRow \/ FinishFill
         \/ UNCHANGED vars
  PROVE  LineTypeOK' /\ LineInv'
<1>1. CASE PlotLastPoint
  <2>1. (at' = "start" /\ edge' = edge + 1) \/ at' = "done"
    BY <1>1 DEF PlotLastPoint
  <2>2. call.vertices \in Seq(Points)
    BY RasterizerAssumption DEF LineTypeOK
  <2> QED
    BY <1>1, <2>1, <2>2 DEF PlotLastPoint, LineTypeOK, LineInv
<1>2. CASE PrepareFill \/ AllocationFails \/ BeginRow \/ NextSpan \/ LeaveRow \/ FinishFill
  <2>1. /\ at' \in {"row", "spans", "failed", "done"}
        /\ UNCHANGED <<call, edge>>
    BY <1>2 DEF PrepareFill, AllocationFails, BeginRow, NextSpan, LeaveRow, FinishFill
  <2> QED
    BY <2>1 DEF LineTypeOK, LineInv
<1>3. CASE UNCHANGED vars
  <2>1. UNCHANGED <<call, at, edge, x, y, err>>
    BY <1>3 DEF vars, line
  <2>2. LineTypeOK'
    BY <2>1 DEF LineTypeOK
  <2>3. /\ From(edge)' = From(edge) /\ To(edge)' = To(edge)
        /\ Dx(edge)' = Dx(edge) /\ Dy(edge)' = Dy(edge)
    BY <2>1 DEF From, To, Dx, Dy
  <2>4. \A a, b : OnWay(a, b)' = OnWay(a, b)
    BY <2>1, <2>3 DEF OnWay
  <2>5. LineInv'
    BY <2>1, <2>3, <2>4 DEF LineInv
  <2> QED
    BY <2>2, <2>5
<1> QED
  BY <1>1, <1>2, <1>3

\* Every point of every line and outline is within half a unit of the ideal
\* line and between its ends, wherever these are (LineIsNearest).
THEOREM LinesAreNearest == Spec => []LineIsNearest
<1>1. Init => LineTypeOK /\ LineInv
  <2> SUFFICES ASSUME Init PROVE LineTypeOK /\ LineInv
    OBVIOUS
  <2>1. call.vertices \in Seq(Points)
    BY RasterizerAssumption DEF Init
  <2>2. MinVertices \in {2, 3}
    BY RasterizerAssumption DEF Init, MinVertices
  <2> QED
    BY <2>1, <2>2 DEF Init, LineTypeOK, LineInv
<1>2. LineTypeOK /\ LineInv /\ [Next]_vars => LineTypeOK' /\ LineInv'
  BY StartIsOnWay, PlotStaysOnWay, OthersDrawNothing DEF Next, Draw, Returned
<1> QED
  BY <1>1, <1>2, WayImpliesNearest, PTL DEF Spec

------------------------------------------------------------------------------
(* Doubles.                                                                 *)

\* The nearest whole number is at most a half away, and a whole number itself.
LEMMA NearestIsNear ==
  ASSUME NEW a \in Int, NEW d \in Nat \ {0}
  PROVE  /\ Nearest(a, d) \in Int
         /\ 2 * (Nearest(a, d) * d - a) <= d /\ 2 * (a - Nearest(a, d) * d) <= d
<1> DEFINE below == a \div d
           rest == a % d
<1>1. below \in Int /\ rest \in Int /\ 0 <= rest /\ rest < d /\ a = d * below + rest
  OBVIOUS
<1>2. /\ Nearest(a, d) \in {below, below + 1}
      /\ Nearest(a, d) = below => 2 * rest <= d
      /\ Nearest(a, d) = below + 1 => 2 * rest >= d
  <2>1. \/ Nearest(a, d) = below /\ 2 * rest <= d
        \/ Nearest(a, d) = below + 1 /\ 2 * rest >= d
    BY <1>1 DEF Nearest
  <2> HIDE DEF below, rest
  <2> QED
    BY <1>1, <2>1
<1> HIDE DEF below, rest
<1>3. below * d = d * below /\ (below + 1) * d = d * below + d /\ d * below \in Int
  BY <1>1
<1>4. CASE Nearest(a, d) = below
  BY <1>1, <1>2, <1>3, <1>4
<1>5. CASE Nearest(a, d) = below + 1
  BY <1>1, <1>2, <1>3, <1>5
<1> QED
  BY <1>2, <1>4, <1>5

LEMMA NearestOfMultiple ==
  ASSUME NEW k \in Int, NEW d \in Nat \ {0}
  PROVE  Nearest(k * d, d) = k
<1> DEFINE a == k * d
           n == Nearest(a, d)
<1>1. a \in Int
  OBVIOUS
<1>2. n \in Int /\ 2 * (n * d - a) <= d /\ 2 * (a - n * d) <= d
  BY <1>1, NearestIsNear
<1> HIDE DEF n
<1>3. n * d - a = (n - k) * d /\ a - n * d = (k - n) * d
  BY <1>2
<1>4. CASE n = k
  BY <1>4 DEF n
<1>5. CASE n >= k + 1
  <2>1. (n - k) * d >= d
    BY <1>2, <1>5
  <2> QED
    BY <1>2, <1>3, <2>1
<1>6. CASE n <= k - 1
  <2>1. (k - n) * d >= d
    BY <1>2, <1>6
  <2> QED
    BY <1>2, <1>3, <2>1
<1> QED
  BY <1>2, <1>4, <1>5, <1>6

\* The quantum of a number is no larger than any that suffices for it.
LEMMA QuantumIsLeast ==
  ASSUME NEW S \in SUBSET (Nat \ {0}), NEW q \in S
  PROVE  Min(S) \in S /\ Min(S) <= q
<1>1. \E m \in S : \A j \in S : ~ (<<j, m>> \in OpToRel(<, Nat))
  BY NatLessThanWellFounded, WFMin
<1>2. PICK m \in S : \A j \in S : ~ (<<j, m>> \in OpToRel(<, Nat))
  BY <1>1
<1>3. ASSUME NEW j \in S, j < m PROVE FALSE
  <2>1. <<j, m>> \in OpToRel(<, Nat)
    BY <1>3 DEF OpToRel
  <2> QED
    BY <1>2, <2>1
<1>4. \A j \in S : m <= j
  BY <1>3
<1> QED
  BY <1>4 DEF Min

\* A number that needs no larger quantum than q is rounded by half of q at most.
LEMMA RoundedIsNear ==
  ASSUME NEW a \in Int, NEW d \in Nat \ {0}, NEW q \in Quanta,
         Magnitude(a) < Significands * q * d
  PROVE  /\ Rounded(a, d) \in Int
         /\ 2 * (Rounded(a, d) * d - a) <= q * d
         /\ 2 * (a - Rounded(a, d) * d) <= q * d
<1> DEFINE S == {p \in Quanta : Magnitude(a) < Significands * p * d}
           m == Min(S)
           n == Nearest(a, m * d)
<1>1. S \in SUBSET (Nat \ {0}) /\ q \in S
  BY DoublesAssumption
<1>2. m \in Nat \ {0} /\ m <= q
  <2> HIDE DEF S
  <2> QED
    BY <1>1, QuantumIsLeast
<1>3. Rounded(a, d) = m * n
  BY DEF Rounded
<1> HIDE DEF S, m
<1>4. m * d \in Nat \ {0} /\ m * d <= q * d
  BY <1>1, <1>2
<1>5. /\ n \in Int /\ 2 * (n * (m * d) - a) <= m * d
      /\ 2 * (a - n * (m * d)) <= m * d
  BY <1>4, NearestIsNear
<1> HIDE DEF n
<1>6. n * (m * d) = (m * n) * d /\ (m * n) * d \in Int /\ m * n \in Int /\ q * d \in Int
  BY <1>1, <1>2, <1>5
<1> QED
  BY <1>3, <1>4, <1>5, <1>6

\* a / d is a multiple of every quantum: a double that is not rounded.
IsDouble(a, d) == \A q \in Quanta : \E k \in Int : a = k * (q * d)

LEMMA DoublesStay ==
  ASSUME NEW a \in Int, NEW d \in Nat \ {0}, NEW q \in Quanta,
         Magnitude(a) < Significands * q * d, IsDouble(a, d)
  PROVE  /\ Rounded(a, d) \in Int /\ Rounded(a, d) * d = a
         /\ IsDouble(Rounded(a, d), 1)
<1> DEFINE S == {p \in Quanta : Magnitude(a) < Significands * p * d}
           m == Min(S)
           n == Nearest(a, m * d)
<1>1. S \in SUBSET (Nat \ {0}) /\ q \in S /\ S \in SUBSET Quanta
  BY DoublesAssumption
<1>2. m \in Nat \ {0} /\ m \in Quanta
  <2> HIDE DEF S
  <2> QED
    BY <1>1, QuantumIsLeast
<1>3. Rounded(a, d) = m * n
  BY DEF Rounded
<1> HIDE DEF S, m
<1>4. PICK k \in Int : a = k * (m * d)
  BY <1>2 DEF IsDouble
<1>5. n = k
  <2>1. m * d \in Nat \ {0}
    BY <1>2
  <2> QED
    BY <1>4, <2>1, NearestOfMultiple
<1> HIDE DEF n
<1>6. Rounded(a, d) \in Int /\ Rounded(a, d) * d = a
  <2>1. (m * k) * d = k * (m * d) /\ m * k \in Int
    BY <1>2
  <2> QED
    BY <1>3, <1>4, <1>5, <2>1
<1>7. ASSUME NEW p \in Quanta PROVE \E j \in Int : Rounded(a, d) = j * (p * 1)
  <2>1. PICK j \in Int : a = j * (p * d)
    BY DEF IsDouble
  <2>2. p \in Nat
    BY DoublesAssumption
  <2> DEFINE r == Rounded(a, d)
             c == j * p
  <2>3. r \in Int /\ c \in Int /\ c = j * (p * 1)
    BY <1>6, <2>2
  <2>4. r * d = c * d
    <3>1. j * (p * d) = c * d
      BY <2>2
    <3> QED
      BY <1>6, <2>1, <3>1
  <2> HIDE DEF r, c
  <2>5. r = c
    BY <2>3, <2>4
  <2> QED
    BY <2>3, <2>5 DEF r
<1> QED
  BY <1>6, <1>7 DEF IsDouble

\* The sum of doubles.
LEMMA SumIsDouble ==
  ASSUME NEW a \in Int, NEW b \in Int, IsDouble(a, 1), IsDouble(b, 1)
  PROVE  IsDouble(a + b, 1)
<1>1. ASSUME NEW q \in Quanta PROVE \E k \in Int : a + b = k * (q * 1)
  <2>1. PICK i \in Int : a = i * (q * 1)
    BY DEF IsDouble
  <2>2. PICK j \in Int : b = j * (q * 1)
    BY DEF IsDouble
  <2>3. q \in Nat
    BY DoublesAssumption
  <2>4. i + j \in Int /\ a + b = (i + j) * (q * 1)
    BY <2>1, <2>2, <2>3
  <2> QED
    BY <2>4
<1> QED
  BY <1>1 DEF IsDouble

\* A whole number is a double.
LEMMA WholeIsDouble ==
  ASSUME NEW x0 \in Int PROVE IsDouble(x0 * Unit, 1)
<1>1. ASSUME NEW q \in Quanta PROVE \E k \in Int : x0 * Unit = k * (q * 1)
  <2>1. q \in Nat \ {0} /\ Unit \in Nat /\ Unit % q = 0
    BY DoublesAssumption
  <2> DEFINE u == Unit
             c == u \div q
  <2>2. c \in Int /\ u = q * c
    <3> HIDE DEF u
    <3>1. u \in Nat /\ u % q = 0
      BY <2>1 DEF u
    <3> QED
      BY <2>1, <3>1
  <2> HIDE DEF c, u
  <2>3. x0 * c \in Int /\ x0 * u = (x0 * c) * (q * 1)
    BY <2>1, <2>2
  <2> QED
    BY <2>3 DEF u
<1> QED
  BY <1>1 DEF IsDouble

------------------------------------------------------------------------------
(* One row further along an edge from (ux, ..) to (lx, ..), dy rows below.   *)

\* The x of an edge has an error of no more than a quantum for each row.
LEMMA RowAddsQuantum ==
  ASSUME NEW ux \in Int, NEW lx \in Int, NEW dy \in Nat \ {0},
         NEW unit \in Nat \ {0}, NEW q \in Nat \ {0}, NEW room \in Int,
         NEW width \in Nat, - width <= ux, ux <= width, - width <= lx, lx <= width,
         (width + 1) * unit < room, dy * dy * q < unit,
         NEW s \in Int, 2 * (s * dy - (lx - ux) * unit) <= q * dy,
         2 * ((lx - ux) * unit - s * dy) <= q * dy,
         NEW n \in 0 .. dy - 1, NEW v \in Int,
         v * dy - (ux * dy + n * (lx - ux)) * unit <= n * (q * dy),
         (ux * dy + n * (lx - ux)) * unit - v * dy <= n * (q * dy)
  PROVE  /\ Magnitude(v + s) < room
         /\ \A w \in Int :
              2 * (w - (v + s)) <= q /\ 2 * ((v + s) - w) <= q =>
                /\ w * dy - (ux * dy + (n + 1) * (lx - ux)) * unit <= (n + 1) * (q * dy)
                /\ (ux * dy + (n + 1) * (lx - ux)) * unit - w * dy <= (n + 1) * (q * dy)
<1> DEFINE dx == lx - ux
           e == ux * dy + n * dx
           f == ux * dy + (n + 1) * dx
           E == e * unit
           F == f * unit
           D == dx * unit
           b == q * dy
           V == v * dy
           Z == s * dy
           nb == n * b
<1>1. /\ dx \in Int /\ e \in Int /\ f \in Int /\ E \in Int /\ F \in Int
      /\ D \in Int /\ b \in Nat /\ V \in Int /\ Z \in Int /\ nb \in Int /\ n \in Nat
  OBVIOUS
<1>2. f = e + dx
  <2>1. (n + 1) * dx = n * dx + dx /\ n * dx \in Int /\ ux * dy \in Int
    BY <1>1
  <2> QED
    BY <2>1
<1>3. F = E + D
  BY <1>1, <1>2
<1>4. (n + 1) * b = nb + b
  BY <1>1
<1>5. /\ V - E <= nb /\ E - V <= nb /\ 2 * (Z - D) <= b /\ 2 * (D - Z) <= b
  OBVIOUS
<1>6. (v + s) * dy = V + Z
  OBVIOUS
<1>7. Magnitude(v + s) < room
  <2> DEFINE g == v + s
             G == g * dy
             h == width * dy
  <2>1. f = ux * (dy - (n + 1)) + lx * (n + 1)
    <3>1. /\ ux * (dy - (n + 1)) = ux * dy - ux * (n + 1)
          /\ (n + 1) * (lx - ux) = lx * (n + 1) - ux * (n + 1)
      BY <1>1
    <3>2. ux * dy \in Int /\ ux * (n + 1) \in Int /\ lx * (n + 1) \in Int
      BY <1>1
    <3> QED
      BY <3>1, <3>2
  <2>2. - h <= f /\ f <= h
    <3>1. \A k, a, c : k \in Nat /\ a \in Int /\ c \in Int /\ a <= c => a * k <= c * k
      OBVIOUS
    <3>2. dy - (n + 1) \in Nat /\ n + 1 \in Nat /\ - width \in Int
      BY <1>1
    <3>3. /\ ux * (dy - (n + 1)) <= width * (dy - (n + 1))
          /\ lx * (n + 1) <= width * (n + 1)
          /\ (- width) * (dy - (n + 1)) <= ux * (dy - (n + 1))
          /\ (- width) * (n + 1) <= lx * (n + 1)
      BY <3>1, <3>2
    <3>4. /\ h = width * (dy - (n + 1)) + width * (n + 1)
          /\ - h = (- width) * (dy - (n + 1)) + (- width) * (n + 1)
      BY <3>2
    <3>5. /\ ux * (dy - (n + 1)) \in Int /\ lx * (n + 1) \in Int
          /\ width * (dy - (n + 1)) \in Int /\ width * (n + 1) \in Int
          /\ (- width) * (dy - (n + 1)) \in Int /\ (- width) * (n + 1) \in Int
          /\ h \in Int
      BY <3>2
    <3> HIDE DEF f, h
    <3> QED
      BY <2>1, <3>3, <3>4, <3>5
  <2>3. h * unit \in Int /\ - (h * unit) <= F /\ F <= h * unit
    <3>1. h \in Int /\ - h \in Int /\ (- h) * unit = - (h * unit)
      OBVIOUS
    <3> HIDE DEF f, h
    <3> QED
      BY <1>1, <2>2, <3>1
  <2>4. nb + b <= dy * b /\ dy * b < unit
    <3>1. (n + 1) * b <= dy * b
      BY <1>1
    <3>2. dy * b = dy * dy * q
      OBVIOUS
    <3> QED
      BY <1>4, <3>1, <3>2
  <2>5. G = V + Z /\ G \in Int /\ g \in Int
    BY <1>6
  <2>6. G < h * unit + unit /\ - G < h * unit + unit
    <3>1. dy * b \in Int
      BY <1>1
    <3> HIDE DEF E, F, D, V, Z, b, nb, G, h
    <3> QED
      BY <1>1, <1>3, <1>5, <2>3, <2>4, <2>5, <3>1
  <2>7. h * unit + unit <= room * dy
    <3>1. h * unit = (width * unit) * dy /\ (width * unit) * dy \in Int /\ width * unit \in Int
      OBVIOUS
    <3>2. (width + 1) * unit = width * unit + unit
      OBVIOUS
    <3>3. (width * unit + unit) * dy <= room * dy
      BY <3>1, <3>2
    <3>4. (width * unit + unit) * dy = (width * unit) * dy + unit * dy
      BY <3>1
    <3>5. unit <= unit * dy /\ unit * dy \in Int /\ room * dy \in Int
      OBVIOUS
    <3> QED
      BY <3>1, <3>3, <3>4, <3>5
  <2> DEFINE R == room * dy
             H == h * unit
  <2>8. G < R /\ - G < R
    <3>1. R \in Int /\ H \in Int
      BY <2>3
    <3> HIDE DEF R, G, H
    <3> QED
      BY <2>5, <2>6, <2>7, <3>1 DEF H, R
  <2>9. g < room
    <3>1. SUFFICES ASSUME room <= g PROVE FALSE
      BY <2>5
    <3>2. room * dy <= g * dy
      BY <2>5, <3>1
    <3> QED
      BY <2>5, <2>8, <3>2
  <2>10. - g < room
    <3>1. SUFFICES ASSUME room <= - g PROVE FALSE
      BY <2>5
    <3>2. room * dy <= (- g) * dy /\ (- g) * dy = - (g * dy)
      BY <2>5, <3>1
    <3> QED
      BY <2>5, <2>8, <3>2
  <2> QED
    BY <2>5, <2>9, <2>10 DEF Magnitude
<1>8. ASSUME NEW w \in Int, 2 * (w - (v + s)) <= q, 2 * ((v + s) - w) <= q
      PROVE  w * dy - F <= nb + b /\ F - w * dy <= nb + b
  <2> DEFINE W == w * dy
  <2>1. W \in Int
    OBVIOUS
  <2>2. 2 * (W - (V + Z)) <= b /\ 2 * ((V + Z) - W) <= b
    <3>1. /\ (2 * (w - (v + s))) * dy <= q * dy
          /\ (2 * ((v + s) - w)) * dy <= q * dy
      BY <1>8
    <3>2. /\ (2 * (w - (v + s))) * dy = 2 * (W - (v + s) * dy)
          /\ (2 * ((v + s) - w)) * dy = 2 * ((v + s) * dy - W)
      OBVIOUS
    <3> QED
      BY <1>6, <3>1, <3>2
  <2> HIDE DEF E, F, D, V, Z, b, nb, W
  <2>3. W - F <= nb + b /\ F - W <= nb + b
    BY <1>1, <1>3, <1>5, <2>1, <2>2
  <2> QED
    BY <2>3 DEF W
<1> QED
  BY <1>4, <1>7, <1>8

------------------------------------------------------------------------------
(* Edges and their order.                                                   *)

EdgeRecords == [yMin : Int, yMaxExclusive : Int, x : Int, slope : Int,
                sortOrder : Int]

\* A rounded x is the least whole number that is not below it.
LEMMA CeilingIsLeast ==
  ASSUME NEW n \in Int, NEW d \in Nat \ {0}, NEW p \in Int
  PROVE  /\ - ((- n) \div d) \in Int
         /\ - ((- n) \div d) <= p <=> n <= p * d
OBVIOUS

\* The same of an edge.
LEMMA CeilingOfEdge ==
  ASSUME NEW e, e.x \in Int, NEW p \in Int
  PROVE  Ceiling(e) \in Int /\ (Ceiling(e) <= p <=> e.x <= p * Unit)
<1> Unit \in Nat \ {0}
  BY DoublesAssumption
<1> QED
  BY CeilingIsLeast DEF Ceiling

\* Less puts edges of different sortOrder in a strict order, along which their
\* x never decreases.
LEMMA LessIsOrder ==
  ASSUME NEW e \in EdgeRecords, NEW f \in EdgeRecords, NEW g \in EdgeRecords
  PROVE  /\ ~ Less(e, e)
         /\ Less(e, f) /\ Less(f, g) => Less(e, g)
         /\ e.sortOrder # f.sortOrder => Less(e, f) \/ Less(f, e)
         /\ Less(e, f) => e.x <= f.x
BY DEF EdgeRecords, Less

\* s holds the members of S, each once, along Less.
InOrder(s, S) ==
  /\ s \in [1 .. Cardinality(S) -> S]
  /\ \A e \in S : \E k \in 1 .. Cardinality(S) : s[k] = e
  /\ \A k, l \in 1 .. Cardinality(S) : k < l => s[k] # s[l] /\ Less(s[k], s[l])

\* The number of edges before it tells each edge its place.
LEMMA SortedIsInOrder ==
  ASSUME NEW S \in SUBSET EdgeRecords, IsFiniteSet(S),
         \A e, f \in S : e.sortOrder = f.sortOrder => e = f
  PROVE  InOrder(Sorted(S), S)
<1> DEFINE n == Cardinality(S)
           Before(e) == {f \in S : Less(f, e)}
           rank == [e \in S |-> Cardinality(Before(e))]
<1>1. n \in Nat
  BY FS_CardinalityType
<1>2. \A e \in S : ~ Less(e, e)
  BY LessIsOrder
<1>3. \A e, f, g \in S : Less(e, f) /\ Less(f, g) => Less(e, g)
  BY LessIsOrder
<1>4. \A e, f \in S : e # f => Less(e, f) \/ Less(f, e)
  BY LessIsOrder
<1>5. ASSUME NEW e \in S
      PROVE  /\ Before(e) \in SUBSET S /\ IsFiniteSet(Before(e))
             /\ Cardinality(Before(e)) \in Nat /\ Cardinality(Before(e)) < n
  <2>1. Before(e) \in SUBSET S /\ Before(e) # S
    BY <1>2
  <2>2. IsFiniteSet(Before(e)) /\ Cardinality(Before(e)) <= n
        /\ Cardinality(Before(e)) # n
    <3> HIDE DEF Before
    <3> QED
      BY <2>1, FS_Subset
  <2>3. Cardinality(Before(e)) \in Nat
    BY <2>2, FS_CardinalityType
  <2> QED
    BY <1>1, <2>1, <2>2, <2>3
<1>6. ASSUME NEW e \in S, NEW f \in S, Less(e, f) PROVE rank[e] < rank[f]
  <2>1. Before(e) \in SUBSET Before(f)
    BY <1>3, <1>6
  <2>2. Before(e) # Before(f)
    BY <1>2, <1>6
  <2>3. /\ IsFiniteSet(Before(f)) /\ Cardinality(Before(f)) \in Nat
        /\ Cardinality(Before(e)) \in Nat
    BY <1>5
  <2>4. Cardinality(Before(e)) < Cardinality(Before(f))
    <3> HIDE DEF Before
    <3>1. /\ Cardinality(Before(e)) <= Cardinality(Before(f))
          /\ Cardinality(Before(f)) # Cardinality(Before(e))
      BY <2>1, <2>2, <2>3, FS_Subset
    <3> QED
      BY <2>3, <3>1
  <2> QED
    BY <2>4
<1>7. \A e \in S : rank[e] \in Nat /\ rank[e] \in 0 .. n - 1
  <2>1. \A e \in S : Cardinality(Before(e)) \in Nat /\ Cardinality(Before(e)) < n
    BY <1>5
  <2> HIDE DEF Before, n
  <2> QED
    BY <1>1, <2>1
<1> HIDE DEF Before
<1>8. rank \in Injection(S, 0 .. n - 1)
  <2>1. \A e, f \in S : rank[e] = rank[f] => e = f
    <3> HIDE DEF rank
    <3> QED
      BY <1>4, <1>6, <1>7
  <2>2. rank \in [S -> 0 .. n - 1]
    BY <1>7
  <2> QED
    BY <2>1, <2>2 DEF Injection, IsInjective
<1>9. rank \in Surjection(S, 0 .. n - 1)
  <2>1. IsFiniteSet(0 .. n - 1) /\ Cardinality(0 .. n - 1) = n
    <3> HIDE DEF n
    <3>1. n \in Nat /\ 0 \in Int /\ n - 1 \in Int
      BY <1>1
    <3>2. /\ IsFiniteSet(0 .. n - 1)
          /\ Cardinality(0 .. n - 1) = IF 0 > n - 1 THEN 0 ELSE (n - 1) - 0 + 1
      BY <3>1, FS_Interval
    <3> QED
      BY <3>1, <3>2
  <2> HIDE DEF rank
  <2> QED
    BY <1>8, <2>1, FS_Injection
<1>10. ASSUME NEW k \in 1 .. n
       PROVE  Sorted(S)[k] \in S /\ rank[Sorted(S)[k]] = k - 1
  <2>1. k - 1 \in 0 .. n - 1
    BY <1>1
  <2>2. \E e \in S : Cardinality(Before(e)) = k - 1
    BY <1>9, <2>1 DEF Surjection
  <2>3. Sorted(S)[k] = CHOOSE e \in S : Cardinality(Before(e)) = k - 1
    BY DEF Sorted, Before
  <2>4. Sorted(S)[k] \in S /\ Cardinality(Before(Sorted(S)[k])) = k - 1
    BY <2>2, <2>3
  <2> QED
    BY <2>4
<1> HIDE DEF rank
<1>11. Sorted(S) \in [1 .. n -> S]
  <2> DEFINE place(k) == CHOOSE e \in S : Cardinality(Before(e)) = k - 1
  <2>1. Sorted(S) = [k \in 1 .. n |-> place(k)]
    BY DEF Sorted, Before
  <2> HIDE DEF place
  <2>2. \A k \in 1 .. n : place(k) \in S
    BY <1>10, <2>1
  <2> QED
    BY <2>1, <2>2
<1>12. ASSUME NEW e \in S PROVE \E k \in 1 .. n : Sorted(S)[k] = e
  <2>1. rank[e] + 1 \in 1 .. n /\ (rank[e] + 1) - 1 = rank[e]
    BY <1>1, <1>7
  <2>2. /\ Sorted(S)[rank[e] + 1] \in S
        /\ rank[Sorted(S)[rank[e] + 1]] = rank[e]
    BY <1>10, <2>1
  <2>3. Sorted(S)[rank[e] + 1] = e
    BY <1>8, <2>2 DEF Injection, IsInjective
  <2> QED
    BY <2>1, <2>3
<1>13. ASSUME NEW k \in 1 .. n, NEW l \in 1 .. n, k < l
       PROVE  Sorted(S)[k] # Sorted(S)[l] /\ Less(Sorted(S)[k], Sorted(S)[l])
  <2> DEFINE e == Sorted(S)[k]
             f == Sorted(S)[l]
  <2>1. e \in S /\ f \in S /\ rank[e] = k - 1 /\ rank[f] = l - 1
    BY <1>10
  <2> HIDE DEF e, f
  <2>2. e # f /\ ~ Less(f, e)
    BY <1>6, <1>13, <2>1
  <2> QED
    BY <1>4, <2>1, <2>2 DEF e, f
<1> QED
  BY <1>11, <1>12, <1>13 DEF InOrder

\* A set of numbers that holds zero and the successor of each number that it
\* holds, up to k, holds all numbers up to k: otherwise there were a smallest
\* one that it lacks.  (The induction theorems of the library take an operator,
\* which the provers cannot instantiate.)
LEMMA UpToInduction ==
  ASSUME NEW k \in Nat, NEW T, 0 \in T,
         \A n \in 1 .. k : n - 1 \in T => n \in T
  PROVE  \A n \in 0 .. k : n \in T
<1> DEFINE Missing == {n \in Nat : n <= k /\ n \notin T}
<1> SUFFICES ASSUME Missing # {} PROVE FALSE
  OBVIOUS
<1> Missing \subseteq Nat
  OBVIOUS
<1>1. \E m \in Missing : \A j \in Missing : ~ (<<j, m>> \in OpToRel(<, Nat))
  <2> HIDE DEF Missing
  <2> QED
    BY NatLessThanWellFounded, WFMin
<1>2. PICK m \in Missing :
        \A j \in Missing : ~ (<<j, m>> \in OpToRel(<, Nat))
  BY <1>1
<1>3. m \in 1 .. k /\ m - 1 \in Nat
  OBVIOUS
<1>4. m - 1 \in Missing
  BY <1>3
<1>5. <<m - 1, m>> \in OpToRel(<, Nat)
  BY <1>3 DEF OpToRel
<1> QED
  BY <1>2, <1>4, <1>5

\* Of n numbers in order, those up to p are the first ones.
FirstOnes(n, c, p) == \E m \in 0 .. n : {k \in 1 .. n : c[k] <= p} = 1 .. m

\* They are, as one sees number by number.
LEMMA FirstOnesAreLeft ==
  ASSUME NEW n \in Nat, NEW c \in [1 .. n -> Int],
         \A k, l \in 1 .. n : k < l => c[k] <= c[l], NEW p \in Int
  PROVE  FirstOnes(n, c, p)
<1> DEFINE LeftOf(j) == {k \in 1 .. j : c[k] <= p}
           T == {j \in 0 .. n : \E m \in 0 .. j : LeftOf(j) = 1 .. m}
<1>1. 0 \in T
  BY LeftOf(0) = 1 .. 0
<1>2. ASSUME NEW j \in 1 .. n, j - 1 \in T PROVE j \in T
  <2>1. PICK m \in 0 .. j - 1 : LeftOf(j - 1) = 1 .. m
    BY <1>2
  <2>2. CASE c[j] <= p
    <3>1. \A k \in 1 .. j : c[k] <= p
      BY <2>2
    <3>2. LeftOf(j) = 1 .. j
      BY <3>1
    <3> QED
      BY <3>2
  <2>3. CASE ~ c[j] <= p
    <3>1. LeftOf(j) = LeftOf(j - 1)
      BY <2>3
    <3>2. m \in 0 .. j /\ j \in 0 .. n
      OBVIOUS
    <3> HIDE DEF LeftOf
    <3> QED
      BY <2>1, <3>1, <3>2
  <2> QED
    BY <2>2, <2>3
<1>3. n \in T
  <2> HIDE DEF T
  <2>1. \A j \in 0 .. n : j \in T
    BY <1>1, <1>2, UpToInduction
  <2> QED
    BY <2>1
<1> QED
  BY <1>3 DEF FirstOnes

\* Going round, one changes sides an even number of times.
LEMMA ChangesAreEven ==
  ASSUME NEW n \in Nat \ {0}, NEW b \in [1 .. n -> {0, 1}]
  PROVE  LET changes == {i \in 1 .. n : b[i] # b[(i % n) + 1]}
         IN  IsFiniteSet(changes) /\ Cardinality(changes) % 2 = 0
<1> DEFINE C(k) == {i \in 1 .. k : b[i] # b[i + 1]}
           odd(k) == IF b[1] = b[k + 1] THEN 0 ELSE 1
           T == {k \in 0 .. n - 1 : IsFiniteSet(C(k)) /\ Cardinality(C(k)) \in Nat
                                    /\ Cardinality(C(k)) % 2 = odd(k)}
<1>1. 0 \in T
  <2>1. C(0) = {}
    OBVIOUS
  <2>2. IsFiniteSet(C(0)) /\ Cardinality(C(0)) = 0
    BY <2>1, FS_EmptySet
  <2> QED
    BY <2>2
<1>2. ASSUME NEW k \in 1 .. n - 1, k - 1 \in T PROVE k \in T
  <2>1. /\ IsFiniteSet(C(k - 1)) /\ Cardinality(C(k - 1)) \in Nat
        /\ Cardinality(C(k - 1)) % 2 = IF b[1] = b[k] THEN 0 ELSE 1
    BY <1>2
  <2>2. b[1] \in {0, 1} /\ b[k] \in {0, 1} /\ b[k + 1] \in {0, 1}
    OBVIOUS
  <2>3. CASE b[k] = b[k + 1]
    <3>1. C(k) = C(k - 1)
      BY <2>3
    <3> HIDE DEF C
    <3> QED
      BY <2>1, <2>3, <3>1
  <2>4. CASE b[k] # b[k + 1]
    <3>1. C(k) = C(k - 1) \cup {k} /\ k \notin C(k - 1)
      BY <2>4
    <3> HIDE DEF C
    <3>2. /\ IsFiniteSet(C(k - 1) \cup {k})
          /\ Cardinality(C(k - 1) \cup {k}) = Cardinality(C(k - 1)) + 1
      BY <2>1, <3>1, FS_AddElement
    <3>3. IsFiniteSet(C(k)) /\ Cardinality(C(k)) = Cardinality(C(k - 1)) + 1
      BY <3>1, <3>2
    <3> QED
      BY <2>1, <2>2, <2>4, <3>3
  <2> QED
    BY <2>3, <2>4
<1>3. n - 1 \in T
  <2> HIDE DEF T
  <2> QED
    BY <1>1, <1>2, UpToInduction
<1>4. /\ IsFiniteSet(C(n - 1)) /\ Cardinality(C(n - 1)) \in Nat
      /\ Cardinality(C(n - 1)) % 2 = IF b[1] = b[n] THEN 0 ELSE 1
  BY <1>3
<1> DEFINE changes == {i \in 1 .. n : b[i] # b[(i % n) + 1]}
<1>5. /\ \A i \in 1 .. n - 1 : i \in changes <=> i \in C(n - 1)
      /\ n \in changes <=> b[n] # b[1]
      /\ n \notin C(n - 1)
      /\ \A i \in changes : i = n \/ i \in 1 .. n - 1
      /\ \A i \in C(n - 1) : i \in 1 .. n - 1
  <2>1. \A i \in 1 .. n - 1 : (i % n) + 1 = i + 1
    OBVIOUS
  <2>2. (n % n) + 1 = 1
    OBVIOUS
  <2>3. \A i \in 1 .. n - 1 : i \in changes <=> i \in C(n - 1)
    BY <2>1
  <2>4. n \in changes <=> b[n] # b[1]
    BY <2>2
  <2> QED
    BY <2>3, <2>4
<1>6. IsFiniteSet(changes) /\ Cardinality(changes) % 2 = 0
  <2> HIDE DEF C, changes
  <2>1. CASE b[n] = b[1]
    <3>1. changes = C(n - 1)
      BY <1>5, <2>1
    <3> QED
      BY <1>4, <2>1, <3>1
  <2>2. CASE b[n] # b[1]
    <3>1. changes = C(n - 1) \cup {n}
      BY <1>5, <2>2
    <3>2. IsFiniteSet(changes) /\ Cardinality(changes) = Cardinality(C(n - 1)) + 1
      BY <1>4, <1>5, <3>1, FS_AddElement
    <3>3. Cardinality(C(n - 1)) % 2 = 1
      BY <1>4, <2>2
    <3> QED
      BY <1>4, <3>2, <3>3
  <2> QED
    BY <2>1, <2>2
<1> QED
  BY <1>6

------------------------------------------------------------------------------
(* Filled polygons.  Row by row, the active edges are those that cross the   *)
(* row, each with its x there; the spans of the rows left so far are the     *)
(* points inside.                                                           *)

Upper(i) == IF From(i).y < To(i).y THEN From(i) ELSE To(i)
Lower(i) == IF From(i).y < To(i).y THEN To(i) ELSE From(i)

\* The slope of edge i, and the x that it has n rows below its upper end, for
\* each n: f[n] in a function f that begins with the upper end and goes on as
\* Advanced does.
SlopeOf(i) ==
  Rounded((Lower(i).x - Upper(i).x) * Unit, Lower(i).y - Upper(i).y)
IsWay(i, f, rows) ==
  /\ f = [n \in 0 .. rows |-> f[n]]
  /\ f[0] = Upper(i).x * Unit
  /\ \A n \in 1 .. rows : f[n] = Rounded(f[n - 1] + SlopeOf(i), 1)
WayOf(i) == CHOOSE f : IsWay(i, f, Lower(i).y - Upper(i).y)

\* Edge i as it is in row r.
EdgeAt(i, r) ==
  [yMin |-> Upper(i).y, yMaxExclusive |-> Lower(i).y,
   x |-> WayOf(i)[r - Upper(i).y], slope |-> SlopeOf(i), sortOrder |-> i]

\* The edges that cross row r, and those that crossed the row above.
CrossingAt(r) == {i \in Indices : Upper(i).y <= r /\ r < Lower(i).y}
CrossedAbove(r) == {i \in Indices : Upper(i).y < r /\ r <= Lower(i).y}
EdgesAt(r) == {EdgeAt(i, r) : i \in CrossingAt(r)}

\* What the spans hold: the points with an odd number of edges at or left of
\* them, an edge being where its rounded x is.
RoundedLeftOf(px, r) == {i \in CrossingAt(r) : Ceiling(EdgeAt(i, r)) <= px}
RoundedInside(px, r) == Cardinality(RoundedLeftOf(px, r)) % 2 = 1

\* How many of the active edges are at px or left of it.
ActiveLeftOf(px) == Cardinality({k \in 1 .. Len(active) : Ceiling(active[k]) <= px})

Spans == [y : Int, xStart : Int, xEndExclusive : Int]

\* The spans are those of rows above r, and as wide as the polygon.
SpansAbove(r) ==
  /\ spans \in Seq(Spans)
  /\ \A k \in 1 .. Len(spans) :
       /\ Min(Rows) <= spans[k].y /\ spans[k].y < r
       /\ Min(Columns) <= spans[k].xStart
       /\ spans[k].xEndExclusive <= Max(Columns) + 1

\* In the rows above r each point inside is held by one span, and no other is.
FilledAbove(r) ==
  \A px, py \in Int :
    Min(Rows) <= py /\ py < r =>
      Cardinality(SpansHolding(px, py)) = IF RoundedInside(px, py) THEN 1 ELSE 0

\* Of the row's points, those between two edges with their span given out.
FilledLeft ==
  \A px \in Int :
    Cardinality(SpansHolding(px, row))
      = IF ActiveLeftOf(px) % 2 = 1 /\ ActiveLeftOf(px) < left THEN 1 ELSE 0

\* A call to fill that is not done has a polygon.
FillStateOK ==
  /\ call \in Calls /\ call.what = "fill"
  /\ at \in {"prepare", "row", "spans", "done", "failed"}
  /\ at # "done" => Len(call.vertices) >= 3

\* The invariant.  Its parts say of each place in the code what is filled there.
FillInv ==
  /\ at = "prepare" => active = <<>> /\ spans = <<>>
  /\ at = "row" =>
       /\ buckets = FillEdges /\ row \in Min(Rows) .. Max(Rows) + 1
       /\ Range(active) = {EdgeAt(i, row) : i \in CrossedAbove(row)}
       /\ SpansAbove(row) /\ FilledAbove(row)
  /\ at = "spans" =>
       /\ buckets = FillEdges /\ row \in Min(Rows) .. Max(Rows)
       /\ active = Sorted(EdgesAt(row))
       /\ left \in 1 .. Len(active) + 1 /\ left % 2 = 1
       /\ SpansAbove(row + 1) /\ FilledAbove(row) /\ FilledLeft
  /\ at = "done" /\ Len(call.vertices) >= 3 =>
       SpansAbove(Max(Rows) + 1) /\ FilledAbove(Max(Rows) + 1)


\* The ends of an edge are vertices.
LEMMA EndsOfEdge ==
  ASSUME call \in Calls, NEW i \in Indices
  PROVE  /\ From(i) \in Points /\ To(i) \in Points
         /\ Upper(i) \in Points /\ Lower(i) \in Points
         /\ Upper(i).y <= Lower(i).y
         /\ From(i).y # To(i).y <=> Upper(i).y < Lower(i).y
         /\ Upper(i).x \in Columns /\ Lower(i).x \in Columns
         /\ Upper(i).y \in Rows /\ Lower(i).y \in Rows
<1>1. From(i) \in Points /\ To(i) \in Points
  BY EndsArePoints DEF Indices
<1>2. Upper(i) \in {From(i), To(i)} /\ Lower(i) \in {From(i), To(i)}
  BY DEF Upper, Lower
<1>3. call.vertices \in Seq(Points)
  BY RasterizerAssumption
<1>4. (i % Len(call.vertices)) + 1 \in Indices
  <2>1. Len(call.vertices) \in Nat /\ i \in 1 .. Len(call.vertices)
    BY <1>3 DEF Indices
  <2> DEFINE n == Len(call.vertices)
  <2> HIDE DEF n
  <2>2. n \in Nat /\ i \in 1 .. n => (i % n) + 1 \in 1 .. n
    OBVIOUS
  <2> QED
    BY <2>1, <2>2 DEF n, Indices
<1>5. \E j \in Indices : From(i) = call.vertices[j]
  BY DEF From
<1>6. \E j \in Indices : To(i) = call.vertices[j]
  BY <1>4 DEF To
<1>7. /\ From(i).x \in Columns /\ From(i).y \in Rows
      /\ To(i).x \in Columns /\ To(i).y \in Rows
  BY <1>5, <1>6 DEF Columns, Rows
<1>8. From(i).y \in Int /\ To(i).y \in Int
  BY <1>1 DEF Points
<1> QED
  BY <1>1, <1>2, <1>7, <1>8 DEF Upper, Lower

\* A least and a greatest of some numbers.
LEMMA Extremes ==
  ASSUME NEW n \in Nat \ {0}, NEW v \in [1 .. n -> Int]
  PROVE  LET S == {v[i] : i \in 1 .. n}
         IN  /\ Min(S) \in Int /\ Max(S) \in Int
             /\ \A s \in S : Min(S) <= s /\ s <= Max(S)
<1> DEFINE Bounded(k) == \E a, b \in 1 .. n :
                           \A i \in 1 .. k : v[a] <= v[i] /\ v[i] <= v[b]
           T == {k \in 0 .. n : Bounded(k)}
<1>0. \A i \in 1 .. n : v[i] \in Int
  OBVIOUS
<1>1. 0 \in T
  <2>1. Bounded(0)
    <3>1. WITNESS 1 \in 1 .. n, 1 \in 1 .. n
    <3> QED
      OBVIOUS
  <2> QED
    BY <2>1
<1>2. ASSUME NEW k \in 1 .. n, k - 1 \in T PROVE k \in T
  <2>1. PICK a \in 1 .. n, b \in 1 .. n :
          \A i \in 1 .. k - 1 : v[a] <= v[i] /\ v[i] <= v[b]
    BY <1>2
  <2>2. \E c \in 1 .. n : v[c] <= v[k] /\ v[c] <= v[a]
    <3>1. CASE v[k] <= v[a]
      BY <1>0, <3>1
    <3>2. CASE ~ v[k] <= v[a]
      BY <1>0, <3>2
    <3> QED
      BY <3>1, <3>2
  <2>3. \E d \in 1 .. n : v[k] <= v[d] /\ v[b] <= v[d]
    <3>1. CASE v[k] >= v[b]
      BY <1>0, <3>1
    <3>2. CASE ~ v[k] >= v[b]
      BY <1>0, <3>2
    <3> QED
      BY <3>1, <3>2
  <2>4. PICK c \in 1 .. n : v[c] <= v[k] /\ v[c] <= v[a]
    BY <2>2
  <2>5. PICK d \in 1 .. n : v[k] <= v[d] /\ v[b] <= v[d]
    BY <2>3
  <2>6. \A i \in 1 .. k : v[c] <= v[i] /\ v[i] <= v[d]
    <3>1. TAKE i \in 1 .. k
    <3>2. CASE i = k
      BY <2>4, <2>5, <3>2
    <3>3. CASE i # k
      <4>1. v[a] <= v[i] /\ v[i] <= v[b]
        BY <2>1, <3>3
      <4>2. /\ v[a] \in Int /\ v[b] \in Int /\ v[c] \in Int /\ v[d] \in Int
            /\ v[i] \in Int
        BY <1>0
      <4> QED
        BY <2>4, <2>5, <4>1, <4>2
    <3> QED
      BY <3>2, <3>3
  <2>7. Bounded(k)
    BY <2>6
  <2>8. k \in 0 .. n
    OBVIOUS
  <2> HIDE DEF Bounded
  <2> QED
    BY <2>7, <2>8
<1>3. n \in T
  <2> HIDE DEF T
  <2>1. \A j \in 0 .. n : j \in T
    BY <1>1, <1>2, UpToInduction
  <2> QED
    BY <2>1
<1>4. PICK a \in 1 .. n, b \in 1 .. n :
        \A i \in 1 .. n : v[a] <= v[i] /\ v[i] <= v[b]
  BY <1>3
<1> DEFINE S == {v[i] : i \in 1 .. n}
<1>5. v[a] \in S /\ v[b] \in S /\ \A s \in S : s \in Int /\ v[a] <= s /\ s <= v[b]
  BY <1>0, <1>4
<1> HIDE DEF S
<1>6. Min(S) \in S /\ \A s \in S : Min(S) <= s
  BY <1>5 DEF Min
<1>7. Max(S) \in S /\ \A s \in S : s <= Max(S)
  BY <1>5 DEF Max
<1> QED
  BY <1>5, <1>6, <1>7 DEF S

\* The rows and columns of a polygon have a first and a last.
LEMMA RowsAndColumns ==
  ASSUME call \in Calls, Len(call.vertices) >= 3
  PROVE  /\ Min(Rows) \in Int /\ Max(Rows) \in Int
         /\ \A r \in Rows : r \in Int /\ Min(Rows) <= r /\ r <= Max(Rows)
         /\ Rows # {}
         /\ Min(Columns) \in Int /\ Max(Columns) \in Int
         /\ \A c \in Columns : c \in Int /\ Min(Columns) <= c /\ c <= Max(Columns)
<1> DEFINE n == Len(call.vertices)
           ys == [i \in 1 .. n |-> call.vertices[i].y]
           xs == [i \in 1 .. n |-> call.vertices[i].x]
<1>1. n \in Nat \ {0} /\ \A i \in 1 .. n : call.vertices[i] \in Points
  BY RasterizerAssumption
<1>2. ys \in [1 .. n -> Int] /\ xs \in [1 .. n -> Int]
  BY <1>1 DEF Points
<1>3. Rows = {ys[i] : i \in 1 .. n} /\ Columns = {xs[i] : i \in 1 .. n}
  BY DEF Rows, Columns, Indices
<1>4. 1 \in 1 .. n
  BY <1>1
<1> HIDE DEF n, ys, xs
<1>5. /\ Min(Rows) \in Int /\ Max(Rows) \in Int
      /\ \A r \in Rows : Min(Rows) <= r /\ r <= Max(Rows)
  BY <1>1, <1>2, <1>3, Extremes
<1>6. /\ Min(Columns) \in Int /\ Max(Columns) \in Int
      /\ \A c \in Columns : Min(Columns) <= c /\ c <= Max(Columns)
  BY <1>1, <1>2, <1>3, Extremes
<1>7. (\A r \in Rows : r \in Int) /\ (\A c \in Columns : c \in Int) /\ Rows # {}
  BY <1>2, <1>3, <1>4
<1> QED
  BY <1>5, <1>6, <1>7

\* Every edge has its way, one row after the other.
LEMMA WayExists ==
  ASSUME NEW i, NEW rows \in Nat, rows = Lower(i).y - Upper(i).y
  PROVE  IsWay(i, WayOf(i), rows)
<1> DEFINE T == {m \in 0 .. rows : \E f : IsWay(i, f, m)}
<1>1. 0 \in T
  <2> DEFINE f == [n \in 0 .. 0 |-> Upper(i).x * Unit]
  <2>1. f = [n \in 0 .. 0 |-> f[n]] /\ f[0] = Upper(i).x * Unit
    OBVIOUS
  <2>2. IsWay(i, f, 0)
    <3> HIDE DEF f
    <3> QED
      BY <2>1 DEF IsWay
  <2> QED
    BY <2>2
<1>2. ASSUME NEW m \in 1 .. rows, m - 1 \in T PROVE m \in T
  <2>1. PICK f : IsWay(i, f, m - 1)
    BY <1>2
  <2>2. \A n \in 1 .. m - 1 : f[n] = Rounded(f[n - 1] + SlopeOf(i), 1)
    BY <2>1 DEF IsWay
  <2>3. f[0] = Upper(i).x * Unit
    BY <2>1 DEF IsWay
  <2> DEFINE next == Rounded(f[m - 1] + SlopeOf(i), 1)
             g == [n \in 0 .. m |-> IF n = m THEN next ELSE f[n]]
  <2>4. \A n \in 0 .. m - 1 : g[n] = f[n]
    OBVIOUS
  <2>5. g[m] = next /\ 0 \in 0 .. m - 1 /\ g = [n \in 0 .. m |-> g[n]]
    OBVIOUS
  <2> HIDE DEF g
  <2>6. \A n \in 1 .. m : g[n] = Rounded(g[n - 1] + SlopeOf(i), 1)
    <3>1. TAKE n \in 1 .. m
    <3>2. n - 1 \in 0 .. m - 1 /\ g[n - 1] = f[n - 1]
      BY <2>4
    <3>3. CASE n = m
      BY <2>5, <3>2, <3>3
    <3>4. CASE n # m
      <4>1. n \in 1 .. m - 1 /\ n \in 0 .. m - 1
        BY <3>4
      <4> QED
        BY <2>2, <2>4, <3>2, <4>1
    <3> QED
      BY <3>3, <3>4
  <2>7. IsWay(i, g, m)
    BY <2>3, <2>4, <2>5, <2>6 DEF IsWay
  <2> QED
    BY <2>7
<1>3. rows \in T
  <2> HIDE DEF T
  <2>1. \A m \in 0 .. rows : m \in T
    BY <1>1, <1>2, UpToInduction
  <2> QED
    BY <2>1
<1>4. \E f : IsWay(i, f, rows)
  BY <1>3
<1> QED
  BY <1>4 DEF WayOf

\* Going on to the next row advances an edge by its slope.
LEMMA AdvancedEdge ==
  ASSUME call \in Calls, NEW i \in Indices, NEW r \in Int,
         Upper(i).y <= r, r < Lower(i).y
  PROVE  Advanced(EdgeAt(i, r)) = EdgeAt(i, r + 1)
<1> DEFINE rows == Lower(i).y - Upper(i).y
           n == r - Upper(i).y
           m == (r + 1) - Upper(i).y
<1>1. rows \in Nat /\ m \in 1 .. rows /\ n = m - 1
  BY EndsOfEdge DEF Points
<1>2. IsWay(i, WayOf(i), rows)
  <2> HIDE DEF rows
  <2>1. rows = Lower(i).y - Upper(i).y
    BY DEF rows
  <2> QED
    BY <1>1, <2>1, WayExists
<1>3. WayOf(i)[m] = Rounded(WayOf(i)[m - 1] + SlopeOf(i), 1)
  <2> HIDE DEF rows, m, n
  <2> QED
    BY <1>1, <1>2 DEF IsWay
<1>4. EdgeAt(i, r).x = WayOf(i)[m - 1] /\ EdgeAt(i, r).slope = SlopeOf(i)
  <2> HIDE DEF m
  <2>1. EdgeAt(i, r).x = WayOf(i)[n] /\ EdgeAt(i, r).slope = SlopeOf(i)
    BY DEF EdgeAt
  <2> HIDE DEF n
  <2> QED
    BY <1>1, <2>1
<1>5. Advanced(EdgeAt(i, r)) = [EdgeAt(i, r) EXCEPT !.x = WayOf(i)[m]]
  <2> HIDE DEF m
  <2> QED
    BY <1>3, <1>4 DEF Advanced
<1>6. EdgeAt(i, r + 1) = [EdgeAt(i, r) EXCEPT !.x = WayOf(i)[m]]
  <2>1. EdgeAt(i, r + 1) =
          [yMin |-> Upper(i).y, yMaxExclusive |-> Lower(i).y,
           x |-> WayOf(i)[m], slope |-> SlopeOf(i), sortOrder |-> i]
    BY DEF EdgeAt
  <2> HIDE DEF m
  <2> QED
    BY <2>1 DEF EdgeAt
<1> QED
  BY <1>5, <1>6

\* fillPolygon begins with the edges as they are at their upper ends.
LEMMA FillEdgesAtTheirTops ==
  ASSUME call \in Calls
  PROVE  FillEdges = {EdgeAt(i, Upper(i).y) :
                        i \in {j \in Indices : Upper(j).y < Lower(j).y}}
<1>1. ASSUME NEW i \in Indices, Upper(i).y < Lower(i).y
      PROVE  WayOf(i)[Upper(i).y - Upper(i).y] = Upper(i).x * Unit
  <2> DEFINE rows == Lower(i).y - Upper(i).y
             n == Upper(i).y - Upper(i).y
  <2>1. rows \in Nat /\ n = 0
    BY <1>1, EndsOfEdge DEF Points
  <2>2. rows = Lower(i).y - Upper(i).y
    OBVIOUS
  <2> HIDE DEF rows, n
  <2>3. WayOf(i)[0] = Upper(i).x * Unit
    BY <2>1, <2>2, WayExists DEF IsWay
  <2>4. WayOf(i)[n] = Upper(i).x * Unit
    BY <2>1, <2>3
  <2> QED
    BY <2>4 DEF n
<1>2. \A i \in Indices : From(i).y # To(i).y <=> Upper(i).y < Lower(i).y
  BY EndsOfEdge
<1> DEFINE Down(i) ==
             IF From(i).y < To(i).y THEN <<From(i), To(i)>> ELSE <<To(i), From(i)>>
           AtTop(i) ==
             [yMin |-> Down(i)[1].y, yMaxExclusive |-> Down(i)[2].y,
              x |-> Down(i)[1].x * Unit,
              slope |-> Rounded((Down(i)[2].x - Down(i)[1].x) * Unit,
                                Down(i)[2].y - Down(i)[1].y),
              sortOrder |-> i]
<1>3. FillEdges = {AtTop(i) : i \in {j \in Indices : From(j).y # To(j).y}}
  BY DEF FillEdges
<1>4. ASSUME NEW i \in Indices, Upper(i).y < Lower(i).y
      PROVE  AtTop(i) = EdgeAt(i, Upper(i).y)
  <2>1. Down(i)[1] = Upper(i) /\ Down(i)[2] = Lower(i)
    BY DEF Upper, Lower
  <2> HIDE DEF Down
  <2> QED
    BY <1>1, <1>4, <2>1 DEF EdgeAt, SlopeOf
<1> HIDE DEF AtTop
<1> QED
  BY <1>2, <1>3, <1>4

\* The edges that begin in a row and those left from the row above, but for
\* those that end in it, are the ones that cross it.
LEMMA CrossedAreEdgesAt ==
  ASSUME call \in Calls, row \in Int, buckets = FillEdges,
         Range(active) = {EdgeAt(i, row) : i \in CrossedAbove(row)}
  PROVE  Crossed = EdgesAt(row)
<1>1. \A i \in Indices : Upper(i).y \in Int /\ Lower(i).y \in Int
  BY EndsOfEdge DEF Points
<1>2. \A i, r : EdgeAt(i, r).yMin = Upper(i).y /\ EdgeAt(i, r).yMaxExclusive = Lower(i).y
  BY DEF EdgeAt
<1>3. ASSUME NEW e \in Crossed PROVE e \in EdgesAt(row)
  <2>1. row < e.yMaxExclusive
    BY DEF Crossed
  <2>2. CASE e \in Range(active)
    <3>1. PICK i \in CrossedAbove(row) : e = EdgeAt(i, row)
      BY <2>2
    <3>2. i \in CrossingAt(row)
      BY <1>1, <1>2, <2>1, <3>1 DEF CrossedAbove, CrossingAt
    <3> QED
      BY <3>1, <3>2 DEF EdgesAt
  <2>3. CASE e \in buckets /\ e.yMin = row
    <3>1. PICK i \in Indices : e = EdgeAt(i, Upper(i).y)
      BY <2>3, FillEdgesAtTheirTops
    <3>2. Upper(i).y = row
      BY <1>2, <2>3, <3>1
    <3>3. i \in CrossingAt(row)
      BY <1>1, <1>2, <2>1, <3>1, <3>2 DEF CrossingAt
    <3> QED
      BY <3>1, <3>2, <3>3 DEF EdgesAt
  <2> QED
    BY <2>2, <2>3 DEF Crossed
<1>4. ASSUME NEW e \in EdgesAt(row) PROVE e \in Crossed
  <2>1. PICK i \in CrossingAt(row) : e = EdgeAt(i, row)
    BY DEF EdgesAt
  <2>2. /\ i \in Indices /\ Upper(i).y <= row /\ row < Lower(i).y
        /\ Upper(i).y \in Int /\ Lower(i).y \in Int
    BY <1>1, <2>1 DEF CrossingAt
  <2>3. CASE Upper(i).y < row
    <3>1. i \in CrossedAbove(row)
      BY <2>2, <2>3 DEF CrossedAbove
    <3> QED
      BY <1>2, <2>1, <2>2, <3>1 DEF Crossed
  <2>4. CASE Upper(i).y = row
    <3>1. EdgeAt(i, Upper(i).y) \in FillEdges
      BY <2>2, FillEdgesAtTheirTops
    <3> QED
      BY <1>2, <2>1, <2>2, <2>4, <3>1 DEF Crossed
  <2> QED
    BY <2>2, <2>3, <2>4
<1> QED
  BY <1>3, <1>4

\* When a row is left, its edges are those that crossed the row above the next.
LEMMA AdvancedCrossedAbove ==
  ASSUME call \in Calls, NEW r \in Int
  PROVE  {Advanced(e) : e \in EdgesAt(r)} = {EdgeAt(i, r + 1) : i \in CrossedAbove(r + 1)}
<1>1. \A i \in Indices : Upper(i).y \in Int /\ Lower(i).y \in Int
  BY EndsOfEdge DEF Points
<1>2. CrossingAt(r) = CrossedAbove(r + 1)
  BY <1>1 DEF CrossingAt, CrossedAbove
<1>3. \A i \in CrossingAt(r) : Advanced(EdgeAt(i, r)) = EdgeAt(i, r + 1)
  BY AdvancedEdge DEF CrossingAt
<1> QED
  BY <1>2, <1>3 DEF EdgesAt

\* What DoublesAssumption says of an edge of a polygon that is filled.
LEMMA EdgeFits ==
  ASSUME call \in Calls, call.what = "fill", NEW i \in Indices
  PROVE  \E q \in Quanta :
           /\ (Magnitude(Upper(i).x) + Magnitude(Lower(i).x) + 1) * Unit
                < Significands * q
           /\ (Lower(i).y - Upper(i).y) * (Lower(i).y - Upper(i).y) * q < Unit
<1>1. PICK q \in Quanta : \A a, b \in Range(call.vertices) :
        /\ (Magnitude(a.x) + Magnitude(b.x) + 1) * Unit < Significands * q
        /\ (a.y - b.y) * (a.y - b.y) * q < Unit
  BY DoublesAssumption
<1>2. call.vertices \in Seq(Points)
  BY RasterizerAssumption
<1>3. (i % Len(call.vertices)) + 1 \in 1 .. Len(call.vertices)
  <2>1. Len(call.vertices) \in Nat /\ i \in 1 .. Len(call.vertices)
    BY <1>2 DEF Indices
  <2> DEFINE n == Len(call.vertices)
  <2> HIDE DEF n
  <2>2. n \in Nat /\ i \in 1 .. n => (i % n) + 1 \in 1 .. n
    OBVIOUS
  <2> QED
    BY <2>1, <2>2 DEF n
<1>4. DOMAIN call.vertices = 1 .. Len(call.vertices) /\ i \in 1 .. Len(call.vertices)
  BY <1>2 DEF Indices
<1>5. From(i) \in Range(call.vertices) /\ To(i) \in Range(call.vertices)
  <2> HIDE DEF Range
  <2>1. \A k \in DOMAIN call.vertices : call.vertices[k] \in Range(call.vertices)
    BY DEF Range
  <2> QED
    BY <1>3, <1>4, <2>1 DEF From, To
<1>6. Upper(i) \in Range(call.vertices) /\ Lower(i) \in Range(call.vertices)
  BY <1>5 DEF Upper, Lower
<1> QED
  BY <1>1, <1>6

\* All the way down the x of an edge is less than 1 / rows away from where the
\* edge is; at the upper end and when the slope is a double, it is there.
IsClose(i, n) ==
  LET rows == Lower(i).y - Upper(i).y
      exact == (Upper(i).x * rows + n * (Lower(i).x - Upper(i).x)) * Unit
      v == WayOf(i)[n]
  IN  /\ v \in Int
      /\ v * rows - exact < Unit /\ exact - v * rows < Unit
      /\ n = 0 \/ SlopeIsDouble(i) => v * rows = exact

\* SlopeIsDouble says so of the slope downwards.
LEMMA SlopeDownwards ==
  ASSUME call \in Calls, NEW i \in Indices, Upper(i).y < Lower(i).y, SlopeIsDouble(i)
  PROVE  IsDouble((Lower(i).x - Upper(i).x) * Unit, Lower(i).y - Upper(i).y)
<1> DEFINE ax == From(i).x
           bx == To(i).x
           dy == Lower(i).y - Upper(i).y
<1>1. /\ ax \in Int /\ bx \in Int /\ From(i).y \in Int /\ To(i).y \in Int
      /\ dy \in Nat \ {0} /\ Unit \in Nat
  BY EndsOfEdge, DoublesAssumption DEF Points
<1>2. Dy(i) = dy
  BY <1>1 DEF Dy, Magnitude, Upper, Lower
<1>3. \/ Lower(i).x - Upper(i).x = bx - ax
      \/ Lower(i).x - Upper(i).x = ax - bx
  BY DEF Upper, Lower
<1> HIDE DEF ax, bx, dy
<1>4. ASSUME NEW q \in Quanta
      PROVE  /\ \E k \in Int : (bx - ax) * Unit = k * (q * dy)
             /\ \E k \in Int : (ax - bx) * Unit = k * (q * dy)
  <2>1. q \in Nat \ {0}
    BY DoublesAssumption
  <2> DEFINE a == (bx - ax) * Unit
             m == dy * q
             c == a \div m
  <2>2. a \in Int /\ m \in Nat \ {0} /\ a % m = 0
    BY <1>1, <1>2, <1>4, <2>1 DEF SlopeIsDouble, ax, bx
  <2>3. c \in Int /\ a = m * c
    <3> HIDE DEF a, m
    <3> QED
      BY <2>2
  <2>4. m = q * dy /\ m * c = c * m /\ (ax - bx) * Unit = - a /\ - c \in Int
        /\ (- c) * m = - (c * m)
    BY <1>1, <2>1, <2>3
  <2> HIDE DEF a, m, c
  <2>5. a = c * (q * dy) /\ (ax - bx) * Unit = (- c) * (q * dy)
    BY <2>3, <2>4
  <2> QED
    BY <2>3, <2>4, <2>5 DEF a
<1>5. \A q \in Quanta : \E k \in Int : (Lower(i).x - Upper(i).x) * Unit = k * (q * dy)
  BY <1>3, <1>4
<1> QED
  BY <1>5 DEF IsDouble, dy

\* It is, as one sees row by row: each adds a quantum to the error at most.
LEMMA WayIsClose ==
  ASSUME call \in Calls, call.what = "fill", NEW i \in Indices,
         Upper(i).y < Lower(i).y
  PROVE  /\ SlopeOf(i) \in Int
         /\ \A n \in 0 .. Lower(i).y - Upper(i).y : IsClose(i, n)
<1> DEFINE ux == Upper(i).x
           lx == Lower(i).x
           dy == Lower(i).y - Upper(i).y
           f == WayOf(i)
           s == SlopeOf(i)
           width == Magnitude(ux) + Magnitude(lx)
           exact(n) == (ux * dy + n * (lx - ux)) * Unit
<1>1. ux \in Int /\ lx \in Int /\ dy \in Nat \ {0} /\ Unit \in Nat \ {0}
  BY EndsOfEdge, DoublesAssumption DEF Points
<1>2. PICK q \in Quanta : /\ (width + 1) * Unit < Significands * q
                          /\ dy * dy * q < Unit
  BY EdgeFits
<1>3. /\ q \in Nat \ {0} /\ Significands \in Nat /\ Significands * q \in Int
      /\ Significands * q * 1 = Significands * q
  BY DoublesAssumption
<1>4. IsWay(i, f, dy)
  <2> HIDE DEF dy
  <2>1. dy \in Nat /\ dy = Lower(i).y - Upper(i).y
    BY <1>1 DEF dy
  <2> QED
    BY <2>1, WayExists
<1>5. /\ f[0] = ux * Unit
      /\ \A n \in 1 .. dy : f[n] = Rounded(f[n - 1] + s, 1)
  BY <1>4 DEF IsWay
<1>6. s = Rounded((lx - ux) * Unit, dy)
  BY DEF SlopeOf
<1>7. /\ width \in Nat /\ - width <= ux /\ ux <= width
      /\ - width <= lx /\ lx <= width
  BY <1>1 DEF Magnitude
<1> HIDE DEF ux, lx, dy, f, s, width
<1>8. (lx - ux) * Unit \in Int /\ Magnitude((lx - ux) * Unit) < Significands * q * dy
  <2> DEFINE D == (lx - ux) * Unit
             R == Significands * q
             w == width * Unit
  <2>1. D \in Int /\ w \in Int /\ R \in Int /\ w + Unit < R
    <3>1. (width + 1) * Unit = width * Unit + Unit
      BY <1>1, <1>7
    <3> QED
      BY <1>1, <1>2, <1>3, <1>7, <3>1
  <2>2. - w <= D /\ D <= w
    <3>1. lx - ux <= width /\ - width <= lx - ux
      BY <1>1 DEF width, Magnitude
    <3>2. (lx - ux) * Unit <= width * Unit /\ (- width) * Unit <= (lx - ux) * Unit
      BY <1>1, <1>7, <3>1
    <3>3. (- width) * Unit = - (width * Unit)
      BY <1>1, <1>7
    <3> QED
      BY <3>2, <3>3
  <2>3. R <= R * dy /\ R * dy \in Int
    <3>1. R \in Nat
      BY <1>3
    <3> HIDE DEF R
    <3> QED
      BY <1>1, <3>1
  <2> HIDE DEF D, R, w
  <2>4. Magnitude(D) < R * dy
    BY <1>1, <2>1, <2>2, <2>3 DEF Magnitude
  <2> QED
    BY <2>1, <2>4 DEF D, R
<1>9. /\ s \in Int
      /\ 2 * (s * dy - (lx - ux) * Unit) <= q * dy
      /\ 2 * ((lx - ux) * Unit - s * dy) <= q * dy
  BY <1>1, <1>6, <1>8, RoundedIsNear
<1> DEFINE Near(n) == /\ f[n] \in Int
                      /\ f[n] * dy - exact(n) <= n * (q * dy)
                      /\ exact(n) - f[n] * dy <= n * (q * dy)
           T == {n \in 0 .. dy : Near(n)}
<1>10. 0 \in T /\ f[0] * dy = exact(0)
  <2>1. f[0] \in Int /\ f[0] * dy = exact(0)
    <3>1. (ux * Unit) * dy = (ux * dy + 0 * (lx - ux)) * Unit
      BY <1>1
    <3> QED
      BY <1>1, <1>5, <3>1
  <2>2. 0 * (q * dy) = 0 /\ f[0] * dy \in Int /\ 0 \in 0 .. dy
    BY <1>1, <1>3, <2>1
  <2> HIDE DEF exact
  <2> QED
    BY <2>1, <2>2
<1>11. ASSUME NEW n \in 0 .. dy - 1, Near(n)
       PROVE  /\ Magnitude(f[n] + s) < Significands * q
              /\ \A w \in Int :
                   2 * (w - (f[n] + s)) <= q /\ 2 * ((f[n] + s) - w) <= q =>
                     /\ w * dy - exact(n + 1) <= (n + 1) * (q * dy)
                     /\ exact(n + 1) - w * dy <= (n + 1) * (q * dy)
  <2> DEFINE v == f[n]
             room == Significands * q
  <2>1. v \in Int /\ room \in Int
    BY <1>3, <1>11
  <2>2. /\ v * dy - (ux * dy + n * (lx - ux)) * Unit <= n * (q * dy)
        /\ (ux * dy + n * (lx - ux)) * Unit - v * dy <= n * (q * dy)
    BY <1>11
  <2>3. (width + 1) * Unit < room /\ dy * dy * q < Unit
    BY <1>2
  <2> HIDE DEF v, room
  <2>4. /\ Magnitude(v + s) < room
        /\ \A w \in Int :
              2 * (w - (v + s)) <= q /\ 2 * ((v + s) - w) <= q =>
                /\ w * dy - (ux * dy + (n + 1) * (lx - ux)) * Unit <= (n + 1) * (q * dy)
                /\ (ux * dy + (n + 1) * (lx - ux)) * Unit - w * dy <= (n + 1) * (q * dy)
    BY <1>1, <1>3, <1>7, <1>9, <2>1, <2>2, <2>3, RowAddsQuantum
  <2> QED
    BY <2>4 DEF v, room
<1>12. ASSUME NEW n \in 1 .. dy, n - 1 \in T PROVE n \in T
  <2> DEFINE m == n - 1
             a == f[m] + s
             w == f[n]
  <2>1. m \in 0 .. dy - 1 /\ m + 1 = n /\ Near(m)
    BY <1>1, <1>12
  <2>2. /\ Magnitude(a) < Significands * q
        /\ \A z \in Int :
             2 * (z - a) <= q /\ 2 * (a - z) <= q =>
               /\ z * dy - exact(m + 1) <= (m + 1) * (q * dy)
               /\ exact(m + 1) - z * dy <= (m + 1) * (q * dy)
    <3> HIDE DEF Near, exact, m
    <3> QED
      BY <1>11, <2>1
  <2>3. a \in Int /\ w = Rounded(a, 1)
    BY <1>5, <1>9, <2>1
  <2> HIDE DEF a, w, Near, exact, m
  <2>4. w \in Int /\ 2 * (w * 1 - a) <= q * 1 /\ 2 * (a - w * 1) <= q * 1
    BY <1>3, <2>2, <2>3, RoundedIsNear
  <2>5. 2 * (w - a) <= q /\ 2 * (a - w) <= q
    BY <1>3, <2>3, <2>4
  <2>6. /\ w * dy - exact(n) <= n * (q * dy)
        /\ exact(n) - w * dy <= n * (q * dy)
    BY <2>1, <2>2, <2>4, <2>5
  <2>7. Near(n)
    BY <2>4, <2>6 DEF Near, w
  <2> QED
    BY <1>1, <2>7
<1>13. \A n \in 0 .. dy : Near(n)
  <2>1. dy \in Nat /\ 0 \in T /\ \A n \in 1 .. dy : n - 1 \in T => n \in T
    BY <1>1, <1>10, <1>12
  <2>2. \A n \in 0 .. dy : n \in T
    <3> HIDE DEF T
    <3> QED
      BY <2>1, UpToInduction
  <2> HIDE DEF Near
  <2> QED
    BY <2>2
<1>14. ASSUME SlopeIsDouble(i) PROVE \A n \in 0 .. dy : f[n] * dy = exact(n)
  <2> DEFINE U == {n \in 0 .. dy : f[n] * dy = exact(n) /\ IsDouble(f[n], 1)}
  <2>1. s * dy = (lx - ux) * Unit /\ IsDouble(s, 1)
    <3>1. IsDouble((lx - ux) * Unit, dy)
      BY <1>1, <1>14, SlopeDownwards DEF lx, ux, dy
    <3> QED
      BY <1>1, <1>6, <1>8, <3>1, DoublesStay
  <2>2. 0 \in U
    <3>1. IsDouble(f[0], 1)
      BY <1>1, <1>5, WholeIsDouble
    <3> HIDE DEF exact
    <3> QED
      BY <1>1, <1>10, <3>1
  <2>3. ASSUME NEW n \in 1 .. dy, n - 1 \in U PROVE n \in U
    <3> DEFINE m == n - 1
               a == f[m] + s
               w == f[n]
    <3>1. m \in 0 .. dy - 1 /\ m \in 0 .. dy /\ m + 1 = n
      BY <1>1
    <3>2. Near(m)
      <4> HIDE DEF Near, m
      <4> QED
        BY <1>13, <3>1
    <3>3. Magnitude(a) < Significands * q
      <4> HIDE DEF Near, exact, m
      <4> QED
        BY <1>11, <3>1, <3>2
    <3>4. f[m] \in Int /\ a \in Int /\ w = Rounded(a, 1)
      BY <1>5, <1>9, <3>2
    <3>5. IsDouble(a, 1) /\ f[m] * dy = exact(m)
      BY <1>9, <2>1, <2>3, <3>4, SumIsDouble
    <3>6. w \in Int /\ w * 1 = a /\ IsDouble(w, 1)
      <4> HIDE DEF a, w
      <4> QED
        BY <1>3, <3>3, <3>4, <3>5, DoublesStay
    <3>7. w * dy = exact(n)
      <4> DEFINE v == f[m]
                 dx == lx - ux
      <4>1. v * dy = (ux * dy + m * dx) * Unit /\ s * dy = dx * Unit
        BY <2>1, <3>5
      <4>2. w = v + s
        BY <3>4, <3>6
      <4>3. v \in Int /\ dx \in Int /\ s \in Int /\ m \in Int /\ n = m + 1
        BY <1>1, <1>9, <3>1, <3>4
      <4>4. exact(n) = (ux * dy + n * dx) * Unit
        OBVIOUS
      <4> HIDE DEF v, dx, m, w, exact
      <4>5. (v + s) * dy = v * dy + s * dy
        BY <1>1, <4>3
      <4>6. (ux * dy + n * dx) * Unit = (ux * dy + m * dx) * Unit + dx * Unit
        <5>1. n * dx = m * dx + dx
          BY <4>3
        <5>2. ux * dy \in Int /\ m * dx \in Int
          BY <1>1, <4>3
        <5> HIDE DEF U
        <5> QED
          BY <1>1, <4>3, <5>1, <5>2
      <4> QED
        BY <4>1, <4>2, <4>4, <4>5, <4>6
    <3> HIDE DEF exact
    <3> QED
      BY <3>6, <3>7 DEF w
  <2>4. \A n \in 0 .. dy : n \in U
    <3> HIDE DEF U
    <3> QED
      BY <1>1, <2>2, <2>3, UpToInduction
  <2> HIDE DEF exact
  <2> QED
    BY <2>4
<1>15. ASSUME NEW n \in 0 .. dy PROVE IsClose(i, n)
  <2>1. Near(n)
    <3> HIDE DEF Near
    <3> QED
      BY <1>13
  <2> DEFINE e == exact(n)
             X == f[n] * dy
             b == n * (q * dy)
  <2>2. f[n] \in Int /\ X \in Int /\ e \in Int /\ X - e <= b /\ e - X <= b
    BY <1>1, <2>1
  <2>3. b < Unit /\ b \in Int
    <3>1. n * (q * dy) <= dy * (q * dy)
      BY <1>1, <1>3
    <3>2. dy * (q * dy) = dy * dy * q /\ dy * dy * q \in Int /\ n * (q * dy) \in Int
      BY <1>1, <1>3
    <3> QED
      BY <1>1, <1>2, <3>1, <3>2
  <2>4. X - e < Unit /\ e - X < Unit
    <3> HIDE DEF X, e, b
    <3> QED
      BY <1>1, <2>2, <2>3
  <2>5. n = 0 \/ SlopeIsDouble(i) => X = e
    <3> HIDE DEF exact
    <3> QED
      BY <1>10, <1>14
  <2> QED
    BY <2>2, <2>4, <2>5 DEF IsClose, ux, lx, dy, f
<1> QED
  BY <1>9, <1>15 DEF s, dy

\* So an edge that crosses a row is a record of the right kind.
LEMMA EdgeIsRecord ==
  ASSUME call \in Calls, call.what = "fill", NEW r \in Int, NEW i \in CrossingAt(r)
  PROVE  EdgeAt(i, r) \in EdgeRecords /\ IsClose(i, r - Upper(i).y)
<1>1. i \in Indices /\ Upper(i).y <= r /\ r < Lower(i).y
  BY DEF CrossingAt
<1>2. Upper(i).y \in Int /\ Lower(i).y \in Int /\ i \in Int
  BY <1>1, EndsOfEdge DEF Points, Indices
<1>3. r - Upper(i).y \in 0 .. Lower(i).y - Upper(i).y /\ Upper(i).y < Lower(i).y
  BY <1>1, <1>2
<1>4. SlopeOf(i) \in Int /\ IsClose(i, r - Upper(i).y)
  BY <1>1, <1>3, WayIsClose
<1>5. WayOf(i)[r - Upper(i).y] \in Int
  BY <1>4 DEF IsClose
<1> QED
  BY <1>2, <1>4, <1>5 DEF EdgeAt, EdgeRecords

\* Sets whose members go in pairs are equally large.
LEMMA PairedSets ==
  ASSUME NEW S, NEW T, IsFiniteSet(S), NEW f \in [S -> T],
         \A a, b \in S : f[a] = f[b] => a = b, \A t \in T : \E a \in S : f[a] = t
  PROVE  IsFiniteSet(T) /\ Cardinality(T) = Cardinality(S)
<1>1. f \in Injection(S, T) /\ f \in Surjection(S, T)
  BY DEF Injection, IsInjective, Surjection
<1>2. ExistsBijection(S, T)
  BY <1>1 DEF ExistsBijection, Bijection
<1> QED
  BY <1>2, FS_Bijection

\* An even number of edges crosses each row: from vertex to vertex around the
\* polygon, each of them goes from above the row to below or back.
LEMMA EdgesAtAreEven ==
  ASSUME call \in Calls, call.what = "fill", Len(call.vertices) >= 3,
         NEW r \in Int
  PROVE  /\ EdgesAt(r) \in SUBSET EdgeRecords
         /\ \A e, f \in EdgesAt(r) : e.sortOrder = f.sortOrder => e = f
         /\ IsFiniteSet(EdgesAt(r)) /\ Cardinality(EdgesAt(r)) \in Nat
         /\ Cardinality(EdgesAt(r)) % 2 = 0
         /\ IsFiniteSet(CrossingAt(r))
<1> DEFINE n == Len(call.vertices)
           b == [i \in 1 .. n |-> IF From(i).y <= r THEN 1 ELSE 0]
           changes == {i \in 1 .. n : b[i] # b[(i % n) + 1]}
<1>1. n \in Nat \ {0} /\ Indices = 1 .. n
  BY RasterizerAssumption DEF Indices
<1>2. \A i \in Indices : Upper(i).y \in Int /\ Lower(i).y \in Int
  BY EndsOfEdge DEF Points
<1>4. EdgesAt(r) \in SUBSET EdgeRecords
  BY EdgeIsRecord DEF EdgesAt
<1>5. \A i : EdgeAt(i, r).sortOrder = i
  BY DEF EdgeAt
<1>6. \A e, f \in EdgesAt(r) : e.sortOrder = f.sortOrder => e = f
  BY <1>5 DEF EdgesAt
<1>7. IsFiniteSet(changes) /\ Cardinality(changes) % 2 = 0
  <2>1. b \in [1 .. n -> {0, 1}]
    OBVIOUS
  <2> HIDE DEF n, b
  <2> QED
    BY <1>1, <2>1, ChangesAreEven
<1>8. changes = CrossingAt(r)
  <2>1. ASSUME NEW i \in 1 .. n
        PROVE  b[i] # b[(i % n) + 1] <=> Upper(i).y <= r /\ r < Lower(i).y
    <3>1. (i % n) + 1 \in 1 .. n
      <4> HIDE DEF n
      <4> QED
        BY <1>1
    <3>2. To(i) = From((i % n) + 1)
      BY DEF To, From
    <3>3. /\ b[i] = IF From(i).y <= r THEN 1 ELSE 0
          /\ b[(i % n) + 1] = IF To(i).y <= r THEN 1 ELSE 0
      BY <3>1, <3>2
    <3>4. From(i).y \in Int /\ To(i).y \in Int
      BY <1>1, EndsOfEdge DEF Points
    <3> HIDE DEF n, b
    <3> QED
      BY <3>3, <3>4 DEF Upper, Lower
  <2> HIDE DEF b, n
  <2> QED
    BY <1>1, <2>1 DEF CrossingAt
<1>9. /\ IsFiniteSet(EdgesAt(r))
      /\ Cardinality(EdgesAt(r)) = Cardinality(CrossingAt(r))
  <2> DEFINE f == [i \in CrossingAt(r) |-> EdgeAt(i, r)]
  <2>1. f \in [CrossingAt(r) -> EdgesAt(r)]
    BY DEF EdgesAt
  <2>2. \A i, j \in CrossingAt(r) : f[i] = f[j] => i = j
    BY <1>5
  <2>3. \A e \in EdgesAt(r) : \E i \in CrossingAt(r) : f[i] = e
    BY DEF EdgesAt
  <2>4. IsFiniteSet(CrossingAt(r))
    BY <1>7, <1>8
  <2> HIDE DEF f
  <2> QED
    BY <2>1, <2>2, <2>3, <2>4, PairedSets
<1>10. Cardinality(EdgesAt(r)) \in Nat
  BY <1>9, FS_CardinalityType
<1> HIDE DEF changes
<1> QED
  BY <1>4, <1>6, <1>7, <1>8, <1>9, <1>10

\* How edge i passes the point (px, r), in terms of its ends.
LEMMA EdgesDownwards ==
  ASSUME call \in Calls, NEW px \in Int, NEW r \in Int, NEW i \in Indices
  PROVE  /\ i \in EdgesLeftOf(px, r)
              <=> /\ i \in CrossingAt(r)
                  /\ (px - Upper(i).x) * (Lower(i).y - Upper(i).y)
                       >= (r - Upper(i).y) * (Lower(i).x - Upper(i).x)
         /\ /\ i \in CrossingAt(r) /\ r # Upper(i).y /\ ~ SlopeIsDouble(i)
            /\ (px - Upper(i).x) * (Lower(i).y - Upper(i).y)
                 = (r - Upper(i).y) * (Lower(i).x - Upper(i).x)
            => InDoubt(px, r)
<1>1. /\ From(i).x \in Int /\ From(i).y \in Int
      /\ To(i).x \in Int /\ To(i).y \in Int
  BY EndsOfEdge DEF Points
<1>2. CASE From(i).y < To(i).y
  <2>1. Upper(i) = From(i) /\ Lower(i) = To(i)
    BY <1>2 DEF Upper, Lower
  <2>2. ~ (To(i).y <= r /\ r < From(i).y)
    BY <1>1, <1>2
  <2>3. i \in EdgesLeftOf(px, r)
          <=> /\ i \in CrossingAt(r)
              /\ (px - Upper(i).x) * (Lower(i).y - Upper(i).y)
                   >= (r - Upper(i).y) * (Lower(i).x - Upper(i).x)
    BY <2>1, <2>2 DEF EdgesLeftOf, CrossingAt
  <2>4. i \in CrossingAt(r) /\ r # Upper(i).y
          => r \in (From(i).y + 1 .. To(i).y - 1) \cup (To(i).y + 1 .. From(i).y - 1)
    BY <1>1, <2>1 DEF CrossingAt
  <2> QED
    BY <2>1, <2>3, <2>4 DEF InDoubt
<1>3. CASE ~ From(i).y < To(i).y
  <2>1. Upper(i) = To(i) /\ Lower(i) = From(i)
    BY <1>3 DEF Upper, Lower
  <2>2. ~ (From(i).y <= r /\ r < To(i).y)
    BY <1>1, <1>3
  <2>3. i \in EdgesLeftOf(px, r)
          <=> /\ i \in CrossingAt(r)
              /\ (px - Upper(i).x) * (Lower(i).y - Upper(i).y)
                   >= (r - Upper(i).y) * (Lower(i).x - Upper(i).x)
    BY <2>1, <2>2 DEF EdgesLeftOf, CrossingAt
  <2>4. i \in CrossingAt(r) /\ r # Upper(i).y
          => r \in (From(i).y + 1 .. To(i).y - 1) \cup (To(i).y + 1 .. From(i).y - 1)
    BY <1>1, <2>1 DEF CrossingAt
  <2>5. (px - Upper(i).x) * (Lower(i).y - Upper(i).y)
            = (r - Upper(i).y) * (Lower(i).x - Upper(i).x)
          => (px - From(i).x) * (To(i).y - From(i).y)
               = (r - From(i).y) * (To(i).x - From(i).x)
    <3> DEFINE ax == From(i).x
               ay == From(i).y
               bx == To(i).x
               by == To(i).y
    <3>1. ax \in Int /\ ay \in Int /\ bx \in Int /\ by \in Int
      BY <1>1
    <3> HIDE DEF ax, ay, bx, by
    <3> DEFINE u == ax - bx
               t == ay - by
               c == px - bx
               d == r - by
    <3>2. /\ c * t \in Int /\ d * u \in Int /\ u * t \in Int
          /\ (px - ax) * (by - ay) = - (c * t) + u * t
          /\ (r - ay) * (bx - ax) = - (d * u) + u * t
      <4>1. /\ u \in Int /\ t \in Int /\ c \in Int /\ d \in Int
            /\ px - ax = c - u /\ by - ay = - t /\ r - ay = d - t /\ bx - ax = - u
        BY <3>1
      <4> HIDE DEF u, t, c, d
      <4>2. (c - u) * (- t) = - (c * t) + u * t /\ (d - t) * (- u) = - (d * u) + u * t
        BY <4>1
      <4> QED
        BY <4>1, <4>2
    <3>3. c * t = d * u => (px - ax) * (by - ay) = (r - ay) * (bx - ax)
      BY <3>2
    <3> QED
      BY <2>1, <3>3 DEF ax, ay, bx, by
  <2> QED
    BY <2>3, <2>4, <2>5 DEF InDoubt
<1> QED
  BY <1>2, <1>3

\* A point that is not in doubt is on the same side of an edge with rounded x.
LEMMA SameSide ==
  ASSUME call \in Calls, call.what = "fill", NEW px \in Int, NEW r \in Int,
         ~ InDoubt(px, r)
  PROVE  EdgesLeftOf(px, r) = RoundedLeftOf(px, r)
<1>1. ASSUME NEW i \in CrossingAt(r)
      PROVE  Ceiling(EdgeAt(i, r)) <= px
               <=> (px - Upper(i).x) * (Lower(i).y - Upper(i).y)
                     >= (r - Upper(i).y) * (Lower(i).x - Upper(i).x)
  <2> DEFINE ux == Upper(i).x
             lx == Lower(i).x
             dy == Lower(i).y - Upper(i).y
             n == r - Upper(i).y
             v == WayOf(i)[n]
             e == ux * dy + n * (lx - ux)
             p == px * dy
  <2>1. /\ i \in Indices /\ Upper(i).y <= r /\ r < Lower(i).y
    BY DEF CrossingAt
  <2>2. ux \in Int /\ lx \in Int /\ Upper(i).y \in Int /\ Lower(i).y \in Int
    BY <2>1, EndsOfEdge DEF Points
  <2>3. /\ dy \in Nat \ {0} /\ n \in Nat /\ e \in Int /\ p \in Int
        /\ Unit \in Nat \ {0}
    BY <2>1, <2>2, DoublesAssumption
  <2>4. /\ v \in Int /\ v * dy - e * Unit < Unit /\ e * Unit - v * dy < Unit
        /\ n = 0 \/ SlopeIsDouble(i) => v * dy = e * Unit
    BY EdgeIsRecord DEF IsClose
  <2>5. EdgeAt(i, r).x = v
    BY DEF EdgeAt
  <2>6. Ceiling(EdgeAt(i, r)) <= px <=> v <= px * Unit
    BY <2>4, <2>5, CeilingOfEdge
  <2>7. (px - ux) * dy >= n * (lx - ux) <=> e <= p
    <3>1. (px - ux) * dy = p - ux * dy /\ ux * dy \in Int /\ n * (lx - ux) \in Int
      BY <2>2, <2>3
    <3> QED
      BY <2>3, <3>1
  <2>8. n # 0 /\ ~ SlopeIsDouble(i) => p # e
    <3>1. SUFFICES ASSUME n # 0, ~ SlopeIsDouble(i), p = e PROVE InDoubt(px, r)
      OBVIOUS
    <3>2. (px - ux) * dy = n * (lx - ux)
      <4>1. (px - ux) * dy = p - ux * dy /\ ux * dy \in Int /\ n * (lx - ux) \in Int
        BY <2>2, <2>3
      <4> QED
        BY <3>1, <4>1
    <3>3. r # Upper(i).y
      BY <2>2, <3>1
    <3> QED
      BY <2>1, <3>1, <3>2, <3>3, EdgesDownwards
  <2>9. v <= px * Unit <=> v * dy <= p * Unit
    <3>1. p * Unit = (px * Unit) * dy /\ px * Unit \in Int
      BY <2>2, <2>3
    <3> DEFINE c == px * Unit
    <3> HIDE DEF c, p, dy, v, e
    <3>2. v <= c => v * dy <= c * dy
      BY <2>3, <2>4, <3>1 DEF c
    <3>3. ~ v <= c => ~ v * dy <= c * dy
      <4>1. v > c => v * dy > c * dy
        BY <2>3, <2>4, <3>1 DEF c
      <4>2. v * dy \in Int /\ c * dy \in Int
        BY <2>3, <2>4, <3>1 DEF c
      <4> QED
        BY <2>4, <3>1, <4>1, <4>2 DEF c
    <3> QED
      BY <3>1, <3>2, <3>3 DEF c
  <2>10. v * dy <= p * Unit <=> e <= p
    <3> DEFINE V == v * dy
               P == p * Unit
               E == e * Unit
    <3>1. V \in Int /\ P \in Int /\ E \in Int
      BY <2>3, <2>4
    <3>2. e <= p => E <= P
      BY <2>3
    <3>3. e <= p - 1 => E <= P - Unit
      <4>1. (p - 1) * Unit = P - Unit
        BY <2>3
      <4>2. e <= p - 1 => e * Unit <= (p - 1) * Unit
        BY <2>3
      <4> QED
        BY <4>1, <4>2
    <3>4. e >= p + 1 => E >= P + Unit
      <4>1. (p + 1) * Unit = P + Unit
        BY <2>3
      <4>2. e >= p + 1 => e * Unit >= (p + 1) * Unit
        BY <2>3
      <4> QED
        BY <4>1, <4>2
    <3>5. /\ V - E < Unit /\ E - V < Unit /\ (n = 0 \/ SlopeIsDouble(i) => V = E)
      BY <2>4
    <3> HIDE DEF V, P, E, e, p, n, v, dy
    <3>6. V <= P <=> e <= p
      <4>1. CASE e <= p - 1
        BY <2>3, <3>1, <3>3, <3>5, <4>1
      <4>2. CASE e >= p + 1
        BY <2>3, <3>1, <3>4, <3>5, <4>2
      <4>3. CASE e = p
        BY <2>3, <2>8, <3>1, <3>2, <3>5, <4>3
      <4> QED
        BY <2>3, <4>1, <4>2, <4>3
    <3> QED
      BY <3>6 DEF V, P
  <2> QED
    BY <2>6, <2>7, <2>9, <2>10
<1>2. ASSUME NEW i \in Indices
      PROVE  i \in EdgesLeftOf(px, r) <=> i \in RoundedLeftOf(px, r)
  BY <1>1, EdgesDownwards DEF RoundedLeftOf
<1>3. \A i \in EdgesLeftOf(px, r) : i \in Indices
  BY DEF EdgesLeftOf
<1>4. \A i \in RoundedLeftOf(px, r) : i \in Indices
  BY DEF RoundedLeftOf, CrossingAt
<1> QED
  BY <1>2, <1>3, <1>4

\* A rounded x is a column of the polygon, or the next.
LEMMA CeilingIsInside ==
  ASSUME call \in Calls, call.what = "fill", Len(call.vertices) >= 3, NEW r \in Int,
         NEW i \in CrossingAt(r)
  PROVE  /\ Ceiling(EdgeAt(i, r)) \in Int
         /\ Min(Columns) <= Ceiling(EdgeAt(i, r))
         /\ Ceiling(EdgeAt(i, r)) <= Max(Columns) + 1
<1> DEFINE ux == Upper(i).x
           uy == Upper(i).y
           lx == Lower(i).x
           ly == Lower(i).y
           d == ly - uy
           t == r - uy
           n == ux * d + t * (lx - ux)
           lo == Min(Columns)
           hi == Max(Columns)
           v == WayOf(i)[t]
<1>1. i \in Indices
  BY DEF CrossingAt
<1>2. ux \in Int /\ uy \in Int /\ lx \in Int /\ ly \in Int /\ Unit \in Nat \ {0}
  BY <1>1, EndsOfEdge, DoublesAssumption DEF Points
<1>3. /\ lo \in Int /\ hi \in Int
      /\ lo <= ux /\ ux <= hi /\ lo <= lx /\ lx <= hi
  BY <1>1, EndsOfEdge, RowsAndColumns
<1>4. d \in Nat \ {0} /\ t \in 0 .. d
  BY <1>2 DEF CrossingAt
<1>5. EdgeAt(i, r).x = v /\ v \in Int /\ v * d - n * Unit < Unit /\ n * Unit - v * d < Unit
  BY EdgeIsRecord DEF IsClose, EdgeAt
<1> HIDE DEF ux, lx, d, t, lo, hi, v
<1>6. n = ux * (d - t) + lx * t
  <2>1. ux * (d - t) = ux * d - ux * t /\ t * (lx - ux) = lx * t - ux * t
    BY <1>2, <1>4
  <2>2. ux * d \in Int /\ ux * t \in Int /\ lx * t \in Int
    BY <1>2, <1>4
  <2> QED
    BY <2>1, <2>2
<1>7. n \in Int
  BY <1>2, <1>4
<1>8. \A s, a, b : s \in Nat /\ a \in Int /\ b \in Int /\ a <= b => a * s <= b * s
  OBVIOUS
<1>9. /\ lo * (d - t) <= ux * (d - t) /\ ux * (d - t) <= hi * (d - t)
      /\ lo * t <= lx * t /\ lx * t <= hi * t
  <2>1. d - t \in Nat /\ t \in Nat
    BY <1>4
  <2> QED
    BY <1>2, <1>3, <1>8, <2>1
<1>10. lo * d = lo * (d - t) + lo * t /\ hi * d = hi * (d - t) + hi * t
  BY <1>3, <1>4
<1>11. lo * d <= n /\ n <= hi * d
  <2>1. /\ lo * (d - t) \in Int /\ lo * t \in Int /\ hi * (d - t) \in Int
        /\ hi * t \in Int /\ ux * (d - t) \in Int /\ lx * t \in Int
    BY <1>2, <1>3, <1>4
  <2> QED
    BY <1>6, <1>9, <1>10, <2>1
<1> HIDE DEF n
<1>12. (lo - 1) * Unit < v /\ v < (hi + 1) * Unit
  <2> DEFINE V == v * d
             N == n * Unit
             L == (lo * Unit) * d
             H == (hi * Unit) * d
  <2>1. V \in Int /\ N \in Int /\ L \in Int /\ H \in Int
    BY <1>2, <1>3, <1>4, <1>5, <1>7
  <2>2. L <= N /\ N <= H
    <3>1. lo * d \in Int /\ hi * d \in Int
      BY <1>3, <1>4
    <3>2. (lo * d) * Unit <= n * Unit /\ n * Unit <= (hi * d) * Unit
      BY <1>2, <1>7, <1>8, <1>11, <3>1
    <3>3. (lo * d) * Unit = L /\ (hi * d) * Unit = H
      BY <1>2, <1>3, <1>4
    <3> QED
      BY <3>2, <3>3
  <2>3. Unit <= Unit * d /\ Unit * d \in Int
    BY <1>2, <1>4
  <2>4. ((lo - 1) * Unit) * d = L - Unit * d /\ ((hi + 1) * Unit) * d = H + Unit * d
    <3>1. (lo - 1) * Unit = lo * Unit - Unit /\ (hi + 1) * Unit = hi * Unit + Unit
      BY <1>2, <1>3
    <3>2. lo * Unit \in Int /\ hi * Unit \in Int
      BY <1>2, <1>3
    <3> DEFINE a == lo * Unit
               b == hi * Unit
    <3> HIDE DEF a, b
    <3>3. (a - Unit) * d = a * d - Unit * d /\ (b + Unit) * d = b * d + Unit * d
      BY <1>2, <1>4, <3>2 DEF a, b
    <3> QED
      BY <3>1, <3>3 DEF a, b
  <2>5. ((lo - 1) * Unit) * d < V /\ V < ((hi + 1) * Unit) * d
    <3> HIDE DEF N, L, H
    <3>1. V - N < Unit /\ N - V < Unit
      BY <1>5 DEF N
    <3> HIDE DEF V
    <3> QED
      BY <1>2, <2>1, <2>2, <2>3, <2>4, <3>1
  <2>6. \A a, b \in Int : a * d < b * d => a < b
    <3>1. \A a, b \in Int : b <= a => b * d <= a * d
      BY <1>4, <1>8
    <3>2. \A a, b \in Int : a * d \in Int /\ b * d \in Int
      BY <1>4
    <3> QED
      BY <3>1, <3>2
  <2>7. (lo - 1) * Unit \in Int /\ (hi + 1) * Unit \in Int
    BY <1>2, <1>3
  <2> QED
    BY <1>5, <2>5, <2>6, <2>7
<1> DEFINE c == Ceiling(EdgeAt(i, r))
<1>13. c \in Int /\ (c <= hi + 1 <=> v <= (hi + 1) * Unit)
                 /\ (c <= lo - 1 <=> v <= (lo - 1) * Unit)
  <2> DEFINE l == lo - 1
             h == hi + 1
  <2>1. l \in Int /\ h \in Int
    BY <1>3
  <2> HIDE DEF l, h
  <2>2. c \in Int /\ (c <= h <=> v <= h * Unit)
    BY <1>5, <2>1, CeilingOfEdge
  <2>3. c <= l <=> v <= l * Unit
    BY <1>5, <2>1, CeilingOfEdge
  <2> QED
    BY <2>2, <2>3 DEF l, h
<1> HIDE DEF c
<1>14. c \in Int /\ lo <= c /\ c <= hi + 1
  <2>1. (lo - 1) * Unit \in Int /\ (hi + 1) * Unit \in Int
    BY <1>2, <1>3
  <2> QED
    BY <1>3, <1>5, <1>12, <1>13, <2>1
<1> QED
  BY <1>14 DEF c, lo, hi

\* Along Less the rounded x does not decrease either.
LEMMA LessGoesRight ==
  ASSUME NEW e \in EdgeRecords, NEW f \in EdgeRecords, Less(e, f)
  PROVE  Ceiling(e) \in Int /\ Ceiling(f) \in Int /\ Ceiling(e) <= Ceiling(f)
<1>1. e.x \in Int /\ f.x \in Int /\ e.x <= f.x
  BY LessIsOrder DEF EdgeRecords
<1> DEFINE p == Ceiling(f)
<1>2. p \in Int
  BY <1>1, CeilingOfEdge
<1> HIDE DEF p
<1>3. f.x <= p * Unit /\ p * Unit \in Int
  <2>1. p <= p <=> f.x <= p * Unit
    BY <1>1, <1>2, CeilingOfEdge DEF p
  <2> QED
    BY <1>2, <2>1, DoublesAssumption
<1>4. Ceiling(e) \in Int /\ Ceiling(e) <= p
  BY <1>1, <1>2, <1>3, CeilingOfEdge
<1> QED
  BY <1>2, <1>4 DEF p

\* The active edges of a row: an even number of them, from left to right, and
\* as many up to a point as the polygon has rounded edges there.
ActiveInOrder ==
  /\ Len(active) \in Nat /\ Len(active) % 2 = 0
  /\ DOMAIN active = 1 .. Len(active)
  /\ Range(active) = EdgesAt(row)
  /\ \A k \in 1 .. Len(active) :
       /\ Ceiling(active[k]) \in Int
       /\ Min(Columns) <= Ceiling(active[k])
       /\ Ceiling(active[k]) <= Max(Columns) + 1
  /\ \A k, l \in 1 .. Len(active) : k < l => Ceiling(active[k]) <= Ceiling(active[l])
  /\ \A px \in Int :
       /\ ActiveLeftOf(px) \in 0 .. Len(active)
       /\ {k \in 1 .. Len(active) : Ceiling(active[k]) <= px} = 1 .. ActiveLeftOf(px)
       /\ ActiveLeftOf(px) = Cardinality(RoundedLeftOf(px, row))

\* They are so once they are sorted.
LEMMA ActiveEdges ==
  call \in Calls /\ call.what = "fill" /\ Len(call.vertices) >= 3 /\ row \in Int
    /\ active = Sorted(EdgesAt(row))
  => ActiveInOrder
<1> SUFFICES ASSUME call \in Calls, call.what = "fill", Len(call.vertices) >= 3,
                    row \in Int, active = Sorted(EdgesAt(row))
             PROVE  ActiveInOrder
  OBVIOUS
<1> DEFINE S == EdgesAt(row)
           n == Cardinality(S)
<1>1. /\ S \in SUBSET EdgeRecords
      /\ \A e, f \in S : e.sortOrder = f.sortOrder => e = f
      /\ IsFiniteSet(S) /\ n \in Nat /\ n % 2 = 0
  BY EdgesAtAreEven
<1>2. InOrder(active, S)
  <2> HIDE DEF S
  <2> QED
    BY <1>1, SortedIsInOrder DEF S
<1> HIDE DEF S, n
<1>3. /\ active \in [1 .. n -> S]
      /\ \A e \in S : \E k \in 1 .. n : active[k] = e
      /\ \A k, l \in 1 .. n : k < l => active[k] # active[l] /\ Less(active[k], active[l])
  BY <1>2 DEF InOrder, n
<1>4. Len(active) = n /\ DOMAIN active = 1 .. n
  <2>1. active \in Seq(S)
    BY <1>1, <1>3
  <2> QED
    BY <1>1, <1>3, <2>1
<1>5. Range(active) = S
  BY <1>3 DEF Range
<1>6. ASSUME NEW k \in 1 .. n
      PROVE  \E i \in CrossingAt(row) : active[k] = EdgeAt(i, row) /\ active[k].sortOrder = i
  <2>1. active[k] \in S
    BY <1>3
  <2>2. PICK i \in CrossingAt(row) : active[k] = EdgeAt(i, row)
    BY <2>1 DEF S, EdgesAt
  <2> QED
    BY <2>2 DEF EdgeAt
<1>7. ASSUME NEW k \in 1 .. n
      PROVE  /\ Ceiling(active[k]) \in Int
             /\ Min(Columns) <= Ceiling(active[k])
             /\ Ceiling(active[k]) <= Max(Columns) + 1
  BY <1>6, CeilingIsInside
<1>8. ASSUME NEW k \in 1 .. n, NEW l \in 1 .. n, k < l
      PROVE  Ceiling(active[k]) <= Ceiling(active[l])
  <2>1. /\ active[k] \in EdgeRecords /\ active[l] \in EdgeRecords
        /\ Less(active[k], active[l])
    BY <1>1, <1>3, <1>8
  <2> QED
    BY <2>1, LessGoesRight
<1>9. ASSUME NEW px \in Int
      PROVE  /\ ActiveLeftOf(px) \in 0 .. n
             /\ {k \in 1 .. n : Ceiling(active[k]) <= px} = 1 .. ActiveLeftOf(px)
             /\ ActiveLeftOf(px) = Cardinality(RoundedLeftOf(px, row))
  <2> DEFINE c == [k \in 1 .. n |-> Ceiling(active[k])]
             L == {k \in 1 .. n : Ceiling(active[k]) <= px}
             T == RoundedLeftOf(px, row)
             f == [k \in L |-> active[k].sortOrder]
  <2>1. \E m \in 0 .. n : {k \in 1 .. n : c[k] <= px} = 1 .. m
    <3>1. c \in [1 .. n -> Int] /\ \A k, l \in 1 .. n : k < l => c[k] <= c[l]
      BY <1>7, <1>8
    <3> HIDE DEF c
    <3>2. FirstOnes(n, c, px)
      BY <1>1, <3>1, FirstOnesAreLeft
    <3> QED
      BY <3>2 DEF FirstOnes
  <2>2. {k \in 1 .. n : c[k] <= px} = L
    OBVIOUS
  <2>3. PICK m \in 0 .. n : L = 1 .. m
    <3> HIDE DEF c, L
    <3> QED
      BY <2>1, <2>2
  <2>4. IsFiniteSet(L) /\ Cardinality(L) = m
    <3>1. m \in Nat /\ 1 \in Int /\ m \in Int
      BY <1>1
    <3> HIDE DEF L
    <3>2. IsFiniteSet(1 .. m) /\ Cardinality(1 .. m) = IF 1 > m THEN 0 ELSE m - 1 + 1
      BY <3>1, FS_Interval
    <3> QED
      BY <2>3, <3>1, <3>2
  <2>5. ActiveLeftOf(px) = m
    <3>1. ActiveLeftOf(px) = Cardinality(L)
      BY <1>4 DEF ActiveLeftOf
    <3> QED
      BY <2>4, <3>1
  <2>6. f \in [L -> T]
    <3>1. ASSUME NEW k \in L PROVE active[k].sortOrder \in T
      <4>1. PICK i \in CrossingAt(row) :
               active[k] = EdgeAt(i, row) /\ active[k].sortOrder = i
        BY <1>6
      <4>2. i \in Indices /\ Ceiling(EdgeAt(i, row)) <= px
        BY <4>1 DEF CrossingAt
      <4> QED
        BY <4>1, <4>2 DEF RoundedLeftOf
    <3> QED
      BY <3>1
  <2>7. \A a, b \in L : f[a] = f[b] => a = b
    <3>1. TAKE a, b \in L
    <3>2. a \in 1 .. n /\ b \in 1 .. n /\ a \in Int /\ b \in Int
      OBVIOUS
    <3>3. active[a] \in S /\ active[b] \in S
      BY <1>3, <3>2
    <3>4. f[a] = active[a].sortOrder /\ f[b] = active[b].sortOrder
      OBVIOUS
    <3> HIDE DEF f, L
    <3>5. f[a] = f[b] => active[a] = active[b]
      BY <1>1, <3>3, <3>4
    <3>6. active[a] = active[b] => a = b
      BY <1>3, <3>2
    <3> QED
      BY <3>5, <3>6
  <2>8. \A t \in T : \E a \in L : f[a] = t
    <3>1. TAKE t \in T
    <3>3. t \in CrossingAt(row) /\ Ceiling(EdgeAt(t, row)) <= px
      BY DEF RoundedLeftOf
    <3>4. EdgeAt(t, row) \in S
      BY <3>3 DEF S, EdgesAt
    <3>5. PICK a \in 1 .. n : active[a] = EdgeAt(t, row)
      BY <1>3, <3>4
    <3>6. a \in L /\ f[a] = t
      BY <3>3, <3>5 DEF EdgeAt
    <3> QED
      BY <3>6
  <2>9. Cardinality(T) = m
    <3> HIDE DEF f, L, T
    <3> QED
      BY <2>4, <2>6, <2>7, <2>8, PairedSets
  <2> QED
    BY <2>3, <2>5, <2>9
<1> QED
  BY <1>1, <1>4, <1>5, <1>7, <1>8, <1>9 DEF S, n, ActiveInOrder

\* An edge and its way are the same in every step.
LEMMA WaysStay ==
  ASSUME UNCHANGED call
  PROVE  \A i : /\ Upper(i)' = Upper(i) /\ Lower(i)' = Lower(i)
               /\ SlopeOf(i)' = SlopeOf(i) /\ WayOf(i)' = WayOf(i)
<1>1. \A i : Upper(i)' = Upper(i) /\ Lower(i)' = Lower(i)
  BY DEF Upper, Lower, From, To
<1>2. \A i : SlopeOf(i)' = SlopeOf(i)
  BY <1>1 DEF SlopeOf, Rounded
<1>3. \A i, f, n : IsWay(i, f, n)' = IsWay(i, f, n)
  BY <1>1, <1>2 DEF IsWay, Rounded
<1>4. \A i : WayOf(i)' = WayOf(i)
  BY <1>1, <1>3 DEF WayOf
<1> QED
  BY <1>1, <1>2, <1>4

\* A polygon is the same in every step.
LEMMA PolygonStays ==
  ASSUME UNCHANGED call
  PROVE  /\ Indices' = Indices /\ Rows' = Rows /\ Columns' = Columns
         /\ \A r : CrossedAbove(r)' = CrossedAbove(r)
         /\ \A r : EdgesAt(r)' = EdgesAt(r)
         /\ \A i, r : EdgeAt(i, r)' = EdgeAt(i, r)
         /\ \A px, py : RoundedInside(px, py)' = RoundedInside(px, py)
         /\ FillEdges' = FillEdges
<1>1. /\ Indices' = Indices
      /\ \A i : From(i)' = From(i) /\ To(i)' = To(i)
  BY DEF Indices, From, To
<1>2. \A i : Upper(i)' = Upper(i) /\ Lower(i)' = Lower(i)
  BY WaysStay
<1>3. Rows' = Rows /\ Columns' = Columns
  BY <1>1 DEF Rows, Columns
<1>4. \A i, r : EdgeAt(i, r)' = EdgeAt(i, r)
  BY WaysStay DEF EdgeAt
<1>5. \A r : CrossedAbove(r)' = CrossedAbove(r) /\ CrossingAt(r)' = CrossingAt(r)
  BY <1>1, <1>2 DEF CrossedAbove, CrossingAt
<1>6. \A r : EdgesAt(r)' = EdgesAt(r)
  BY <1>4, <1>5 DEF EdgesAt
<1>7. \A px, py : RoundedInside(px, py)' = RoundedInside(px, py)
  <2>1. \A px, py : RoundedLeftOf(px, py)' = RoundedLeftOf(px, py)
    BY <1>4, <1>5 DEF RoundedLeftOf, Ceiling
  <2> QED
    BY <2>1 DEF RoundedInside
<1>8. FillEdges' = FillEdges
  BY DEF FillEdges, From, To, Indices, Rounded
<1> QED
  BY <1>1, <1>3, <1>4, <1>5, <1>6, <1>7, <1>8

\* And so is what crosses a row while it is the same row.
LEMMA SameRow ==
  ASSUME UNCHANGED <<call, row>>
  PROVE  EdgesAt(row)' = EdgesAt(row) /\ \A i : EdgeAt(i, row)' = EdgeAt(i, row)
<1>1. Indices' = Indices
  BY DEF Indices
<1>2. \A i : /\ Upper(i)' = Upper(i) /\ Lower(i)' = Lower(i)
             /\ SlopeOf(i)' = SlopeOf(i) /\ WayOf(i)' = WayOf(i)
  BY WaysStay
<1>3. \A i : EdgeAt(i, row)' = EdgeAt(i, row)
  BY <1>1, <1>2 DEF EdgeAt
<1>4. CrossingAt(row)' = CrossingAt(row)
  BY <1>1, <1>2 DEF CrossingAt
<1> QED
  BY <1>3, <1>4 DEF EdgesAt

\* The spans that hold a point are finitely many.
LEMMA HoldingIsFinite ==
  ASSUME spans \in Seq(Spans), NEW px, NEW py
  PROVE  IsFiniteSet(SpansHolding(px, py)) /\ Cardinality(SpansHolding(px, py)) \in Nat
<1>1. Len(spans) \in Nat
  OBVIOUS
<1>2. IsFiniteSet(1 .. Len(spans))
  BY <1>1, FS_Interval
<1>3. SpansHolding(px, py) \in SUBSET (1 .. Len(spans))
  BY DEF SpansHolding
<1> QED
  BY <1>2, <1>3, FS_Subset, FS_CardinalityType

\* One more span counts for the points that it holds.
LEMMA HoldingOneMore ==
  ASSUME spans \in Seq(Spans), NEW s \in Spans, spans' = Append(spans, s),
         NEW px, NEW py
  PROVE  Cardinality(SpansHolding(px, py)')
           = IF s.y = py /\ s.xStart <= px /\ px < s.xEndExclusive
               THEN Cardinality(SpansHolding(px, py)) + 1
               ELSE Cardinality(SpansHolding(px, py))
<1> DEFINE n == Len(spans)
           old == SpansHolding(px, py)
           new == SpansHolding(px, py)'
           holds == s.y = py /\ s.xStart <= px /\ px < s.xEndExclusive
<1>1. /\ n \in Nat /\ Len(spans') = n + 1
      /\ \A k \in 1 .. n : spans'[k] = spans[k]
      /\ spans'[n + 1] = s
  OBVIOUS
<1>2. n + 1 \notin old
  BY <1>1 DEF SpansHolding
<1>3. new = {k \in 1 .. n + 1 : /\ spans'[k].y = py
                               /\ spans'[k].xStart <= px
                               /\ px < spans'[k].xEndExclusive}
  BY <1>1 DEF SpansHolding
<1>4. new = IF holds THEN old \cup {n + 1} ELSE old
  <2>1. \A k \in 1 .. n : k \in new <=> k \in old
    BY <1>1, <1>3 DEF SpansHolding
  <2>2. n + 1 \in new <=> holds
    BY <1>1, <1>3
  <2>3. new \subseteq 1 .. n + 1 /\ old \subseteq 1 .. n
    BY <1>3 DEF SpansHolding
  <2>4. \A k \in 1 .. n + 1 : k \in 1 .. n \/ k = n + 1
    BY <1>1
  <2>5. n + 1 \notin 1 .. n /\ n + 1 \in 1 .. n + 1 /\ \A k \in 1 .. n : k \in 1 .. n + 1
    BY <1>1
  <2> DEFINE N == 1 .. n
             M == 1 .. n + 1
             e == n + 1
  <2>6. /\ \A k \in N : k \in new <=> k \in old
        /\ e \in new <=> holds
        /\ \A k \in new : k \in M
        /\ \A k \in old : k \in N
        /\ \A k \in M : k \in N \/ k = e
        /\ e \notin N
    BY <2>1, <2>2, <2>3, <2>4, <2>5
  <2> HIDE DEF new, old, holds, N, M, e
  <2>7. CASE holds
    <3>1. new = old \cup {e}
      BY <2>6, <2>7
    <3> QED
      BY <2>7, <3>1 DEF e
  <2>8. CASE ~ holds
    <3>1. new = old
      BY <2>6, <2>8
    <3> QED
      BY <2>8, <3>1
  <2> QED
    BY <2>7, <2>8
<1>5. IsFiniteSet(old)
  BY HoldingIsFinite
<1> HIDE DEF old, new, holds, n
<1>6. Cardinality(old \cup {n + 1}) = Cardinality(old) + 1
  BY <1>2, <1>5, FS_AddElement
<1>7. Cardinality(new) = IF holds THEN Cardinality(old) + 1 ELSE Cardinality(old)
  BY <1>4, <1>6
<1> QED
  BY <1>7 DEF old, new, holds

\* A polygon begins to be filled, or is none.
LEMMA FillBegins ==
  ASSUME Init, call.what = "fill" PROVE FillStateOK /\ FillInv
<1>1. MinVertices = 3
  BY DEF MinVertices
<1>2. call \in Calls /\ Len(call.vertices) \in Nat
  BY RasterizerAssumption DEF Init
<1>3. \/ at = "done" /\ Len(call.vertices) < 3
      \/ at = "prepare" /\ Len(call.vertices) >= 3
  BY <1>1, <1>2 DEF Init
<1>4. active = <<>> /\ spans = <<>>
  BY DEF Init
<1> QED
  BY <1>2, <1>3, <1>4 DEF FillStateOK, FillInv

\* The first row has no row above.
LEMMA PrepareKeepsFillInv ==
  ASSUME FillStateOK, FillInv, PrepareFill PROVE FillStateOK' /\ FillInv'
<1>1. /\ at = "prepare" /\ at' = "row" /\ row' = Min(Rows) /\ buckets' = FillEdges
      /\ UNCHANGED <<call, active, spans>> /\ active = <<>> /\ spans = <<>>
      /\ call \in Calls /\ Len(call.vertices) >= 3 /\ call.what = "fill"
  BY DEF PrepareFill, FillStateOK, FillInv
<1>2. /\ Min(Rows) \in Int /\ Max(Rows) \in Int
      /\ \A r \in Rows : r \in Int /\ Min(Rows) <= r /\ r <= Max(Rows)
      /\ Rows # {}
  BY <1>1, RowsAndColumns
<1>3. Min(Rows) \in Min(Rows) .. Max(Rows) + 1
  <2>1. Min(Rows) <= Max(Rows)
    BY <1>2
  <2> QED
    BY <1>2, <2>1
<1>4. CrossedAbove(Min(Rows)) = {}
  <2>1. \A i \in Indices : Upper(i).y \in Rows
    BY <1>1, EndsOfEdge
  <2>2. \A i \in Indices : Upper(i).y \in Int /\ Min(Rows) <= Upper(i).y
    BY <1>2, <2>1
  <2> QED
    BY <1>2, <2>2 DEF CrossedAbove
<1>5. Range(active) = {}
  BY <1>1 DEF Range
<1>6. /\ Rows' = Rows /\ Columns' = Columns
      /\ \A r : CrossedAbove(r)' = CrossedAbove(r)
      /\ FillEdges' = FillEdges
  BY <1>1, PolygonStays
<1>7. CrossedAbove(row)' = {}
  <2>1. CrossedAbove(row)' = CrossedAbove(Min(Rows))
    BY <1>1 DEF CrossedAbove, Indices, Upper, Lower, From, To
  <2> QED
    BY <1>4, <2>1
<1>8. (Range(active) = {EdgeAt(i, row) : i \in CrossedAbove(row)})'
  <2>1. Range(active)' = {}
    BY <1>1, <1>5 DEF Range
  <2> QED
    BY <1>7, <2>1
<1>9. SpansAbove(row)'
  BY <1>1 DEF SpansAbove
<1>10. FilledAbove(row)'
  BY <1>1, <1>2, <1>6 DEF FilledAbove
<1>11. row' \in Min(Rows)' .. Max(Rows)' + 1
  BY <1>1, <1>3, <1>6
<1>12. FillStateOK'
  BY <1>1 DEF FillStateOK
<1> QED
  BY <1>1, <1>6, <1>8, <1>9, <1>10, <1>11, <1>12 DEF FillInv

\* A row begins with the edges that cross it, in order, and none of its points
\* filled.
LEMMA BeginRowKeepsFillInv ==
  ASSUME FillStateOK, FillInv, BeginRow PROVE FillStateOK' /\ FillInv'
<1>1. /\ at = "row" /\ at' = "spans" /\ row <= Max(Rows)
      /\ active' = Sorted(Crossed) /\ left' = 1
      /\ UNCHANGED <<call, buckets, row, spans>>
      /\ call \in Calls /\ Len(call.vertices) >= 3 /\ call.what = "fill"
  BY DEF BeginRow, FillStateOK
<1>2. /\ buckets = FillEdges /\ row \in Min(Rows) .. Max(Rows) + 1
      /\ Range(active) = {EdgeAt(i, row) : i \in CrossedAbove(row)}
      /\ SpansAbove(row) /\ FilledAbove(row)
  BY <1>1 DEF FillInv
<1>3. Min(Rows) \in Int /\ Max(Rows) \in Int
  BY <1>1, RowsAndColumns
<1>4. row \in Int /\ row \in Min(Rows) .. Max(Rows)
  BY <1>1, <1>2, <1>3
<1>5. /\ Rows' = Rows /\ Columns' = Columns
      /\ \A r : EdgesAt(r)' = EdgesAt(r)
      /\ \A px, py : RoundedInside(px, py)' = RoundedInside(px, py)
      /\ FillEdges' = FillEdges
  BY <1>1, PolygonStays
<1>6. active' = Sorted(EdgesAt(row))
  BY <1>1, <1>2, <1>4, CrossedAreEdgesAt
<1>7. EdgesAt(row)' = EdgesAt(row)
  BY <1>1, SameRow
<1>8. (active = Sorted(EdgesAt(row)))'
  BY <1>6, <1>7 DEF Sorted
<1>9. ActiveInOrder'
  <2>1. (call \in Calls /\ call.what = "fill" /\ Len(call.vertices) >= 3
           /\ row \in Int /\ active = Sorted(EdgesAt(row)) => ActiveInOrder)'
    BY ActiveEdges, PTL
  <2>2. (call \in Calls /\ call.what = "fill" /\ Len(call.vertices) >= 3 /\ row \in Int)'
    BY <1>1, <1>4
  <2> QED
    BY <1>8, <2>1, <2>2
<1>10. Len(active)' \in Nat /\ \A px \in Int : ActiveLeftOf(px)' \in Nat
  <2>1. /\ Len(active)' \in Nat
        /\ \A px \in Int : ActiveLeftOf(px)' \in 0 .. Len(active)'
    BY <1>9 DEF ActiveInOrder
  <2> QED
    BY <2>1
<1>11. (left \in 1 .. Len(active) + 1 /\ left % 2 = 1)'
  BY <1>1, <1>10
<1>12. SpansAbove(row + 1)'
  <2>1. \A k \in 1 .. Len(spans) : spans[k].y \in Int /\ spans[k].y < row + 1
    <3>1. TAKE k \in 1 .. Len(spans)
    <3>2. spans[k] \in Spans /\ spans[k].y < row
      BY <1>2 DEF SpansAbove
    <3>3. spans[k].y \in Int
      BY <3>2 DEF Spans
    <3> QED
      BY <1>4, <3>2, <3>3
  <2>2. SpansAbove(row + 1)
    BY <1>2, <2>1 DEF SpansAbove
  <2> QED
    BY <1>1, <1>5, <2>2 DEF SpansAbove
<1>13. \A px, py : SpansHolding(px, py)' = SpansHolding(px, py)
  BY <1>1 DEF SpansHolding
<1>14. FilledAbove(row)'
  BY <1>1, <1>2, <1>5, <1>13 DEF FilledAbove
<1>15. FilledLeft'
  <2>1. ASSUME NEW px \in Int
        PROVE  Cardinality(SpansHolding(px, row)') = 0
    <3>1. \A k \in 1 .. Len(spans) : spans[k].y # row
      BY <1>2, <1>4 DEF SpansAbove, Spans
    <3>2. SpansHolding(px, row) = {}
      BY <3>1 DEF SpansHolding
    <3>3. SpansHolding(px, row)' = {}
      BY <1>1, <3>2 DEF SpansHolding
    <3> QED
      BY <3>3, FS_EmptySet
  <2>2. ASSUME NEW px \in Int
        PROVE  ~ (ActiveLeftOf(px)' % 2 = 1 /\ ActiveLeftOf(px)' < left')
    <3>1. ActiveLeftOf(px)' \in Nat
      BY <1>10
    <3> QED
      BY <1>1, <3>1
  <2> QED
    BY <2>1, <2>2 DEF FilledLeft
<1>16. FillStateOK'
  BY <1>1 DEF FillStateOK
<1>17. row' \in Min(Rows)' .. Max(Rows)' /\ (buckets = FillEdges)'
  BY <1>1, <1>2, <1>4, <1>5
<1> QED
  BY <1>1, <1>8, <1>11, <1>12, <1>14, <1>15, <1>16, <1>17 DEF FillInv

\* A row is left when all of its points are filled.
LEMMA LeaveRowKeepsFillInv ==
  ASSUME FillStateOK, FillInv, LeaveRow PROVE FillStateOK' /\ FillInv'
<1>1. /\ at = "spans" /\ at' = "row" /\ left >= Len(active)
      /\ active' = [k \in DOMAIN active |-> Advanced(active[k])]
      /\ row' = row + 1 /\ UNCHANGED <<call, buckets, spans>>
      /\ call \in Calls /\ Len(call.vertices) >= 3 /\ call.what = "fill"
  BY DEF LeaveRow, FillStateOK
<1>2. /\ buckets = FillEdges /\ row \in Min(Rows) .. Max(Rows)
      /\ active = Sorted(EdgesAt(row))
      /\ left \in 1 .. Len(active) + 1 /\ left % 2 = 1
      /\ SpansAbove(row + 1) /\ FilledAbove(row) /\ FilledLeft
  BY <1>1 DEF FillInv
<1>3. Min(Rows) \in Int /\ Max(Rows) \in Int
  BY <1>1, RowsAndColumns
<1>4. row \in Int /\ row + 1 \in Min(Rows) .. Max(Rows) + 1
  BY <1>2, <1>3
<1>5. /\ Rows' = Rows /\ Columns' = Columns
      /\ \A r : CrossedAbove(r)' = CrossedAbove(r)
      /\ \A i, r : EdgeAt(i, r)' = EdgeAt(i, r)
      /\ \A px, py : RoundedInside(px, py)' = RoundedInside(px, py)
      /\ FillEdges' = FillEdges
  BY <1>1, PolygonStays
<1>6. ActiveInOrder
  BY <1>1, <1>2, <1>4, ActiveEdges
<1>7. Len(active) \in Nat /\ left = Len(active) + 1
  <2>1. Len(active) \in Nat /\ Len(active) % 2 = 0
    BY <1>6 DEF ActiveInOrder
  <2> DEFINE n == Len(active)
  <2> HIDE DEF n
  <2>2. n \in Nat /\ n % 2 = 0 /\ left \in 1 .. n + 1 /\ left % 2 = 1 /\ left >= n
    BY <1>1, <1>2, <2>1 DEF n
  <2>3. left = n + 1
    BY <2>2
  <2> QED
    BY <2>1, <2>3 DEF n
<1>8. Range(active') = {EdgeAt(i, row + 1) : i \in CrossedAbove(row + 1)}
  <2>1. Range(active') = {Advanced(e) : e \in Range(active)}
    BY <1>1 DEF Range
  <2>2. Range(active) = EdgesAt(row)
    BY <1>6 DEF ActiveInOrder
  <2> QED
    BY <1>1, <1>4, <2>1, <2>2, AdvancedCrossedAbove
<1>9. (Range(active) = {EdgeAt(i, row) : i \in CrossedAbove(row)})'
  <2>1. Range(active)' = Range(active')
    BY DEF Range
  <2>2. CrossedAbove(row)' = CrossedAbove(row + 1)
    BY <1>1 DEF CrossedAbove, Indices, Upper, Lower, From, To
  <2>3. \A i : EdgeAt(i, row)' = EdgeAt(i, row + 1)
    BY <1>1, WaysStay DEF EdgeAt
  <2> QED
    BY <1>8, <2>1, <2>2, <2>3
<1>10. SpansAbove(row)'
  BY <1>1, <1>2, <1>5 DEF SpansAbove
<1>11. \A px, py : SpansHolding(px, py)' = SpansHolding(px, py)
  BY <1>1 DEF SpansHolding
<1>12. FilledAbove(row + 1)
  <2> SUFFICES ASSUME NEW px \in Int, NEW py \in Int, Min(Rows) <= py, py < row + 1
               PROVE  Cardinality(SpansHolding(px, py))
                        = IF RoundedInside(px, py) THEN 1 ELSE 0
    BY DEF FilledAbove
  <2>1. CASE py < row
    BY <1>2, <2>1 DEF FilledAbove
  <2>2. CASE py = row
    <3>1. /\ ActiveLeftOf(px) \in 0 .. Len(active)
          /\ ActiveLeftOf(px) = Cardinality(RoundedLeftOf(px, row))
      BY <1>6 DEF ActiveInOrder
    <3>2. ActiveLeftOf(px) < left
      BY <1>7, <3>1
    <3>3. Cardinality(SpansHolding(px, row)) = IF ActiveLeftOf(px) % 2 = 1 THEN 1 ELSE 0
      BY <1>2, <3>2 DEF FilledLeft
    <3>4. RoundedInside(px, row) <=> ActiveLeftOf(px) % 2 = 1
      BY <3>1 DEF RoundedInside
    <3> QED
      BY <2>2, <3>3, <3>4
  <2> QED
    BY <1>4, <2>1, <2>2
<1>13. FilledAbove(row)'
  BY <1>1, <1>5, <1>11, <1>12 DEF FilledAbove
<1>14. FillStateOK'
  BY <1>1 DEF FillStateOK
<1>15. row' \in Min(Rows)' .. Max(Rows)' + 1 /\ (buckets = FillEdges)'
  BY <1>1, <1>2, <1>4, <1>5
<1> QED
  BY <1>1, <1>9, <1>10, <1>13, <1>14, <1>15 DEF FillInv

\* The smaller and the larger of two numbers.
LEMMA MinMaxOfTwo ==
  ASSUME NEW a \in Int, NEW b \in Int, a <= b
  PROVE  Min({a, b}) = a /\ Max({a, b}) = b
<1> DEFINE S == {a, b}
<1>1. a \in S /\ b \in S /\ \A s \in S : s \in Int /\ a <= s /\ s <= b
  OBVIOUS
<1> HIDE DEF S
<1>2. Min(S) \in S /\ Min(S) <= a
  BY <1>1 DEF Min
<1>3. Max(S) \in S /\ b <= Max(S)
  BY <1>1 DEF Max
<1>4. Min(S) = a /\ Max(S) = b
  <2>1. \A i, j \in Int : i <= j /\ j <= i => i = j
    OBVIOUS
  <2>2. /\ Min(S) \in Int /\ a <= Min(S) /\ Min(S) <= a
        /\ Max(S) \in Int /\ Max(S) <= b /\ b <= Max(S)
    BY <1>1, <1>2, <1>3
  <2> QED
    BY <2>1, <2>2
<1> QED
  BY <1>4 DEF S

\* What the next span holds: the points with exactly left edges before them.
LEMMA SpanBetweenEdges ==
  ASSUME ActiveInOrder, row \in Int, left \in 1 .. Len(active) + 1, left % 2 = 1,
         left < Len(active)
  PROVE  LET lo == Ceiling(active[left])
             hi == Ceiling(active[left + 1])
         IN  /\ lo \in Int /\ hi \in Int /\ lo <= hi
             /\ Min({lo, hi}) = lo /\ Max({lo, hi}) = hi
             /\ Min(Columns) <= lo /\ hi <= Max(Columns) + 1
             /\ left + 2 \in 1 .. Len(active) + 1 /\ (left + 2) % 2 = 1
             /\ \A px \in Int : lo <= px /\ px < hi <=> ActiveLeftOf(px) = left
<1> DEFINE n == Len(active)
           lo == Ceiling(active[left])
           hi == Ceiling(active[left + 1])
<1>1. n \in Nat /\ n % 2 = 0
  BY DEF ActiveInOrder
<1>2. left \in 1 .. n /\ left + 1 \in 1 .. n /\ left < left + 1 /\ left \in Int
  BY <1>1
<1>3. left + 2 \in 1 .. n + 1 /\ (left + 2) % 2 = 1
  <2> HIDE DEF n
  <2>1. left + 2 <= n + 1
    BY <1>1 DEF n
  <2>2. (left + 2) % 2 = 1
    BY <1>2
  <2> QED
    BY <1>1, <1>2, <2>1, <2>2
<1>4. /\ lo \in Int /\ hi \in Int /\ lo <= hi
      /\ Min(Columns) <= lo /\ hi <= Max(Columns) + 1
  BY <1>2 DEF ActiveInOrder
<1>5. ASSUME NEW px \in Int
      PROVE  lo <= px /\ px < hi <=> ActiveLeftOf(px) = left
  <2> DEFINE m == ActiveLeftOf(px)
  <2>1. m \in Nat /\ {k \in 1 .. n : Ceiling(active[k]) <= px} = 1 .. m
    <3>1. m \in 0 .. n /\ {k \in 1 .. n : Ceiling(active[k]) <= px} = 1 .. m
      BY DEF ActiveInOrder
    <3> QED
      BY <1>1, <3>1
  <2>2. lo <= px <=> left \in 1 .. m
    BY <1>2, <2>1
  <2>3. hi <= px <=> left + 1 \in 1 .. m
    BY <1>2, <2>1
  <2> HIDE DEF m, n, lo, hi
  <2>4. lo <= px /\ px < hi <=> m = left
    BY <1>2, <1>4, <2>1, <2>2, <2>3
  <2> QED
    BY <2>4 DEF m
<1> HIDE DEF lo, hi
<1>6. Min({lo, hi}) = lo /\ Max({lo, hi}) = hi
  BY <1>4, MinMaxOfTwo
<1> QED
  BY <1>3, <1>4, <1>5, <1>6 DEF lo, hi, n

\* The next span fills the points between its edges and no others.
LEMMA NextSpanKeepsFillInv ==
  ASSUME FillStateOK, FillInv, NextSpan PROVE FillStateOK' /\ FillInv'
<1> DEFINE lo == Ceiling(active[left])
           hi == Ceiling(active[left + 1])
           span == [y |-> row, xStart |-> lo, xEndExclusive |-> hi]
<1>1. /\ at = "spans" /\ at' = "spans" /\ left < Len(active)
      /\ left' = left + 2 /\ UNCHANGED <<call, buckets, row, active>>
      /\ call \in Calls /\ Len(call.vertices) >= 3 /\ call.what = "fill"
  BY DEF NextSpan, FillStateOK
<1>2. /\ buckets = FillEdges /\ row \in Min(Rows) .. Max(Rows)
      /\ active = Sorted(EdgesAt(row))
      /\ left \in 1 .. Len(active) + 1 /\ left % 2 = 1
      /\ SpansAbove(row + 1) /\ FilledAbove(row) /\ FilledLeft
  BY <1>1 DEF FillInv
<1>3. Min(Rows) \in Int /\ Max(Rows) \in Int /\ row \in Int
  BY <1>1, <1>2, RowsAndColumns
<1>4. ActiveInOrder
  BY <1>1, <1>2, <1>3, ActiveEdges
<1>5. /\ lo \in Int /\ hi \in Int /\ lo <= hi
      /\ Min({lo, hi}) = lo /\ Max({lo, hi}) = hi
      /\ Min(Columns) <= lo /\ hi <= Max(Columns) + 1
      /\ left + 2 \in 1 .. Len(active) + 1 /\ (left + 2) % 2 = 1
      /\ \A px \in Int : lo <= px /\ px < hi <=> ActiveLeftOf(px) = left
  BY <1>1, <1>2, <1>3, <1>4, SpanBetweenEdges
<1>6. spans' = IF lo < hi THEN Append(spans, span) ELSE spans
  BY <1>5 DEF NextSpan
<1>7. span \in Spans /\ span.y = row /\ span.xStart = lo /\ span.xEndExclusive = hi
  BY <1>3, <1>5 DEF Spans
<1>8. spans \in Seq(Spans)
  BY <1>2 DEF SpansAbove
<1>9. /\ Rows' = Rows /\ Columns' = Columns
      /\ \A r : EdgesAt(r)' = EdgesAt(r)
      /\ \A px, py : RoundedInside(px, py)' = RoundedInside(px, py)
      /\ FillEdges' = FillEdges
  BY <1>1, PolygonStays
<1> HIDE DEF lo, hi, span
<1>10. ASSUME NEW px \in Int, NEW py \in Int
       PROVE  Cardinality(SpansHolding(px, py)')
                = IF py = row /\ ActiveLeftOf(px) = left
                    THEN Cardinality(SpansHolding(px, py)) + 1
                    ELSE Cardinality(SpansHolding(px, py))
  <2>1. CASE lo < hi
    <3>1. spans' = Append(spans, span)
      BY <1>6, <2>1
    <3>2. Cardinality(SpansHolding(px, py)')
            = IF span.y = py /\ span.xStart <= px /\ px < span.xEndExclusive
                THEN Cardinality(SpansHolding(px, py)) + 1
                ELSE Cardinality(SpansHolding(px, py))
      BY <1>7, <1>8, <3>1, HoldingOneMore
    <3> QED
      BY <1>5, <1>7, <3>2
  <2>2. CASE ~ lo < hi
    <3>1. spans' = spans
      BY <1>6, <2>2
    <3>2. SpansHolding(px, py)' = SpansHolding(px, py)
      BY <3>1 DEF SpansHolding
    <3>3. ActiveLeftOf(px) # left
      BY <1>5, <2>2
    <3> QED
      BY <3>2, <3>3
  <2> QED
    BY <2>1, <2>2
<1>11. ASSUME NEW px \in Int
       PROVE  /\ ActiveLeftOf(px)' = ActiveLeftOf(px)
              /\ ActiveLeftOf(px) \in Nat
  <2>1. ActiveLeftOf(px)' = ActiveLeftOf(px)
    BY <1>1 DEF ActiveLeftOf
  <2>2. Len(active) \in Nat /\ ActiveLeftOf(px) \in 0 .. Len(active)
    BY <1>4 DEF ActiveInOrder
  <2> QED
    BY <2>1, <2>2
<1>12. FilledLeft'
  <2> SUFFICES ASSUME NEW px \in Int
               PROVE  Cardinality(SpansHolding(px, row)')
                        = IF ActiveLeftOf(px) % 2 = 1 /\ ActiveLeftOf(px) < left + 2
                            THEN 1 ELSE 0
    BY <1>1, <1>11 DEF FilledLeft
  <2> DEFINE m == ActiveLeftOf(px)
             c == Cardinality(SpansHolding(px, row))
  <2>1. c = IF m % 2 = 1 /\ m < left THEN 1 ELSE 0
    BY <1>2 DEF FilledLeft
  <2>2. Cardinality(SpansHolding(px, row)') = IF m = left THEN c + 1 ELSE c
    <3>1. PICK r \in Int : r = row
      BY <1>3
    <3>2. SpansHolding(px, row)' = SpansHolding(px, r)'
      BY <1>1, <3>1 DEF SpansHolding
    <3>3. Cardinality(SpansHolding(px, r)')
            = IF ActiveLeftOf(px) = left THEN Cardinality(SpansHolding(px, r)) + 1
              ELSE Cardinality(SpansHolding(px, r))
      BY <1>10, <3>1
    <3> QED
      BY <3>1, <3>2, <3>3
  <2>3. m \in Nat /\ left \in Nat /\ left % 2 = 1
    <3>1. Len(active) \in Nat
      BY <1>4 DEF ActiveInOrder
    <3>2. left \in Nat
      BY <1>2, <3>1
    <3>3. left % 2 = 1
      BY <1>2
    <3>4. m \in Nat
      BY <1>11
    <3> QED
      BY <3>2, <3>3, <3>4
  <2> HIDE DEF m, c
  <2>4. m % 2 = 1 /\ m < left + 2 <=> m = left \/ (m % 2 = 1 /\ m < left)
    BY <2>3
  <2>5. (IF m = left THEN c + 1 ELSE c) = IF m % 2 = 1 /\ m < left + 2 THEN 1 ELSE 0
    BY <2>1, <2>3, <2>4
  <2> QED
    BY <2>2, <2>5 DEF m
<1>13. FilledAbove(row)'
  <2>1. ASSUME NEW px \in Int, NEW py \in Int, Min(Rows) <= py, py < row
        PROVE  Cardinality(SpansHolding(px, py)') = IF RoundedInside(px, py) THEN 1 ELSE 0
    <3>1. py # row
      BY <1>3, <2>1
    <3>2. Cardinality(SpansHolding(px, py)) = IF RoundedInside(px, py) THEN 1 ELSE 0
      BY <1>2, <2>1 DEF FilledAbove
    <3> QED
      BY <1>10, <3>1, <3>2
  <2> QED
    BY <1>1, <1>9, <2>1 DEF FilledAbove
<1>14. SpansAbove(row + 1)'
  <2> DEFINE Fits(s) == /\ Min(Rows) <= s.y /\ s.y < row + 1
                        /\ Min(Columns) <= s.xStart
                        /\ s.xEndExclusive <= Max(Columns) + 1
  <2>1. \A k \in 1 .. Len(spans) : Fits(spans[k])
    BY <1>2 DEF SpansAbove
  <2>2. Fits(span)
    BY <1>2, <1>3, <1>5, <1>7
  <2> HIDE DEF Fits
  <2>3. spans' \in Seq(Spans) /\ \A k \in 1 .. Len(spans') : Fits(spans'[k])
    <3>1. CASE lo < hi
      <4>1. spans' = Append(spans, span)
        BY <1>6, <3>1
      <4> QED
        BY <1>7, <1>8, <2>1, <2>2, <4>1
    <3>2. CASE ~ lo < hi
      BY <1>6, <1>8, <2>1, <3>2
    <3> QED
      BY <3>1, <3>2
  <2> QED
    BY <1>1, <1>9, <2>3 DEF SpansAbove, Fits
<1>15. (active = Sorted(EdgesAt(row)))'
  <2>1. EdgesAt(row)' = EdgesAt(row)
    BY <1>1, SameRow
  <2> QED
    BY <1>1, <1>2, <2>1 DEF Sorted
<1>16. (left \in 1 .. Len(active) + 1 /\ left % 2 = 1)'
  BY <1>1, <1>5
<1>17. FillStateOK'
  BY <1>1 DEF FillStateOK
<1>18. row' \in Min(Rows)' .. Max(Rows)' /\ (buckets = FillEdges)'
  BY <1>1, <1>2, <1>9
<1> QED
  BY <1>1, <1>12, <1>13, <1>14, <1>15, <1>16, <1>17, <1>18 DEF FillInv

\* A polygon is filled when its last row is left, and stays so.
LEMMA OthersKeepFillInv ==
  ASSUME FillStateOK, FillInv,
         \/ StartLine \/ PlotPoint \/ PlotLastPoint \/ AllocationFails \/ FinishFill
         \/ UNCHANGED vars
  PROVE  FillStateOK' /\ FillInv'
<1>1. CASE StartLine \/ PlotPoint \/ PlotLastPoint
  BY <1>1 DEF StartLine, PlotPoint, PlotLastPoint, FillStateOK
<1>2. CASE AllocationFails
  <2>1. at' = "failed" /\ at # "done" /\ UNCHANGED call
    BY <1>2 DEF AllocationFails
  <2> QED
    BY <2>1 DEF FillStateOK, FillInv
<1>3. CASE FinishFill
  <2>1. /\ at = "row" /\ at' = "done" /\ row > Max(Rows) /\ UNCHANGED <<call, spans>>
        /\ call \in Calls /\ Len(call.vertices) >= 3
    BY <1>3 DEF FinishFill, FillStateOK, fill
  <2>2. row \in Min(Rows) .. Max(Rows) + 1 /\ SpansAbove(row) /\ FilledAbove(row)
    BY <2>1 DEF FillInv
  <2>3. Min(Rows) \in Int /\ Max(Rows) \in Int
    BY <2>1, RowsAndColumns
  <2>4. row = Max(Rows) + 1
    BY <2>1, <2>2, <2>3
  <2>5. SpansAbove(Max(Rows) + 1) /\ FilledAbove(Max(Rows) + 1)
    BY <2>2, <2>4
  <2>6. /\ Rows' = Rows /\ Columns' = Columns
        /\ \A px, py : RoundedInside(px, py)' = RoundedInside(px, py)
    BY <2>1, PolygonStays
  <2>7. \A px, py : SpansHolding(px, py)' = SpansHolding(px, py)
    BY <2>1 DEF SpansHolding
  <2>8. SpansAbove(Max(Rows) + 1)'
    BY <2>1, <2>5, <2>6 DEF SpansAbove
  <2>9. FilledAbove(Max(Rows) + 1)'
    BY <2>5, <2>6, <2>7 DEF FilledAbove
  <2>10. FillStateOK'
    BY <2>1 DEF FillStateOK
  <2> QED
    BY <2>1, <2>8, <2>9, <2>10 DEF FillInv
<1>4. CASE UNCHANGED vars
  <2>1. UNCHANGED <<call, at, buckets, row, active, left, spans>>
    BY <1>4 DEF vars, fill
  <2>2. /\ Rows' = Rows /\ Columns' = Columns
        /\ \A r : EdgesAt(r)' = EdgesAt(r) /\ CrossedAbove(r)' = CrossedAbove(r)
        /\ \A i, r : EdgeAt(i, r)' = EdgeAt(i, r)
        /\ \A px, py : RoundedInside(px, py)' = RoundedInside(px, py)
        /\ FillEdges' = FillEdges
    BY <2>1, PolygonStays
  <2>3. \A px, py : SpansHolding(px, py)' = SpansHolding(px, py)
    BY <2>1 DEF SpansHolding
  <2>4. \A px : ActiveLeftOf(px)' = ActiveLeftOf(px)
    BY <2>1 DEF ActiveLeftOf
  <2>5. FilledLeft' = FilledLeft
    BY <2>1, <2>4 DEF FilledLeft, SpansHolding
  <2>6. SpansAbove(row)' = SpansAbove(row) /\ SpansAbove(row + 1)' = SpansAbove(row + 1)
    BY <2>1, <2>2 DEF SpansAbove
  <2>7. FilledAbove(row)' = FilledAbove(row)
    BY <2>1, <2>2, <2>3 DEF FilledAbove
  <2>8. /\ SpansAbove(Max(Rows) + 1)' = SpansAbove(Max(Rows) + 1)
         /\ FilledAbove(Max(Rows) + 1)' = FilledAbove(Max(Rows) + 1)
    BY <2>1, <2>2, <2>3 DEF SpansAbove, FilledAbove
  <2>9. /\ Range(active)' = Range(active)
         /\ {EdgeAt(i, row) : i \in CrossedAbove(row)}'
              = {EdgeAt(i, row) : i \in CrossedAbove(row)}
         /\ Sorted(EdgesAt(row))' = Sorted(EdgesAt(row))
    <3>1. Range(active)' = Range(active)
      BY <2>1 DEF Range
    <3>2. EdgesAt(row)' = EdgesAt(row) /\ \A i : EdgeAt(i, row)' = EdgeAt(i, row)
      BY <2>1, SameRow
    <3>3. CrossedAbove(row)' = CrossedAbove(row)
      BY <2>1 DEF CrossedAbove, Indices, Upper, Lower, From, To
    <3>4. Sorted(EdgesAt(row))' = Sorted(EdgesAt(row))
      BY <3>2 DEF Sorted
    <3> QED
      BY <3>1, <3>2, <3>3, <3>4
  <2>10. FillStateOK'
    BY <2>1 DEF FillStateOK
  <2>11. FillInv'
    BY <2>1, <2>2, <2>5, <2>6, <2>7, <2>8, <2>9 DEF FillInv
  <2> QED
    BY <2>10, <2>11
<1> QED
  BY <1>1, <1>2, <1>3, <1>4

\* When the fill is done, its spans are those that it should have.
LEMMA FilledIsEvenOdd ==
  (call.what = "fill" => FillStateOK /\ FillInv) => FillIsEvenOdd
<1> SUFFICES ASSUME FillStateOK, FillInv, at = "done", Len(call.vertices) >= 3
             PROVE  FillIsEvenOdd
  BY DEF FillIsEvenOdd
<1>0. call \in Calls /\ call.what = "fill"
  BY DEF FillStateOK
<1>1. SpansAbove(Max(Rows) + 1) /\ FilledAbove(Max(Rows) + 1)
  BY DEF FillInv
<1>2. /\ Min(Rows) \in Int /\ Max(Rows) \in Int
      /\ Min(Columns) \in Int /\ Max(Columns) \in Int
  BY RowsAndColumns DEF FillStateOK
<1>3. ASSUME NEW px \in Min(Columns) .. Max(Columns), NEW py \in Min(Rows) .. Max(Rows)
      PROVE  /\ Cardinality(SpansHolding(px, py)) <= 1
             /\ InDoubt(px, py) \/ (SpansHolding(px, py) # {} <=> Inside(px, py))
  <2>1. px \in Int /\ py \in Int /\ Min(Rows) <= py /\ py < Max(Rows) + 1
    BY <1>2
  <2>2. Cardinality(SpansHolding(px, py)) = IF RoundedInside(px, py) THEN 1 ELSE 0
    BY <1>1, <2>1 DEF FilledAbove
  <2>3. SpansHolding(px, py) # {} <=> Cardinality(SpansHolding(px, py)) = 1
    <3>1. IsFiniteSet(SpansHolding(px, py))
      BY <1>1, HoldingIsFinite DEF SpansAbove
    <3> QED
      BY <2>2, <3>1, FS_EmptySet
  <2>4. InDoubt(px, py) \/ (RoundedInside(px, py) <=> Inside(px, py))
    BY <1>0, <2>1, SameSide DEF RoundedInside, Inside
  <2> QED
    BY <2>2, <2>3, <2>4
<1>4. ASSUME NEW k \in 1 .. Len(spans)
      PROVE  /\ spans[k].y \in Min(Rows) .. Max(Rows)
             /\ Min(Columns) <= spans[k].xStart
             /\ spans[k].xEndExclusive <= Max(Columns) + 1
  <2>1. /\ spans[k] \in Spans
        /\ Min(Rows) <= spans[k].y /\ spans[k].y < Max(Rows) + 1
        /\ Min(Columns) <= spans[k].xStart
        /\ spans[k].xEndExclusive <= Max(Columns) + 1
    BY <1>1 DEF SpansAbove
  <2>2. spans[k].y \in Int /\ spans[k].xEndExclusive \in Int
    BY <2>1 DEF Spans
  <2> QED
    BY <1>2, <2>1, <2>2
<1> QED
  BY <1>3, <1>4 DEF FillIsEvenOdd

\* Every polygon's spans hold no point twice, and each point that is not in
\* doubt exactly when it is inside, however long the significands are, as long
\* as the errors of all rows are smaller than what DoublesAssumption says
\* (FillIsEvenOdd).
THEOREM FillsAreEvenOdd == Spec => []FillIsEvenOdd
<1> DEFINE IInv == call.what = "fill" => FillStateOK /\ FillInv
<1>1. Init => IInv
  BY FillBegins
<1>2. IInv /\ [Next]_vars => IInv'
  <2> SUFFICES ASSUME IInv, [Next]_vars PROVE IInv'
    OBVIOUS
  <2>1. UNCHANGED call
    BY DEF Next, Draw, Returned, vars, StartLine, PlotPoint, PlotLastPoint,
           PrepareFill, AllocationFails, BeginRow, NextSpan, LeaveRow, FinishFill
  <2>2. CASE call.what # "fill"
    BY <2>1, <2>2
  <2>3. CASE call.what = "fill"
    <3>1. FillStateOK /\ FillInv
      BY <2>3
    <3>2. \/ StartLine \/ PlotPoint \/ PlotLastPoint \/ AllocationFails \/ FinishFill
          \/ PrepareFill \/ BeginRow \/ NextSpan \/ LeaveRow
          \/ UNCHANGED vars
      BY DEF Next, Draw, Returned
    <3> QED
      BY <3>1, <3>2, OthersKeepFillInv, PrepareKeepsFillInv, BeginRowKeepsFillInv,
         NextSpanKeepsFillInv, LeaveRowKeepsFillInv
  <2> QED
    BY <2>2, <2>3
<1>3. IInv => FillIsEvenOdd
  BY FilledIsEvenOdd
<1> QED
  BY <1>1, <1>2, <1>3, PTL DEF Spec
==============================================================================
