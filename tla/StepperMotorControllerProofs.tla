--------------------- MODULE StepperMotorControllerProofs ---------------------
(****************************************************************************)
(* Theorems about the stepper motor controller for every speed, profile,    *)
(* step unit and clock width.                                               *)
(****************************************************************************)
EXTENDS StepperMotorController, TLAPS

------------------------------------------------------------------------------
(* The inductive invariant.                                                 *)

\* The loop variables of update split the time since the profile began into
\* what is processed and what is not.
ClockInv ==
  /\ profileInitialized =>
       /\ CycleDuration > 0
       /\ (now - profileStart) % ClockModulus = profileElapsed + unprocessed
  /\ profileElapsed + unprocessed < ClockModulus
  /\ pc \in {"segment", "pulses"} => profileInitialized
  /\ pc \in {"idle", "moving"} => lastUpdate = now /\ unprocessed = 0
  /\ pc = "pulses" => unprocessed > 0
  /\ remaining > 0 <=> pc = "moving"

\* Where the position will be once a blocking move is over, how many steps
\* of the current cycle that amounts to, and the time they account for.
Settled == IF directionForward THEN position + remaining
                               ELSE position - remaining
Travelled == IF EvenCycle THEN Settled - origin
                          ELSE origin + StepsPerCycle - Settled
Accounted == IF pc = "pulses" THEN CycleElapsed + Interval ELSE CycleElapsed

\* The steps emitted and the fraction in the accumulator are the distance of
\* the time accounted for.
AccumulatorInv ==
  /\ profileInitialized =>
       stepAccumulator + StepUnit * Travelled = Integral(Accounted)
  /\ pc = "pulses" => (directionForward <=> EvenCycle)

\* Shaft and position move alike as long as the pin shows the direction.
PinInv ==
  /\ directionForward \in BOOLEAN
  /\ directionPin = directionForward
  /\ shaft = position

------------------------------------------------------------------------------
(* Division.                                                                *)

\* The quotient is the number q with m*q <= n < m*q + m.
LEMMA QuotientIsUnique ==
  ASSUME NEW n \in Int, NEW m \in Nat \ {0}, NEW q \in Int,
         m * q <= n, n < m * q + m
  PROVE  n \div m = q /\ n % m = n - m * q
<1> DEFINE p == n \div m
           r == n % m
<1>1. p \in Int /\ r \in 0 .. m - 1 /\ n = m * p + r
  OBVIOUS
<1> HIDE DEF p, r
<1>2. m * (p - q) < m /\ m * (p - q) > - m
  BY <1>1
<1>3. p - q < 1
  <2> SUFFICES ASSUME p - q >= 1 PROVE FALSE
    BY <1>1
  <2>1. m * (p - q) >= m * 1
    BY <1>1
  <2>2. QED
    BY <2>1, <1>1, <1>2
<1>4. p - q > -1
  <2> SUFFICES ASSUME p - q <= -1 PROVE FALSE
    BY <1>1
  <2>1. m * (p - q) <= m * (-1)
    BY <1>1
  <2>2. QED
    BY <2>1, <1>1, <1>2
<1>5. p = q
  BY <1>1, <1>3, <1>4
<1>6. QED
  BY <1>1, <1>5 DEF p, r

\* Quotient and remainder determine the number.
LEMMA QuotientBounds ==
  ASSUME NEW n \in Int, NEW m \in Nat \ {0}
  PROVE  /\ n \div m \in Int
         /\ n % m \in 0 .. m - 1
         /\ n = m * (n \div m) + (n % m)
OBVIOUS

\* Division is monotone.
LEMMA QuotientIsMonotone ==
  ASSUME NEW m \in Nat \ {0}, NEW a \in Int, NEW b \in Int, a <= b
  PROVE  a \div m <= b \div m
<1> DEFINE p == a \div m
           q == b \div m
<1>1. /\ p \in Int /\ q \in Int
      /\ m * p <= a /\ b < m * q + m
  BY QuotientBounds
<1> HIDE DEF p, q
<1>2. m * (p - q) < m
  BY <1>1
<1>3. p - q < 1
  <2> SUFFICES ASSUME p - q >= 1 PROVE FALSE
    BY <1>1
  <2>1. m * (p - q) >= m * 1
    BY <1>1
  <2>2. QED
    BY <2>1, <1>1, <1>2
<1>4. QED
  BY <1>1, <1>3 DEF p, q

\* A multiple of the divisor moves the quotient by that multiple.
LEMMA QuotientOfShifted ==
  ASSUME NEW m \in Nat \ {0}, NEW a \in Int, NEW k \in Int
  PROVE  (a + m * k) \div m = (a \div m) + k
<1> DEFINE p == a \div m
<1>1. p \in Int /\ m * p <= a /\ a < m * p + m
  BY QuotientBounds
<1> HIDE DEF p
<1>2. m * (p + k) = m * p + m * k
  BY <1>1
<1>3. /\ m * (p + k) <= a + m * k
      /\ a + m * k < m * (p + k) + m
      /\ a + m * k \in Int /\ p + k \in Int
  BY <1>1, <1>2
<1>4. QED
  BY <1>3, QuotientIsUnique DEF p

------------------------------------------------------------------------------
(* The trapezoid.                                                           *)

\* Multiplication by a natural number is monotone.
LEMMA ProductIsMonotone ==
  ASSUME NEW m \in Nat, NEW a \in Int, NEW b \in Int, a <= b
  PROVE  m * a <= m * b
OBVIOUS

\* Natural numbers are closed under it.
LEMMA ProductIsNat ==
  ASSUME NEW a \in Nat, NEW b \in Nat
  PROVE  a * b \in Nat
OBVIOUS

\* The distance of a ramp grows with time, by at most the full speed's.
LEMMA RampGrows ==
  ASSUME NEW d \in Nat, NEW a \in 0 .. d, NEW b \in 0 .. d, a <= b
  PROVE  /\ Ramp(a, d) \in Nat /\ Ramp(b, d) \in Nat
         /\ Ramp(a, d) <= Ramp(b, d)
         /\ Ramp(b, d) - Ramp(a, d) <= MaxMilliStepsPerSecond * (b - a)
<1> DEFINE V == MaxMilliStepsPerSecond
<1> V \in Nat
  BY ControllerAssumption
<1>1. CASE d = 0
  <2>1. a = 0 /\ b = 0 /\ V * 0 = 0
    BY <1>1
  <2>2. QED
    BY <1>1, <2>1 DEF Ramp
<1>2. CASE d > 0
  <2> DEFINE m == 2 * d
             x == V * a * a
             y == V * b * b
             p == x \div m
             q == y \div m
  <2>1. Ramp(a, d) = p /\ Ramp(b, d) = q
    BY <1>2 DEF Ramp
  <2>2. m \in Nat \ {0}
    BY <1>2
  <2>3. x \in Nat /\ y \in Nat /\ x <= y
    <3>1. V * a \in Nat /\ V * b \in Nat /\ V * a <= V * b
      BY ProductIsNat, ProductIsMonotone
    <3>2. (V * a) * a <= (V * a) * b
      BY <3>1, ProductIsMonotone
    <3>3. (V * a) * b <= (V * b) * b
      <4>1. b * (V * a) <= b * (V * b)
        BY <3>1, ProductIsMonotone
      <4>2. QED
        BY <3>1, <4>1
    <3>4. (V * a) * a \in Nat /\ (V * b) * b \in Nat
      BY <3>1, ProductIsNat
    <3>5. QED
      BY <3>1, <3>2, <3>3, <3>4
  <2>4. y <= x + m * (V * (b - a))
    <3> DEFINE w == V * (b - a)
    <3>1. w \in Nat
      BY ProductIsNat
    <3>2. y - x = w * (a + b)
      OBVIOUS
    <3>3. w * (a + b) <= w * m
      BY <3>1, ProductIsMonotone
    <3>4. w * m = m * w
      BY <3>1
    <3>5. QED
      BY <2>3, <3>1, <3>2, <3>3, <3>4
  <2>5. p \in Int /\ q \in Int /\ p >= 0
    BY <2>2, <2>3
  <2>6. p <= q
    BY <2>2, <2>3, QuotientIsMonotone
  <2>7. q <= p + V * (b - a)
    <3> DEFINE w == V * (b - a)
    <3>1. w \in Nat
      BY ProductIsNat
    <3> HIDE DEF m, x, y, w
    <3>2. x + m * w \in Int
      BY <2>2, <2>3, <3>1
    <3>3. q <= (x + m * w) \div m
      BY <2>2, <2>3, <2>4, <3>2, QuotientIsMonotone DEF w
    <3>4. QED
      BY <2>2, <2>3, <3>1, <3>3, QuotientOfShifted DEF w
  <2> HIDE DEF p, q
  <2>8. QED
    BY <2>1, <2>5, <2>6, <2>7
<1>3. QED
  BY <1>1, <1>2

\* It is a whole number of parts of a step.
LEMMA RampIsWhole ==
  ASSUME NEW d \in Nat, NEW a \in 0 .. d
  PROVE  Ramp(a, d) \in Nat
BY RampGrows

\* The milliseconds of each phase among the first t of a cycle.
Accelerating(t) == Smaller(t, Acceleration)
Cruising(t) == IF t > Acceleration THEN Smaller(t, CruiseEnd) - Acceleration
                                   ELSE 0
Decelerating(t) == IF t > CruiseEnd THEN t - CruiseEnd ELSE 0

\* The three terms of the distance depend on one phase each.
LEMMA IntegralByPhase ==
  ASSUME NEW t \in 0 .. CycleDuration
  PROVE  /\ Accelerating(t) \in 0 .. Acceleration
         /\ Cruising(t) \in 0 .. Cruise
         /\ Decelerating(t) \in 0 .. Deceleration
         /\ t = Accelerating(t) + Cruising(t) + Decelerating(t)
         /\ Integral(t) = Ramp(Accelerating(t), Acceleration)
                            + MaxMilliStepsPerSecond * Cruising(t)
                            + MaxMilliStepsPerSecond * Decelerating(t)
                            - Ramp(Decelerating(t), Deceleration)
<1> USE ControllerAssumption
<1> DEFINE V == MaxMilliStepsPerSecond
<1>1. /\ Accelerating(t) \in 0 .. Acceleration
      /\ Cruising(t) \in 0 .. Cruise
      /\ Decelerating(t) \in 0 .. Deceleration
      /\ t = Accelerating(t) + Cruising(t) + Decelerating(t)
  BY DEF Accelerating, Cruising, Decelerating, Smaller, CruiseEnd,
         CycleDuration
<1>2. Smaller(t, CycleDuration) = t
  BY DEF Smaller, CycleDuration, CruiseEnd
<1>3. V * 0 = 0 /\ Ramp(0, Deceleration) = 0
  <2>1. V * 0 = 0 /\ V * 0 * 0 = 0
    OBVIOUS
  <2>2. \A m \in Nat \ {0} : 0 \div m = 0
    OBVIOUS
  <2>3. QED
    BY <2>1, <2>2 DEF Ramp
<1>4. V * Cruising(t) \in Int /\ V * Decelerating(t) \in Int
  BY <1>1
<1>5. /\ Ramp(Accelerating(t), Acceleration) \in Int
      /\ Ramp(Decelerating(t), Deceleration) \in Int
  BY <1>1, RampGrows
<1>6. Integral(t)
        = Ramp(Accelerating(t), Acceleration)
          + (IF t > Acceleration THEN V * Cruising(t) ELSE 0)
          + (IF t > CruiseEnd
               THEN V * Decelerating(t) - Ramp(Decelerating(t), Deceleration)
               ELSE 0)
  BY <1>2 DEF Integral, Accelerating, Cruising, Decelerating
<1>7. ~ (t > Acceleration) => Cruising(t) = 0
  BY DEF Cruising
<1>8. ~ (t > CruiseEnd) => Decelerating(t) = 0
  BY DEF Decelerating
<1> HIDE DEF V
<1>9. QED
  BY <1>1, <1>3, <1>4, <1>5, <1>6, <1>7, <1>8 DEF V

\* The distance grows over the whole cycle, and in no stretch of it by more
\* than the full speed gives.
LEMMA IntegralGrows ==
  ASSUME NEW a \in 0 .. CycleDuration, NEW b \in 0 .. CycleDuration, a <= b
  PROVE  /\ Integral(a) \in Nat /\ Integral(b) \in Nat
         /\ Integral(a) <= Integral(b)
         /\ Integral(b) - Integral(a) <= MaxMilliStepsPerSecond * (b - a)
<1> USE ControllerAssumption
<1> DEFINE V == MaxMilliStepsPerSecond
           ra == Ramp(Accelerating(a), Acceleration)
           rb == Ramp(Accelerating(b), Acceleration)
           sa == Ramp(Decelerating(a), Deceleration)
           sb == Ramp(Decelerating(b), Deceleration)
           ca == V * Cruising(a)
           cb == V * Cruising(b)
           da == V * Decelerating(a)
           db == V * Decelerating(b)
           accelerated == Accelerating(b) - Accelerating(a)
           cruised == Cruising(b) - Cruising(a)
           decelerated == Decelerating(b) - Decelerating(a)
<1>1. accelerated >= 0 /\ cruised >= 0 /\ decelerated >= 0
  BY DEF Accelerating, Cruising, Decelerating, Smaller, CruiseEnd,
         CycleDuration
<1>2. /\ accelerated \in Int /\ cruised \in Int /\ decelerated \in Int
      /\ b - a = accelerated + cruised + decelerated
  BY IntegralByPhase
<1>3. /\ ra \in Nat /\ rb \in Nat /\ ra <= rb
      /\ rb - ra <= V * accelerated
  BY <1>1, IntegralByPhase, RampGrows
<1>4. /\ sa \in Nat /\ sb \in Nat /\ sa <= sb
      /\ sb - sa <= V * decelerated
  BY <1>1, IntegralByPhase, RampGrows
<1>5. /\ ca \in Nat /\ cb \in Nat /\ cb - ca = V * cruised /\ ca <= cb
  <2>1. Cruising(a) \in Nat /\ Cruising(b) \in Nat
    BY IntegralByPhase
  <2>2. V * Cruising(b) - V * Cruising(a) = V * (Cruising(b) - Cruising(a))
    BY <2>1
  <2>3. V * Cruising(a) <= V * Cruising(b)
    BY <1>1, <2>1, ProductIsMonotone
  <2>4. QED
    BY <2>1, <2>2, <2>3, ProductIsNat
<1>6. /\ da \in Nat /\ db \in Nat /\ db - da = V * decelerated
  BY IntegralByPhase, ProductIsNat
<1>7. sa <= da
  <2>1. Decelerating(a) \in 0 .. Deceleration /\ 0 \in 0 .. Deceleration
    BY IntegralByPhase
  <2>2. sa - Ramp(0, Deceleration) <= V * (Decelerating(a) - 0)
    BY <2>1, RampGrows
  <2>3. Ramp(0, Deceleration) = 0
    <3>1. V * 0 * 0 = 0 /\ \A m \in Nat \ {0} : 0 \div m = 0
      OBVIOUS
    <3>2. QED
      BY <3>1 DEF Ramp
  <2>4. QED
    BY <1>4, <2>1, <2>2, <2>3
<1>8. V * (b - a) = V * accelerated + V * cruised + V * decelerated
  <2> HIDE DEF accelerated, cruised, decelerated
  <2>1. V * (accelerated + cruised + decelerated)
          = V * accelerated + V * cruised + V * decelerated
    BY <1>2
  <2>2. QED
    BY <1>2, <2>1
<1>9. Integral(a) = ra + ca + da - sa /\ Integral(b) = rb + cb + db - sb
  BY IntegralByPhase
<1>10. V * accelerated \in Int /\ V * cruised \in Int /\ V * decelerated \in Int
  BY <1>2
<1> HIDE DEF ra, rb, sa, sb, ca, cb, da, db, V, accelerated, cruised, decelerated
<1>11. QED
  BY <1>3, <1>4, <1>5, <1>6, <1>7, <1>8, <1>9, <1>10 DEF V

\* A cycle begins with no distance.
LEMMA IntegralOfNothing == Integral(0) = 0
<1> USE ControllerAssumption
<1>1. 0 \in 0 .. CycleDuration
  BY DEF CycleDuration, CruiseEnd
<1>2. /\ Accelerating(0) = 0 /\ Cruising(0) = 0 /\ Decelerating(0) = 0
  BY <1>1, IntegralByPhase
<1>3. /\ MaxMilliStepsPerSecond * 0 = 0
      /\ \A d \in Nat : Ramp(0, d) = 0
  <2>1. MaxMilliStepsPerSecond * 0 * 0 = 0 /\ \A m \in Nat \ {0} : 0 \div m = 0
    OBVIOUS
  <2>2. QED
    BY <2>1 DEF Ramp
<1>4. QED
  BY <1>1, <1>2, <1>3, IntegralByPhase

\* A share of the full speed, rounded down, is a speed.
LEMMA ShareOfSpeed ==
  ASSUME NEW m \in Nat \ {0}, NEW t \in 0 .. m
  PROVE  (MaxMilliStepsPerSecond * t) \div m \in 0 .. MaxMilliStepsPerSecond
<1> USE ControllerAssumption
<1> DEFINE V == MaxMilliStepsPerSecond
<1>1. V * t \in Nat /\ V * t <= V * m /\ V * m = 0 + m * V
  BY ProductIsNat, ProductIsMonotone
<1>2. 0 \div m = 0
  OBVIOUS
<1>3. (0 + m * V) \div m = V
  BY <1>2, QuotientOfShifted
<1> HIDE DEF V
<1>4. V \in Nat
  BY DEF V
<1>5. (V * t) \div m <= (V * m) \div m
  BY <1>1, <1>4, QuotientIsMonotone
<1>6. (V * t) \div m >= 0 /\ (V * t) \div m \in Int
  BY <1>1
<1>7. QED
  BY <1>1, <1>3, <1>4, <1>5, <1>6 DEF V

\* No speed of the trapezoid exceeds the maximum.
LEMMA SpeedIsBounded ==
  ASSUME NEW t \in 0 .. CycleDuration
  PROVE  SpeedAt(t) \in 0 .. MaxMilliStepsPerSecond
<1> USE ControllerAssumption
<1>1. t < Acceleration =>
        (MaxMilliStepsPerSecond * t) \div Acceleration
          \in 0 .. MaxMilliStepsPerSecond
  BY ShareOfSpeed
<1>2. t >= CruiseEnd /\ t < CycleDuration =>
        (MaxMilliStepsPerSecond * (CycleDuration - t)) \div Deceleration
          \in 0 .. MaxMilliStepsPerSecond
  BY ShareOfSpeed DEF CycleDuration, CruiseEnd
<1>3. Acceleration \in Nat /\ CruiseEnd \in Nat /\ CycleDuration \in Nat
      /\ Acceleration <= CruiseEnd /\ CruiseEnd <= CycleDuration
  BY DEF CruiseEnd, CycleDuration
<1>4. CASE t < Acceleration
  BY <1>1, <1>3, <1>4 DEF SpeedAt
<1>5. CASE t >= Acceleration /\ (t < CruiseEnd \/ t = 0)
  <2>1. SpeedAt(t) = MaxMilliStepsPerSecond
    BY <1>3, <1>5 DEF SpeedAt
  <2>2. QED
    BY <2>1
<1>6. CASE t >= CruiseEnd /\ t > 0 /\ t >= CycleDuration
  BY <1>3, <1>6 DEF SpeedAt
<1>7. CASE t >= CruiseEnd /\ t > 0 /\ t < CycleDuration
  BY <1>2, <1>3, <1>7 DEF SpeedAt
<1>8. QED
  BY <1>3, <1>4, <1>5, <1>6, <1>7

------------------------------------------------------------------------------
(* The driver's pin.                                                        *)

\* With a driver that does not invert its output the motor always is where
\* the controller says it is: no interleaving of updates and blocking moves
\* lets the pin and m_directionForward disagree.
THEOREM ShaftAtPosition == ~ DirectionInverted => (Spec => []ShaftIsAtPosition)
<1> SUFFICES ASSUME ~ DirectionInverted
             PROVE  Spec => []ShaftIsAtPosition
  OBVIOUS
<1>0. DirectionInverted = FALSE
  BY Zenon, ControllerAssumption DEF ControllerAssumption
<1>1. Init => PinInv
  BY DEF Init, PinInv
<1>2. PinInv /\ [Next]_vars => PinInv'
  <2> SUFFICES ASSUME PinInv, [Next]_vars
               PROVE  PinInv'
    OBVIOUS
  <2>1. ASSUME NEW forward \in BOOLEAN, SetDirection(forward)
        PROVE  /\ directionForward' \in BOOLEAN
               /\ directionPin' = directionForward'
    <3>1. CASE directionForward = forward
      BY <2>1, <3>1, Zenon DEF SetDirection, PinInv, direction
    <3>2. CASE directionForward # forward
      <4>1. directionForward' = forward /\ directionPin' = (forward # FALSE)
        BY <1>0, <2>1, <3>2, Zenon DEF SetDirection, DirectionLevel
      <4>2. CASE forward = TRUE
        BY <4>1, <4>2, Zenon
      <4>3. CASE forward = FALSE
        BY <4>1, <4>3, Zenon
      <4>4. QED
        BY <2>1, <4>2, <4>3, Zenon
    <3>3. QED
      BY <3>1, <3>2
  <2>2. Pulse => shaft' = position'
    <3>1. CASE directionForward
      <4>1. directionPin # DirectionInverted
        BY <1>0, <3>1, Zenon DEF PinInv
      <4>2. QED
        BY <3>1, <4>1, Zenon DEF Pulse, PinInv
    <3>2. CASE ~ directionForward
      <4>1. ~ (directionPin # DirectionInverted)
        BY <1>0, <3>2, Zenon DEF PinInv
      <4>2. QED
        BY <3>2, <4>1, Zenon DEF Pulse, PinInv
    <3>3. QED
      BY <3>1, <3>2
  <2>3. ASSUME NEW d \in 0 .. ClockModulus - 1, UpdateDisabled(d)
        PROVE  PinInv'
    BY <2>3 DEF UpdateDisabled, PinInv, direction
  <2>4. ASSUME NEW d \in 0 .. ClockModulus - 1, BeginUpdate(d)
        PROVE  PinInv'
    BY <2>4 DEF BeginUpdate, PinInv, direction
  <2>5. CASE BeginSegment
    <3>1. EvenCycle \in BOOLEAN
      BY DEF EvenCycle
    <3>2. QED
      BY <2>1, <2>5, <3>1 DEF BeginSegment, PinInv
  <2>6. CASE EmitStep
    BY <2>2, <2>6 DEF EmitStep, PinInv, direction
  <2>7. CASE EndSegment
    BY <2>7 DEF EndSegment, PinInv, direction
  <2>8. CASE FinishUpdate
    <3>1. EvenCycle \in BOOLEAN
      BY DEF EvenCycle
    <3>2. QED
      BY <2>1, <2>8, <3>1 DEF FinishUpdate, PinInv
  <2>9. ASSUME NEW steps \in - MaxMove .. MaxMove, BeginMove(steps)
        PROVE  PinInv'
    <3>1. (steps > 0) \in BOOLEAN
      OBVIOUS
    <3>2. QED
      BY <2>1, <2>9, <3>1 DEF BeginMove, PinInv
  <2>10. CASE MoveStep
    BY <2>2, <2>10 DEF MoveStep, PinInv, direction
  <2>11. CASE UNCHANGED vars
    BY <2>11 DEF vars, PinInv, direction
  <2>12. QED
    BY <2>3, <2>4, <2>5, <2>6, <2>7, <2>8, <2>9, <2>10, <2>11
       DEF Next, Proceed, Call
<1>3. PinInv => ShaftIsAtPosition
  BY DEF PinInv, ShaftIsAtPosition
<1>4. QED
  BY <1>1, <1>2, <1>3, PTL DEF Spec

------------------------------------------------------------------------------
(* The clock and the accumulator.                                           *)

\* Two stretches of the truncated clock add up as long as their sum fits it.
LEMMA TimeSpansAdd ==
  ASSUME NEW m \in Nat \ {0}, NEW a \in Int, NEW b \in Int, NEW c \in Int,
         ((b - a) % m) + ((c - b) % m) < m
  PROVE  (c - a) % m = ((b - a) % m) + ((c - b) % m)
<1> DEFINE p == (b - a) \div m
           q == (c - b) \div m
           r == (b - a) % m
           s == (c - b) % m
<1>1. /\ p \in Int /\ r \in 0 .. m - 1 /\ b - a = m * p + r
      /\ q \in Int /\ s \in 0 .. m - 1 /\ c - b = m * q + s
  BY QuotientBounds
<1>2. r + s < m
  OBVIOUS
<1> HIDE DEF p, q, r, s
<1>3. m * (p + q) = m * p + m * q
  BY <1>1
<1>4. /\ m * (p + q) <= c - a /\ c - a < m * (p + q) + m
      /\ p + q \in Int /\ c - a \in Int
      /\ c - a - m * (p + q) = r + s
  BY <1>1, <1>2, <1>3
<1>5. QED
  BY <1>4, QuotientIsUnique DEF r, s

\* A segment stays in its cycle, or completes it and begins the next.
StaysOrCompletes(e, i, d) ==
  /\ (e % d) + i < d => /\ (e + i) % d = (e % d) + i
                        /\ (e + i) \div d = e \div d
  /\ (e % d) + i = d => /\ (e + i) % d = 0
                        /\ (e + i) \div d = (e \div d) + 1

\* It does one or the other when it is no longer than what is left of the cycle.
LEMMA CycleAdvances ==
  ASSUME NEW e \in Nat, NEW i \in Nat, NEW d \in Nat \ {0},
         (e % d) + i <= d
  PROVE  StaysOrCompletes(e, i, d)
<1> USE DEF StaysOrCompletes
<1> DEFINE q == e \div d
           r == e % d
<1>1. q \in Int /\ r \in 0 .. d - 1 /\ e = d * q + r
  BY QuotientBounds
<1>2. r + i <= d
  OBVIOUS
<1> DEFINE n == e + i
<1> HIDE DEF q, r
<1>3. d * (q + 1) = d * q + d
  BY <1>1
<1>4. CASE r + i < d
  <2>1. /\ d * q <= e + i /\ e + i < d * q + d
        /\ e + i - d * q = r + i /\ e + i \in Int
    BY <1>1, <1>4
  <2>2. n \div d = q /\ n % d = n - d * q
    <3>1. d * q <= n /\ n < d * q + d /\ n \in Int
      BY <2>1
    <3> HIDE DEF n
    <3>2. QED
      BY <1>1, <3>1, QuotientIsUnique
  <2>3. QED
    BY <1>4, <2>1, <2>2 DEF q, r
<1>5. CASE r + i = d
  <2>1. /\ d * (q + 1) <= e + i /\ e + i < d * (q + 1) + d
        /\ e + i - d * (q + 1) = 0 /\ q + 1 \in Int /\ e + i \in Int
    BY <1>1, <1>3, <1>5
  <2>2. n \div d = q + 1 /\ n % d = n - d * (q + 1)
    <3> DEFINE z == q + 1
    <3>1. /\ d * z <= n /\ n < d * z + d /\ n \in Int /\ z \in Int
      BY <1>1, <2>1
    <3> HIDE DEF n, z
    <3>2. n \div d = z /\ n % d = n - d * z
      BY <3>1, QuotientIsUnique
    <3>3. QED
      BY <3>2 DEF z
  <2>3. QED
    BY <1>5, <2>1, <2>2 DEF q, r
<1>6. QED
  BY <1>2, <1>4, <1>5 DEF q, r

\* What a segment of the loop needs to know of its bounds.
LEMMA SegmentBounds ==
  ASSUME TypeOK, ClockInv, pc \in {"segment", "pulses"}, unprocessed > 0
  PROVE  /\ CycleDuration \in Nat \ {0}
         /\ CycleElapsed \in 0 .. CycleDuration - 1
         /\ Interval \in 1 .. unprocessed
         /\ CycleElapsed + Interval \in 1 .. CycleDuration
<1>1. CycleDuration \in Nat \ {0}
  BY ControllerAssumption DEF ClockInv, CycleDuration, CruiseEnd
<1>2. CycleElapsed \in 0 .. CycleDuration - 1
  <2>1. profileElapsed \in Int
    BY DEF TypeOK
  <2>2. QED
    BY <1>1, <2>1, QuotientBounds DEF CycleElapsed
<1>3. QED
  BY <1>1, <1>2 DEF Interval, Smaller, TypeOK

\* The variables keep their types; neither the time to make up for nor the
\* accumulator, both unsigned, wraps below zero.
LEMMA TypeStep == TypeOK /\ ClockInv /\ [Next]_vars => TypeOK'
<1> SUFFICES ASSUME TypeOK, ClockInv, [Next]_vars
             PROVE  TypeOK'
  OBVIOUS
<1> USE ControllerAssumption
<1>1. ASSUME NEW n \in Int
      PROVE  n % ClockModulus \in 0 .. ClockModulus - 1
  BY QuotientBounds DEF CycleDuration, CruiseEnd
<1>2. ASSUME NEW forward \in BOOLEAN, SetDirection(forward)
      PROVE  directionForward' \in BOOLEAN /\ directionPin' \in BOOLEAN
  BY <1>2, Zenon DEF SetDirection, DirectionLevel, direction, TypeOK
<1>3. Pulse => position' \in Int /\ shaft' \in Int
  BY DEF Pulse, TypeOK
<1>4. EvenCycle \in BOOLEAN
  BY DEF EvenCycle
<1>5. ASSUME NEW d \in 0 .. ClockModulus - 1, UpdateDisabled(d)
      PROVE  TypeOK'
  <2>1. now' \in 0 .. ClockModulus - 1
    BY <1>1, <1>5 DEF UpdateDisabled, TypeOK
  <2>2. 0 \in 0 .. MaxMilliStepsPerSecond /\ 0 < StepUnit
    OBVIOUS
  <2>3. /\ lastUpdate' = now' /\ speed' = 0 /\ stepAccumulator' = 0
        /\ profileInitialized' = FALSE /\ profileElapsed' = 0 /\ origin' = 0
        /\ UNCHANGED <<pc, unprocessed, remaining, profileStart, position,
                       directionForward, directionPin, shaft>>
    BY <1>5, Zenon DEF UpdateDisabled, direction
  <2>4. /\ lastUpdate' \in 0 .. ClockModulus - 1
        /\ speed' \in 0 .. MaxMilliStepsPerSecond
        /\ profileElapsed' \in 0 .. ClockModulus - 1
        /\ origin' \in Int
        /\ stepAccumulator' \in Nat /\ stepAccumulator' < StepUnit
    BY <2>1, <2>2, <2>3
  <2>5. profileInitialized' \in BOOLEAN
    BY <2>3, Zenon
  <2>6. QED
    BY <2>1, <2>3, <2>4, <2>5 DEF TypeOK
<1>6. ASSUME NEW d \in 0 .. ClockModulus - 1, BeginUpdate(d)
      PROVE  TypeOK'
  <2>1. now' \in 0 .. ClockModulus - 1
    BY <1>1, <1>6 DEF BeginUpdate, TypeOK
  <2>2. /\ profileStart' \in 0 .. ClockModulus - 1
        /\ lastUpdate' \in 0 .. ClockModulus - 1
        /\ profileInitialized' \in BOOLEAN
        /\ stepAccumulator' \in 0 .. StepUnit - 1
        /\ origin' \in Int
    <3>1. CASE profileInitialized
      BY <1>6, <3>1 DEF BeginUpdate, profile, TypeOK
    <3>2. CASE ~ profileInitialized
      <4>1. /\ profileInitialized' = TRUE /\ profileStart' = now'
            /\ lastUpdate' = now' /\ stepAccumulator' = 0 /\ origin' = position
        BY <1>6, <3>2, Zenon DEF BeginUpdate
      <4>2. QED
        BY <2>1, <4>1 DEF TypeOK
    <3>3. QED
      BY <3>1, <3>2
  <2>3. /\ profileElapsed' \in 0 .. ClockModulus - 1
        /\ unprocessed' \in 0 .. ClockModulus - 1
    <3>1. lastUpdate' - profileStart' \in Int /\ now' - lastUpdate' \in Int
      BY <2>1, <2>2
    <3>2. /\ profileElapsed' = (lastUpdate' - profileStart') % ClockModulus
          /\ unprocessed' = (now' - lastUpdate') % ClockModulus
      BY <1>6, Zenon DEF BeginUpdate
    <3>3. QED
      BY <1>1, <3>1, <3>2
  <2>4. /\ pc' = "segment"
        /\ UNCHANGED <<remaining, position, speed, directionForward,
                       directionPin, shaft>>
    BY <1>6, Zenon DEF BeginUpdate, direction
  <2>5. QED
    BY <2>1, <2>2, <2>3, <2>4 DEF TypeOK
<1>7. CASE BeginSegment
  <2>1. /\ CycleElapsed \in 0 .. CycleDuration
        /\ CycleElapsed + Interval \in 0 .. CycleDuration
        /\ CycleElapsed <= CycleElapsed + Interval
    BY <1>7, SegmentBounds DEF BeginSegment
  <2>2. /\ Integral(CycleElapsed) \in Nat
        /\ Integral(CycleElapsed + Interval) \in Nat
        /\ Integral(CycleElapsed) <= Integral(CycleElapsed + Interval)
    BY <2>1, IntegralGrows
  <2>3. stepAccumulator' \in Nat
    BY <1>7, <2>2 DEF BeginSegment, TypeOK
  <2>4. directionForward' \in BOOLEAN /\ directionPin' \in BOOLEAN
    BY <1>2, <1>4, <1>7 DEF BeginSegment
  <2>5. QED
    BY <1>7, <2>3, <2>4 DEF BeginSegment, profile, TypeOK
<1>8. CASE EmitStep
  <2>1. stepAccumulator' \in Nat
    BY <1>8 DEF EmitStep, MoreSteps, TypeOK
  <2>2. QED
    BY <1>3, <1>8, <2>1 DEF EmitStep, profile, direction, TypeOK
<1>9. CASE EndSegment
  <2>1. /\ profileElapsed' \in 0 .. ClockModulus - 1
        /\ unprocessed' \in 0 .. ClockModulus - 1
    BY <1>9, SegmentBounds DEF EndSegment, ClockInv, TypeOK
  <2>2. stepAccumulator' \in 0 .. StepUnit - 1
    BY <1>9 DEF EndSegment, MoreSteps, TypeOK
  <2>3. QED
    BY <1>9, <2>1, <2>2 DEF EndSegment, profile, direction, TypeOK
<1>10. CASE FinishUpdate
  <2>1. CycleElapsed \in 0 .. CycleDuration
    <3>1. CycleDuration \in Nat \ {0}
      BY <1>10 DEF FinishUpdate, ClockInv, CycleDuration, CruiseEnd
    <3>2. QED
      BY <3>1, QuotientBounds DEF CycleElapsed, TypeOK
  <2>2. speed' \in 0 .. MaxMilliStepsPerSecond
    BY <1>10, <2>1, SpeedIsBounded DEF FinishUpdate
  <2>3. directionForward' \in BOOLEAN /\ directionPin' \in BOOLEAN
    BY <1>2, <1>4, <1>10 DEF FinishUpdate
  <2>4. QED
    BY <1>10, <2>2, <2>3 DEF FinishUpdate, TypeOK
<1>11. ASSUME NEW steps \in - MaxMove .. MaxMove, BeginMove(steps)
       PROVE  TypeOK'
  <2>1. directionForward' \in BOOLEAN /\ directionPin' \in BOOLEAN
    <3>1. (steps > 0) \in BOOLEAN
      OBVIOUS
    <3>2. QED
      BY <1>2, <1>11, <3>1 DEF BeginMove
  <2>2. remaining' \in 0 .. MaxMove /\ origin' \in Int
    BY <1>11 DEF BeginMove, TypeOK
  <2>3. QED
    BY <1>11, <2>1, <2>2 DEF BeginMove, TypeOK
<1>12. CASE MoveStep
  <2>1. remaining' \in 0 .. MaxMove
    BY <1>12 DEF MoveStep, ClockInv, TypeOK
  <2>2. QED
    BY <1>3, <1>12, <2>1 DEF MoveStep, profile, direction, TypeOK
<1>13. CASE UNCHANGED vars
  BY <1>13 DEF vars, profile, direction, TypeOK
<1>14. QED
  BY <1>5, <1>6, <1>7, <1>8, <1>9, <1>10, <1>11, <1>12, <1>13
     DEF Next, Proceed, Call

\* The time since the profile began stays split into its two parts.
LEMMA ClockStep == TypeOK /\ ClockInv /\ [Next]_vars => ClockInv'
<1> SUFFICES ASSUME TypeOK, ClockInv, [Next]_vars
             PROVE  ClockInv'
  OBVIOUS
<1> USE ControllerAssumption
<1>1. ASSUME NEW d \in 0 .. ClockModulus - 1, UpdateDisabled(d)
      PROVE  ClockInv'
  BY <1>1 DEF UpdateDisabled, ClockInv, CycleDuration, CruiseEnd, TypeOK
<1>2. ASSUME NEW d \in 0 .. ClockModulus - 1, BeginUpdate(d)
      PROVE  ClockInv'
  <2>1. TypeOK'
    BY TypeStep
  <2>2. /\ ((lastUpdate' - profileStart') % ClockModulus)
              + ((now' - lastUpdate') % ClockModulus) < ClockModulus
        /\ ClockModulus \in Nat \ {0}
    BY <1>2, <2>1 DEF BeginUpdate, TypeOK
  <2>3. (now' - profileStart') % ClockModulus = profileElapsed' + unprocessed'
    <3>1. lastUpdate' \in Int /\ profileStart' \in Int /\ now' \in Int
      BY <2>1 DEF TypeOK
    <3>2. (now' - profileStart') % ClockModulus
            = ((lastUpdate' - profileStart') % ClockModulus)
                + ((now' - lastUpdate') % ClockModulus)
      BY <2>2, <3>1, TimeSpansAdd
    <3>3. QED
      BY <1>2, <3>2 DEF BeginUpdate
  <2>4. /\ CycleDuration > 0 /\ pc' = "segment" /\ pc = "idle"
        /\ profileInitialized' = TRUE
        /\ profileElapsed' + unprocessed' < ClockModulus
        /\ remaining' = remaining
    <3>1. profileInitialized' = TRUE
      <4>1. profileInitialized = TRUE \/ profileInitialized = FALSE
        BY Zenon DEF TypeOK
      <4>2. QED
        BY <1>2, <4>1, Zenon DEF BeginUpdate, profile
    <3>2. QED
      BY <1>2, <3>1 DEF BeginUpdate
  <2>5. QED
    BY <2>3, <2>4 DEF ClockInv
<1>3. CASE BeginSegment
  BY <1>3 DEF BeginSegment, profile, ClockInv
<1>4. CASE EmitStep
  BY <1>4 DEF EmitStep, profile, ClockInv
<1>5. CASE EndSegment
  <2>1. profileElapsed' + unprocessed' = profileElapsed + unprocessed
    BY <1>5, SegmentBounds DEF EndSegment, ClockInv, TypeOK
  <2>2. QED
    BY <1>5, <2>1 DEF EndSegment, profile, ClockInv
<1>6. CASE FinishUpdate
  BY <1>6 DEF FinishUpdate, ClockInv
<1>7. ASSUME NEW steps \in - MaxMove .. MaxMove, BeginMove(steps)
      PROVE  ClockInv'
  BY <1>7 DEF BeginMove, ClockInv
<1>8. CASE MoveStep
  BY <1>8 DEF MoveStep, profile, ClockInv, TypeOK
<1>9. CASE UNCHANGED vars
  BY <1>9 DEF vars, profile, ClockInv
<1>10. QED
  BY <1>1, <1>2, <1>3, <1>4, <1>5, <1>6, <1>7, <1>8, <1>9
     DEF Next, Proceed, Call

\* The variables keep their types, at every profile and clock width.
THEOREM TypeCorrect == Spec => [](TypeOK /\ ClockInv)
<1> USE ControllerAssumption
<1>1. Init => TypeOK /\ ClockInv
  <2> SUFFICES ASSUME Init PROVE TypeOK /\ ClockInv
    OBVIOUS
  <2>1. 0 \in 0 .. ClockModulus - 1
    BY DEF CycleDuration, CruiseEnd
  <2>2. /\ profileInitialized \in BOOLEAN /\ directionForward \in BOOLEAN
        /\ directionPin \in BOOLEAN
    BY Zenon DEF Init
  <2>3. 0 \in 0 .. MaxMilliStepsPerSecond /\ 0 \in 0 .. MaxMove
    OBVIOUS
  <2>4. TypeOK
    BY <2>1, <2>2, <2>3 DEF Init, TypeOK
  <2>5. ClockInv
    BY <2>1 DEF Init, ClockInv
  <2>6. QED
    BY <2>4, <2>5
<1>2. QED
  BY <1>1, TypeStep, ClockStep, PTL DEF Spec

------------------------------------------------------------------------------
(* The steps taken and the distance of the profile.                         *)

\* Between two pulses of a blocking move or outside one, Settled is what the
\* position will be.
LEMMA SettledOutsideMoves ==
  ASSUME TypeOK, ClockInv, pc # "moving"
  PROVE  Settled = position /\ remaining = 0
BY DEF Settled, TypeOK, ClockInv

\* Steps are counted in whole numbers.
LEMMA TravelledIsInt == TypeOK => StepsPerCycle \in Int /\ Travelled \in Int
<1> SUFFICES ASSUME TypeOK PROVE StepsPerCycle \in Int /\ Travelled \in Int
  OBVIOUS
<1> USE ControllerAssumption
<1>1. CycleDuration \in 0 .. CycleDuration
  BY DEF CycleDuration, CruiseEnd
<1>2. Integral(CycleDuration) \in Nat
  BY <1>1, IntegralGrows
<1>3. StepsPerCycle \in Int
  BY <1>2, QuotientBounds DEF StepsPerCycle
<1>4. QED
  BY <1>3 DEF Travelled, Settled, TypeOK

\* At the end of a cycle all its whole steps have been taken.
LEMMA CycleIsComplete ==
  ASSUME TypeOK, stepAccumulator < StepUnit,
         NEW t \in Int, NEW reached \in Int,
         stepAccumulator + StepUnit * t = reached
  PROVE  reached \div StepUnit = t
<1>1. StepUnit \in Nat \ {0}
  BY ControllerAssumption
<1>2. StepUnit * t \in Int
  BY <1>1
<1>3. StepUnit * t <= reached /\ reached < StepUnit * t + StepUnit
  BY <1>1, <1>2 DEF TypeOK
<1>4. QED
  BY <1>1, <1>3, QuotientIsUnique

\* The accumulator and the steps taken always add up to the distance of the
\* part of the cycle they account for.
LEMMA AccumulatorStep ==
  TypeOK /\ ClockInv /\ AccumulatorInv /\ [Next]_vars => AccumulatorInv'
<1> SUFFICES ASSUME TypeOK, ClockInv, AccumulatorInv, [Next]_vars
             PROVE  AccumulatorInv'
  OBVIOUS
<1> USE ControllerAssumption
<1>1. ASSUME NEW d \in 0 .. ClockModulus - 1, UpdateDisabled(d)
      PROVE  AccumulatorInv'
  BY <1>1 DEF UpdateDisabled, AccumulatorInv
<1>2. ASSUME NEW d \in 0 .. ClockModulus - 1, BeginUpdate(d)
      PROVE  AccumulatorInv'
  <2>1. /\ pc = "idle" /\ pc' = "segment"
        /\ UNCHANGED <<position, remaining, directionForward>>
    BY <1>2, Zenon DEF BeginUpdate, direction
  <2>2. profileElapsed' = (lastUpdate' - profileStart') % ClockModulus
    BY <1>2, Zenon DEF BeginUpdate
  <2>3. CASE profileInitialized
    <3>1. UNCHANGED <<profileStart, lastUpdate, profileInitialized, origin,
                      stepAccumulator>>
      BY <1>2, <2>3, Zenon DEF BeginUpdate, profile
    <3>2. profileElapsed' = profileElapsed
      BY <2>1, <2>2, <2>3, <3>1 DEF ClockInv, TypeOK
    <3>3. /\ CycleElapsed' = CycleElapsed
          /\ EvenCycle' = EvenCycle
          /\ Settled' = Settled
      BY <2>1, <3>2 DEF CycleElapsed, EvenCycle, CycleIndex, Settled
    <3>4. Travelled' = Travelled /\ Accounted' = Accounted
      BY <2>1, <3>1, <3>3 DEF Travelled, Accounted
    <3>5. QED
      BY <2>1, <2>3, <3>1, <3>4 DEF AccumulatorInv
  <2>4. CASE ~ profileInitialized
    <3>1. /\ profileStart' = now' /\ lastUpdate' = now'
          /\ stepAccumulator' = 0 /\ origin' = position
      BY <1>2, <2>4, Zenon DEF BeginUpdate
    <3>2. CycleDuration \in Nat \ {0}
      BY <1>2 DEF BeginUpdate, CycleDuration, CruiseEnd
    <3>3. profileElapsed' = 0
      <4>1. now' = (now + d) % ClockModulus
        BY <1>2, Zenon DEF BeginUpdate
      <4>2. ClockModulus \in Nat \ {0}
        BY <3>2
      <4>3. now' - now' = 0
        <5>1. now + d \in Int
          BY DEF TypeOK
        <5>2. now' \in Int
          BY <4>1, <4>2, <5>1
        <5>3. \A n \in Int : n - n = 0
          OBVIOUS
        <5>4. QED
          BY <5>2, <5>3, Zenon
      <4>4. 0 % ClockModulus = 0
        BY <4>2
      <4>5. QED
        BY <2>2, <3>1, <4>3, <4>4
    <3>4. CycleElapsed' = 0 /\ EvenCycle'
      <4>1. 0 % CycleDuration = 0 /\ 0 \div CycleDuration = 0 /\ 0 % 2 = 0
        BY <3>2
      <4>2. QED
        BY <3>3, <4>1 DEF CycleElapsed, EvenCycle, CycleIndex
    <3>5. remaining = 0
      BY <2>1, SettledOutsideMoves
    <3>6. Travelled' = 0
      BY <2>1, <3>1, <3>4, <3>5 DEF Travelled, Settled, TypeOK
    <3>7. Accounted' = 0
      BY <2>1, <3>4 DEF Accounted
    <3>8. StepUnit * 0 = 0
      OBVIOUS
    <3>9. QED
      BY <2>1, <3>1, <3>6, <3>7, <3>8, IntegralOfNothing DEF AccumulatorInv
  <2>5. QED
    BY <2>3, <2>4
<1>3. CASE BeginSegment
  <2>1. /\ pc = "segment" /\ pc' = "pulses" /\ unprocessed > 0
        /\ UNCHANGED <<unprocessed, profileElapsed, remaining, position,
                       origin, profileInitialized>>
        /\ stepAccumulator' = stepAccumulator
                                + Integral(CycleElapsed + Interval)
                                - Integral(CycleElapsed)
        /\ SetDirection(EvenCycle)
    BY <1>3 DEF BeginSegment, profile
  <2>2. /\ CycleElapsed' = CycleElapsed /\ EvenCycle' = EvenCycle
        /\ Interval' = Interval
    BY <2>1 DEF CycleElapsed, EvenCycle, CycleIndex, Interval
  <2>3. directionForward' = EvenCycle
    BY <2>1, Zenon DEF SetDirection, direction
  <2>4. Settled = position /\ Settled' = position /\ remaining = 0
    BY <2>1, SettledOutsideMoves DEF Settled, TypeOK
  <2>5. Travelled' = Travelled
    BY <2>1, <2>2, <2>4 DEF Travelled
  <2>6. Accounted = CycleElapsed /\ Accounted' = CycleElapsed + Interval
    BY <2>1, <2>2 DEF Accounted
  <2>7. /\ Integral(CycleElapsed) \in Nat
        /\ Integral(CycleElapsed + Interval) \in Nat
    <3>1. /\ CycleElapsed \in 0 .. CycleDuration
          /\ CycleElapsed + Interval \in 0 .. CycleDuration
          /\ CycleElapsed <= CycleElapsed + Interval
      BY <2>1, SegmentBounds
    <3>2. QED
      BY <3>1, IntegralGrows
  <2>8. profileInitialized
    BY <2>1 DEF ClockInv
  <2>9. stepAccumulator + StepUnit * Travelled = Integral(CycleElapsed)
    BY <2>6, <2>8 DEF AccumulatorInv
  <2>10. StepUnit * Travelled \in Int
    <3>1. Travelled \in Int
      BY TravelledIsInt
    <3>2. QED
      BY <3>1
  <2>11. stepAccumulator' + StepUnit * Travelled'
           = Integral(CycleElapsed + Interval)
    BY <2>1, <2>5, <2>7, <2>9, <2>10 DEF TypeOK
  <2>12. directionForward' <=> EvenCycle'
    BY <2>2, <2>3, Zenon
  <2>13. stepAccumulator' + StepUnit * Travelled' = Integral(Accounted')
    BY <2>6, <2>11
  <2>14. QED
    BY <2>12, <2>13 DEF AccumulatorInv
<1>4. CASE EmitStep
  <2>1. /\ pc = "pulses" /\ pc' = "pulses"
        /\ UNCHANGED <<unprocessed, profileElapsed, remaining, origin,
                       profileInitialized, directionForward>>
        /\ stepAccumulator' = stepAccumulator - StepUnit
        /\ Pulse
    BY <1>4 DEF EmitStep, profile, direction
  <2>2. /\ EvenCycle' = EvenCycle /\ Accounted' = Accounted
    BY <2>1 DEF Accounted, CycleElapsed, EvenCycle, CycleIndex, Interval
  <2>3. Settled = position /\ Settled' = position' /\ remaining = 0
    BY <2>1, SettledOutsideMoves DEF Settled, TypeOK, Pulse
  <2>4. directionForward <=> EvenCycle
    BY <2>1 DEF AccumulatorInv
  <2>5. Travelled' = Travelled + 1
    <3>1. CASE EvenCycle
      <4>1. position' = position + 1 /\ EvenCycle'
        BY <2>1, <2>2, <2>4, <3>1, Zenon DEF Pulse
      <4>2. Travelled = position - origin /\ Travelled' = position' - origin
        BY <2>1, <2>3, <3>1, <4>1 DEF Travelled
      <4>3. QED
        BY <4>1, <4>2 DEF TypeOK
    <3>2. CASE ~ EvenCycle
      <4>1. position' = position - 1 /\ ~ EvenCycle'
        BY <2>1, <2>2, <2>4, <3>2, Zenon DEF Pulse
      <4>2. /\ Travelled = origin + StepsPerCycle - position
            /\ Travelled' = origin + StepsPerCycle - position'
        <5>1. StepsPerCycle' = StepsPerCycle
          BY DEF StepsPerCycle
        <5>2. QED
          BY <2>1, <2>3, <3>2, <4>1, <5>1 DEF Travelled
      <4>3. QED
        BY <4>1, <4>2, TravelledIsInt DEF TypeOK
    <3>3. QED
      BY <3>1, <3>2
  <2>6. profileInitialized
    BY <2>1 DEF ClockInv
  <2>7. stepAccumulator + StepUnit * Travelled = Integral(Accounted)
    BY <2>6 DEF AccumulatorInv
  <2>8. StepUnit * (Travelled + 1) = StepUnit * Travelled + StepUnit
    BY TravelledIsInt
  <2>9. StepUnit * Travelled \in Int
    BY TravelledIsInt
  <2>10. stepAccumulator' + StepUnit * Travelled' = Integral(Accounted')
    <3>1. stepAccumulator' + StepUnit * (Travelled + 1) = Integral(Accounted)
      BY <2>1, <2>7, <2>8, <2>9 DEF TypeOK
    <3>2. QED
      BY <2>2, <2>5, <3>1
  <2>11. directionForward' <=> EvenCycle'
    BY <2>1, <2>2, <2>4
  <2>12. QED
    BY <2>10, <2>11 DEF AccumulatorInv
<1>5. CASE EndSegment
  <2>1. /\ pc = "pulses" /\ pc' = "segment"
        /\ UNCHANGED <<remaining, position, origin, profileInitialized,
                       directionForward>>
        /\ profileElapsed' = profileElapsed + Interval
        /\ stepAccumulator' = IF CycleElapsed + Interval = CycleDuration
                                THEN 0 ELSE stepAccumulator
        /\ stepAccumulator < StepUnit
    BY <1>5 DEF EndSegment, MoreSteps, profile, direction, TypeOK
  <2>2. /\ CycleDuration \in Nat \ {0}
        /\ CycleElapsed \in 0 .. CycleDuration - 1
        /\ Interval \in Nat
        /\ CycleElapsed + Interval <= CycleDuration
    BY <2>1, SegmentBounds DEF ClockInv, TypeOK
  <2>3. Settled = position /\ Settled' = position /\ remaining = 0
    BY <2>1, SettledOutsideMoves DEF Settled, TypeOK
  <2>4. stepAccumulator + StepUnit * Travelled
          = Integral(CycleElapsed + Interval)
    BY <2>1 DEF AccumulatorInv, ClockInv, Accounted
  <2>5. Accounted' = CycleElapsed'
    BY <2>1 DEF Accounted
  <2>6. /\ CycleElapsed + Interval < CycleDuration =>
             /\ CycleElapsed' = CycleElapsed + Interval
             /\ CycleIndex' = CycleIndex
        /\ CycleElapsed + Interval = CycleDuration =>
             /\ CycleElapsed' = 0
             /\ CycleIndex' = CycleIndex + 1
    <3>1. profileElapsed \in Nat
      BY DEF TypeOK
    <3> DEFINE e == profileElapsed
               i == Interval
               d == CycleDuration
    <3>2. (e % d) + i <= d
      BY <2>2 DEF CycleElapsed
    <3>3. /\ (e % d) + i < d => /\ (e + i) % d = (e % d) + i
                                /\ (e + i) \div d = e \div d
          /\ (e % d) + i = d => /\ (e + i) % d = 0
                                /\ (e + i) \div d = (e \div d) + 1
      <4> HIDE DEF e, i, d
      <4>1. e \in Nat /\ i \in Nat /\ d \in Nat \ {0}
        BY <2>2, <3>1 DEF e, i, d
      <4>2. StaysOrCompletes(e, i, d)
        BY <3>2, <4>1, CycleAdvances
      <4>3. QED
        BY <4>2 DEF StaysOrCompletes
    <3>4. CycleDuration' = CycleDuration
      BY DEF CycleDuration, CruiseEnd
    <3>5. QED
      BY <2>1, <3>3, <3>4 DEF CycleElapsed, CycleIndex
  <2>7. CASE CycleElapsed + Interval < CycleDuration
    <3>1. EvenCycle' = EvenCycle
      BY <2>6, <2>7 DEF EvenCycle
    <3>2. Travelled' = Travelled
      BY <2>1, <2>3, <3>1 DEF Travelled
    <3>3. stepAccumulator' = stepAccumulator
      BY <2>1, <2>2, <2>7
    <3>4. QED
      BY <2>1, <2>4, <2>5, <2>6, <2>7, <3>2, <3>3 DEF AccumulatorInv
  <2>8. CASE CycleElapsed + Interval = CycleDuration
    <3>1. StepsPerCycle = Travelled
      <4>1. Integral(CycleDuration) \in Int
        <5>1. CycleDuration \in 0 .. CycleDuration
          BY <2>2
        <5>2. QED
          BY <5>1, IntegralGrows
      <4>2. QED
        BY <2>1, <2>4, <2>8, <4>1, TravelledIsInt, CycleIsComplete
           DEF StepsPerCycle
    <3>2. EvenCycle' <=> ~ EvenCycle
      <4>1. CycleIndex \in Int
        BY <2>2, QuotientBounds DEF CycleIndex, TypeOK
      <4>2. \A k \in Int : (k + 1) % 2 = 0 <=> ~ (k % 2 = 0)
        OBVIOUS
      <4>3. QED
        BY <2>6, <2>8, <4>1, <4>2 DEF EvenCycle
    <3>3. Travelled' = 0
      <4>1. StepsPerCycle' = StepsPerCycle /\ StepsPerCycle \in Int
        BY TravelledIsInt DEF StepsPerCycle
      <4>2. CASE EvenCycle
        <5>1. Travelled = position - origin
          BY <2>3, <4>2 DEF Travelled
        <5>2. Travelled' = origin + StepsPerCycle - position
          BY <2>1, <2>3, <3>2, <4>1, <4>2 DEF Travelled
        <5>3. QED
          BY <3>1, <4>1, <5>1, <5>2 DEF TypeOK
      <4>3. CASE ~ EvenCycle
        <5>1. Travelled = origin + StepsPerCycle - position
          BY <2>3, <4>3 DEF Travelled
        <5>2. Travelled' = position - origin
          BY <2>1, <2>3, <3>2, <4>3 DEF Travelled
        <5>3. QED
          BY <3>1, <4>1, <5>1, <5>2 DEF TypeOK
      <4>4. QED
        BY <4>2, <4>3
    <3>4. stepAccumulator' = 0 /\ StepUnit * 0 = 0
      BY <2>1, <2>8
    <3>5. QED
      BY <2>1, <2>5, <2>6, <2>8, <3>3, <3>4, IntegralOfNothing
         DEF AccumulatorInv
  <2>9. QED
    BY <2>2, <2>7, <2>8
<1>6. CASE FinishUpdate
  <2>1. /\ pc = "segment" /\ pc' = "idle"
        /\ UNCHANGED <<profileElapsed, remaining, position, origin,
                       stepAccumulator, profileInitialized>>
    BY <1>6 DEF FinishUpdate
  <2>2. Settled = position /\ Settled' = position
    BY <2>1, SettledOutsideMoves DEF Settled, TypeOK
  <2>3. EvenCycle' = EvenCycle /\ CycleElapsed' = CycleElapsed
    BY <2>1 DEF EvenCycle, CycleIndex, CycleElapsed
  <2>4. Travelled' = Travelled /\ Accounted' = Accounted
    BY <2>1, <2>2, <2>3 DEF Travelled, Accounted
  <2>5. QED
    BY <2>1, <2>4 DEF AccumulatorInv
<1>7. ASSUME NEW steps \in - MaxMove .. MaxMove, BeginMove(steps)
      PROVE  AccumulatorInv'
  <2>1. /\ pc = "idle" /\ pc' = "moving" /\ steps # 0
        /\ remaining' = IF steps > 0 THEN steps ELSE - steps
        /\ origin' = IF profileInitialized THEN origin + steps ELSE origin
        /\ UNCHANGED <<profileElapsed, position, stepAccumulator,
                       profileInitialized>>
        /\ SetDirection(steps > 0)
    BY <1>7 DEF BeginMove
  <2>2. directionForward' = (steps > 0)
    BY <2>1, Zenon DEF SetDirection, direction
  <2>3. Settled = position /\ Settled' = position + steps
    <3>1. Settled = position
      BY <2>1, SettledOutsideMoves
    <3>2. CASE steps > 0
      BY <2>1, <2>2, <3>1, <3>2 DEF Settled, TypeOK
    <3>3. CASE ~ (steps > 0)
      <4>1. Settled' = position' - remaining'
        BY <2>2, <3>3, Zenon DEF Settled
      <4>2. QED
        BY <2>1, <3>1, <3>3, <4>1 DEF TypeOK
    <3>4. QED
      BY <3>2, <3>3
  <2>4. EvenCycle' = EvenCycle /\ CycleElapsed' = CycleElapsed
    BY <2>1 DEF EvenCycle, CycleIndex, CycleElapsed
  <2>5. profileInitialized => Travelled' = Travelled
    <3>1. StepsPerCycle' = StepsPerCycle /\ StepsPerCycle \in Int
      BY TravelledIsInt DEF StepsPerCycle
    <3>2. QED
      BY <2>1, <2>3, <2>4, <3>1 DEF Travelled, TypeOK
  <2>6. Accounted' = Accounted
    BY <2>1, <2>4 DEF Accounted
  <2>7. QED
    BY <2>1, <2>5, <2>6 DEF AccumulatorInv
<1>8. CASE MoveStep
  <2>1. /\ pc = "moving" /\ pc' \in {"idle", "moving"}
        /\ remaining' = remaining - 1
        /\ UNCHANGED <<profileElapsed, origin, stepAccumulator,
                       profileInitialized, directionForward>>
        /\ Pulse
    BY <1>8 DEF MoveStep, profile, direction
  <2>2. Settled' = Settled
    BY <2>1 DEF Settled, Pulse, TypeOK
  <2>3. EvenCycle' = EvenCycle /\ CycleElapsed' = CycleElapsed
    BY <2>1 DEF EvenCycle, CycleIndex, CycleElapsed
  <2>4. Travelled' = Travelled /\ Accounted' = Accounted
    BY <2>1, <2>2, <2>3 DEF Travelled, Accounted
  <2>5. QED
    BY <2>1, <2>4 DEF AccumulatorInv
<1>9. CASE UNCHANGED vars
  BY <1>9 DEF vars, profile, direction, AccumulatorInv, Travelled, Settled,
              Accounted, CycleElapsed, CycleIndex, EvenCycle, Interval
<1>10. QED
  BY <1>1, <1>2, <1>3, <1>4, <1>5, <1>6, <1>7, <1>8, <1>9
     DEF Next, Proceed, Call

\* Between calls the position depends on the time the profile has run and on
\* nothing else, for every trapezoid and every spacing of the calls.
THEOREM PositionOnlyDependsOnTime == Spec => []PositionFollowsProfile
<1> USE ControllerAssumption
<1>1. Init => AccumulatorInv
  BY DEF Init, AccumulatorInv
<1>2. TypeOK /\ ClockInv /\ AccumulatorInv => PositionFollowsProfile
  <2> SUFFICES ASSUME TypeOK, ClockInv, AccumulatorInv,
                      pc = "idle", profileInitialized
               PROVE  position
                        = origin + IF EvenCycle
                                     THEN Integral(CycleElapsed) \div StepUnit
                                     ELSE StepsPerCycle
                                       - Integral(CycleElapsed) \div StepUnit
    BY DEF PositionFollowsProfile
  <2>1. stepAccumulator + StepUnit * Travelled = Integral(CycleElapsed)
    BY DEF AccumulatorInv, Accounted
  <2>2. Integral(CycleElapsed) \in Int
    <3>1. CycleDuration \in Nat \ {0}
      BY DEF ClockInv, CycleDuration, CruiseEnd
    <3>2. CycleElapsed \in 0 .. CycleDuration
      BY <3>1, QuotientBounds DEF CycleElapsed, TypeOK
    <3>3. QED
      BY <3>2, IntegralGrows
  <2>3. stepAccumulator < StepUnit
    BY DEF TypeOK
  <2>4. Integral(CycleElapsed) \div StepUnit = Travelled
    BY <2>1, <2>2, <2>3, TravelledIsInt, CycleIsComplete
  <2>5. Travelled = IF EvenCycle THEN position - origin
                                 ELSE origin + StepsPerCycle - position
    BY SettledOutsideMoves DEF Travelled
  <2>6. QED
    BY <2>4, <2>5, TravelledIsInt DEF TypeOK
<1>3. QED
  BY <1>1, <1>2, AccumulatorStep, TypeCorrect, PTL DEF Spec

------------------------------------------------------------------------------
(* The speed that is reported.                                              *)

\* What lies strictly between -2 and 4 times a number lies between -1 and 3
\* times it.
LEMMA MultipleInBetween ==
  ASSUME NEW d \in Nat \ {0}, NEW k \in Int, d * k > - (2 * d), d * k < 4 * d
  PROVE  k \in -1 .. 3
<1>1. k > -2
  <2> SUFFICES ASSUME k <= -2 PROVE FALSE
    OBVIOUS
  <2>1. d * k <= d * (-2)
    BY ProductIsMonotone
  <2> QED
    BY <2>1
<1>2. k < 4
  <2> SUFFICES ASSUME k >= 4 PROVE FALSE
    OBVIOUS
  <2>1. d * 4 <= d * k
    BY ProductIsMonotone
  <2> QED
    BY <2>1
<1> QED
  BY <1>1, <1>2

\* Twice the growth of a ramp in its millisecond a, and the speeds at the two
\* ends of it, on the way up and on the way down.
LEMMA RampSlope ==
  ASSUME NEW d \in Nat \ {0}, NEW a \in 0 .. d - 1
  PROVE  LET V == MaxMilliStepsPerSecond
             growth == Ramp(a + 1, d) - Ramp(a, d)
         IN  /\ 2 * growth - ((V * a) \div d + (V * (a + 1)) \div d) \in -1 .. 3
             /\ 2 * V - 2 * growth
                  - ((V * (d - a)) \div d + (V * (d - (a + 1))) \div d) \in -1 .. 3
<1> DEFINE V == MaxMilliStepsPerSecond
           m == 2 * d
           x == V * a * a
           y == V * (a + 1) * (a + 1)
           p == x \div m
           q == y \div m
           w == V * (2 * a + 1)
           up1 == (V * a) \div d
           up2 == (V * (a + 1)) \div d
           down1 == (V * (d - a)) \div d
           down2 == (V * (d - (a + 1))) \div d
<1>0. V \in Nat /\ a \in Nat /\ d \in Nat \ {0} /\ m \in Nat \ {0}
  BY ControllerAssumption
<1>1. Ramp(a, d) = p /\ Ramp(a + 1, d) = q
  BY <1>0 DEF Ramp
<1> HIDE DEF V
<1>2. x \in Int /\ y \in Int /\ w \in Int /\ y - x = w
  <2>1. V * a \in Int /\ V * (a + 1) \in Int
    BY <1>0
  <2>2. x \in Int /\ y \in Int /\ w \in Int
    BY <1>0, <2>1
  <2>3. y - x = w
    BY <1>0
  <2> QED
    BY <2>2, <2>3
<1>3. p \in Int /\ q \in Int /\ m * p <= x /\ x < m * p + m
      /\ m * q <= y /\ y < m * q + m
  <2> HIDE DEF x, y, m
  <2> QED
    BY <1>0, <1>2, QuotientBounds
<1>4. up1 \in Int /\ up2 \in Int /\ d * up1 <= V * a /\ V * a < d * up1 + d
      /\ d * up2 <= V * (a + 1) /\ V * (a + 1) < d * up2 + d
  BY <1>0, QuotientBounds
<1>5. down1 \in Int /\ down2 \in Int
      /\ d * down1 <= V * (d - a) /\ V * (d - a) < d * down1 + d
      /\ d * down2 <= V * (d - (a + 1)) /\ V * (d - (a + 1)) < d * down2 + d
  BY <1>0, QuotientBounds
<1>6. /\ V * a + V * (a + 1) = w
      /\ V * (d - a) + V * (d - (a + 1)) = 2 * (d * V) - w
  BY <1>0
<1>7. V * a \in Int /\ V * (a + 1) \in Int /\ V * (d - a) \in Int
      /\ V * (d - (a + 1)) \in Int /\ d * V \in Int
  BY <1>0
<1> DEFINE grown == q - p
           climb == 2 * grown - (up1 + up2)
           fall == 2 * V - 2 * grown - (down1 + down2)
<1>8. grown \in Int /\ m * q - m * p = 2 * (d * grown)
  BY <1>0, <1>3
<1> HIDE DEF x, y, p, q, w, up1, up2, down1, down2
<1>9. d * climb = 2 * (d * grown) - (d * up1 + d * up2)
  BY <1>0, <1>4, <1>8
<1>10. d * fall = 2 * (d * V) - 2 * (d * grown) - (d * down1 + d * down2)
  BY <1>0, <1>5, <1>8
<1>11. d * grown \in Int /\ d * up1 \in Int /\ d * up2 \in Int
       /\ d * down1 \in Int /\ d * down2 \in Int /\ m * p \in Int /\ m * q \in Int
  BY <1>0, <1>3, <1>4, <1>5, <1>8
<1>12. 2 * (d * grown) > w - m /\ 2 * (d * grown) < w + m
  BY <1>0, <1>2, <1>3, <1>8, <1>11
<1>13. d * climb > - (2 * d) /\ d * climb < 4 * d
  BY <1>0, <1>2, <1>4, <1>6, <1>7, <1>9, <1>11, <1>12
<1>14. d * fall > - (2 * d) /\ d * fall < 4 * d
  BY <1>0, <1>2, <1>5, <1>6, <1>7, <1>10, <1>11, <1>12
<1>15. climb \in Int /\ fall \in Int
  BY <1>0, <1>4, <1>5, <1>8
<1> HIDE DEF climb, fall
<1>16. climb \in -1 .. 3 /\ fall \in -1 .. 3
  BY <1>0, <1>13, <1>14, <1>15, MultipleInBetween
<1> QED
  BY <1>1, <1>16 DEF climb, fall, V, up1, up2, down1, down2

\* The whole of the full speed is the full speed.
LEMMA WholeSpeed ==
  ASSUME NEW m \in Nat \ {0}
  PROVE  (MaxMilliStepsPerSecond * m) \div m = MaxMilliStepsPerSecond
<1> DEFINE V == MaxMilliStepsPerSecond
<1>1. V \in Nat
  BY ControllerAssumption
<1> HIDE DEF V
<1>2. V * m = 0 + m * V
  BY <1>1
<1>3. (0 + m * V) \div m = (0 \div m) + V
  BY <1>1, QuotientOfShifted
<1>4. 0 \div m = 0
  OBVIOUS
<1>5. (V * m) \div m = V
  BY <1>1, <1>2, <1>3, <1>4
<1> QED
  BY <1>5 DEF V

\* The speed is one formula in each phase, and neighbouring formulas agree
\* where the phases meet, unless one of them lasts no time.
LEMMA SpeedByPhase ==
  ASSUME NEW t \in 0 .. CycleDuration
  PROVE  /\ t <= Acceleration /\ Acceleration > 0 /\ t < CycleDuration =>
              SpeedAt(t) = (MaxMilliStepsPerSecond * t) \div Acceleration
         /\ t >= Acceleration /\ t <= CruiseEnd /\ t < CycleDuration =>
              SpeedAt(t) = MaxMilliStepsPerSecond
         /\ t >= CruiseEnd /\ Deceleration > 0 =>
              SpeedAt(t) = (MaxMilliStepsPerSecond * (CycleDuration - t))
                             \div Deceleration
<1> DEFINE V == MaxMilliStepsPerSecond
<1>1. /\ V \in Nat /\ Acceleration \in Nat /\ CruiseEnd \in Nat
      /\ Deceleration \in Nat /\ CycleDuration \in Nat
      /\ Acceleration <= CruiseEnd
      /\ CycleDuration = CruiseEnd + Deceleration
  BY ControllerAssumption DEF CruiseEnd, CycleDuration
<1>2. ASSUME t >= Acceleration, t <= CruiseEnd, t < CycleDuration
      PROVE  SpeedAt(t) = V
  <2>1. CASE t < CruiseEnd \/ t = 0
    BY <1>1, <1>2, <2>1 DEF SpeedAt
  <2>2. CASE t = CruiseEnd /\ t # 0
    <3>1. SpeedAt(t) = (V * (CycleDuration - t)) \div Deceleration
      BY <1>1, <1>2, <2>2 DEF SpeedAt
    <3>2. Deceleration \in Nat \ {0} /\ CycleDuration - t = Deceleration
      BY <1>1, <1>2, <2>2
    <3>3. (V * Deceleration) \div Deceleration = V
      BY <3>2, WholeSpeed
    <3> QED
      BY <3>1, <3>2, <3>3
  <2> QED
    BY <1>2, <2>1, <2>2, <1>1
<1>3. ASSUME t <= Acceleration, Acceleration > 0, t < CycleDuration
      PROVE  SpeedAt(t) = (V * t) \div Acceleration
  <2>1. CASE t < Acceleration
    BY <1>1, <2>1 DEF SpeedAt
  <2>2. CASE t = Acceleration
    <3>1. SpeedAt(t) = V
      BY <1>1, <1>2, <1>3, <2>2
    <3>2. (V * Acceleration) \div Acceleration = V
      BY <1>1, <1>3, WholeSpeed
    <3> QED
      BY <2>2, <3>1, <3>2
  <2> QED
    BY <1>1, <1>3, <2>1, <2>2
<1>4. ASSUME t >= CruiseEnd, Deceleration > 0
      PROVE  SpeedAt(t) = (V * (CycleDuration - t)) \div Deceleration
  <2>1. CASE t = CruiseEnd
    <3>1. SpeedAt(t) = V
      BY <1>1, <1>2, <1>4, <2>1
    <3>2. Deceleration \in Nat \ {0} /\ CycleDuration - t = Deceleration
      BY <1>1, <1>4, <2>1
    <3>3. (V * Deceleration) \div Deceleration = V
      BY <3>2, WholeSpeed
    <3> QED
      BY <3>1, <3>2, <3>3
  <2>2. CASE t > CruiseEnd /\ t < CycleDuration
    BY <1>1, <2>2 DEF SpeedAt
  <2>3. CASE t > CruiseEnd /\ t = CycleDuration
    <3>1. SpeedAt(t) = 0
      BY <1>1, <2>3 DEF SpeedAt
    <3>2. V * (CycleDuration - t) = 0
      <4>1. CycleDuration - t = 0 /\ V * 0 = 0
        BY <1>1, <2>3
      <4> QED
        BY <4>1, Zenon
    <3>3. 0 \div Deceleration = 0
      BY <1>1, <1>4
    <3> QED
      BY <3>1, <3>2, <3>3
  <2> QED
    BY <1>1, <1>4, <2>1, <2>2, <2>3
<1> QED
  BY <1>2, <1>3, <1>4 DEF V

\* In every millisecond of a cycle twice the distance made is the sum of the
\* speeds at its two ends, up to their roundings; only where a profile
\* without deceleration stops at once is there no slope.
LEMMA SlopeOfTheDistance ==
  ASSUME NEW t \in 0 .. CycleDuration - 1, HasSlope(t)
  PROVE  2 * (Integral(t + 1) - Integral(t)) - (SpeedAt(t) + SpeedAt(t + 1))
           \in -1 .. 3
<1> DEFINE V == MaxMilliStepsPerSecond
           grown == Integral(t + 1) - Integral(t)
<1>1. /\ V \in Nat /\ Acceleration \in Nat /\ Cruise \in Nat
      /\ Deceleration \in Nat /\ CruiseEnd = Acceleration + Cruise
      /\ CycleDuration = CruiseEnd + Deceleration
  BY ControllerAssumption DEF CruiseEnd, CycleDuration
<1>2. t \in 0 .. CycleDuration /\ t + 1 \in 0 .. CycleDuration
  BY <1>1
<1>3. Deceleration > 0 \/ t + 1 < CycleDuration
  BY DEF HasSlope
<1> DEFINE terms(s) == Ramp(Accelerating(s), Acceleration)
                         + V * Cruising(s) + V * Decelerating(s)
                         - Ramp(Decelerating(s), Deceleration)
<1>4. Integral(t) = terms(t) /\ Integral(t + 1) = terms(t + 1)
  BY <1>2, IntegralByPhase
<1>5. CASE t < Acceleration
  <2>1. /\ Accelerating(t) = t /\ Accelerating(t + 1) = t + 1
        /\ Cruising(t) = 0 /\ Cruising(t + 1) = 0
        /\ Decelerating(t) = 0 /\ Decelerating(t + 1) = 0
    BY <1>1, <1>5 DEF Accelerating, Cruising, Decelerating, Smaller
  <2>2. /\ Ramp(t, Acceleration) \in Int /\ Ramp(t + 1, Acceleration) \in Int
        /\ Ramp(0, Deceleration) \in Int /\ V * 0 = 0
    BY <1>1, <1>5, RampIsWhole
  <2>3. grown = Ramp(t + 1, Acceleration) - Ramp(t, Acceleration)
    <3> HIDE DEF V
    <3> QED
      BY <1>4, <2>1, <2>2
  <2>4. /\ SpeedAt(t) = (V * t) \div Acceleration
        /\ SpeedAt(t + 1) = (V * (t + 1)) \div Acceleration
    BY <1>1, <1>2, <1>5, <1>3, SpeedByPhase
  <2>5. 2 * (Ramp(t + 1, Acceleration) - Ramp(t, Acceleration))
          - ((V * t) \div Acceleration + (V * (t + 1)) \div Acceleration)
          \in -1 .. 3
    BY <1>1, <1>5, RampSlope
  <2> HIDE DEF grown
  <2>6. 2 * grown - (SpeedAt(t) + SpeedAt(t + 1)) \in -1 .. 3
    BY <2>3, <2>4, <2>5
  <2> QED
    BY <2>6 DEF grown
<1>6. CASE t >= Acceleration /\ t < CruiseEnd
  <2>1. /\ Accelerating(t) = Acceleration /\ Accelerating(t + 1) = Acceleration
        /\ Cruising(t) = t - Acceleration
        /\ Cruising(t + 1) = t + 1 - Acceleration
        /\ Decelerating(t) = 0 /\ Decelerating(t + 1) = 0
    BY <1>1, <1>6 DEF Accelerating, Cruising, Decelerating, Smaller
  <2>2. /\ Ramp(Acceleration, Acceleration) \in Int
        /\ Ramp(0, Deceleration) \in Int /\ V * 0 = 0
    BY <1>1, RampIsWhole
  <2>3. grown = V
    <3> DEFINE c == V * (t - Acceleration)
               e == V * (t + 1 - Acceleration)
    <3>1. c \in Int /\ e \in Int /\ e - c = V
      BY <1>1
    <3>2. /\ terms(t) = Ramp(Acceleration, Acceleration) + c + V * 0
                          - Ramp(0, Deceleration)
          /\ terms(t + 1) = Ramp(Acceleration, Acceleration) + e + V * 0
                              - Ramp(0, Deceleration)
      BY <2>1, Zenon
    <3> HIDE DEF c, e, terms
    <3> QED
      BY <1>1, <1>4, <2>2, <3>1, <3>2
  <2>4. SpeedAt(t) = V /\ SpeedAt(t + 1) = V
    BY <1>1, <1>2, <1>6, <1>3, SpeedByPhase
  <2> HIDE DEF grown, V
  <2>5. 2 * grown - (SpeedAt(t) + SpeedAt(t + 1)) \in -1 .. 3
    BY <1>1, <2>3, <2>4
  <2> QED
    BY <2>5 DEF grown
<1>7. CASE t >= CruiseEnd
  <2> DEFINE a == t - CruiseEnd
  <2>0. Deceleration > 0 /\ a \in 0 .. Deceleration - 1
    BY <1>1, <1>7, <1>3
  <2>1. /\ Accelerating(t) = Acceleration /\ Accelerating(t + 1) = Acceleration
        /\ Cruising(t) = Cruise /\ Cruising(t + 1) = Cruise
        /\ Decelerating(t) = a /\ Decelerating(t + 1) = a + 1
    BY <1>1, <1>7 DEF Accelerating, Cruising, Decelerating, Smaller
  <2>2. /\ Ramp(Acceleration, Acceleration) \in Int
        /\ Ramp(a, Deceleration) \in Int /\ Ramp(a + 1, Deceleration) \in Int
    BY <1>1, <2>0, RampIsWhole
  <2>3. grown = V - (Ramp(a + 1, Deceleration) - Ramp(a, Deceleration))
    <3> DEFINE c == V * a
               e == V * (a + 1)
               k == V * Cruise
    <3>1. c \in Int /\ e \in Int /\ k \in Int /\ e - c = V
      BY <1>1, <2>0
    <3>2. /\ terms(t) = Ramp(Acceleration, Acceleration) + k + c
                          - Ramp(a, Deceleration)
          /\ terms(t + 1) = Ramp(Acceleration, Acceleration) + k + e
                              - Ramp(a + 1, Deceleration)
      <4> HIDE DEF a
      <4> QED
        BY <2>1, Zenon
    <3> HIDE DEF c, e, k, terms, a
    <3> QED
      BY <1>1, <1>4, <2>2, <3>1, <3>2
  <2>4. /\ SpeedAt(t) = (V * (Deceleration - a)) \div Deceleration
        /\ SpeedAt(t + 1) = (V * (Deceleration - (a + 1))) \div Deceleration
    <3>1. /\ CycleDuration - t = Deceleration - a
          /\ CycleDuration - (t + 1) = Deceleration - (a + 1)
      BY <1>1
    <3>2. /\ SpeedAt(t) = (V * (CycleDuration - t)) \div Deceleration
          /\ SpeedAt(t + 1) = (V * (CycleDuration - (t + 1))) \div Deceleration
      BY <1>1, <1>2, <1>7, <2>0, SpeedByPhase
    <3> QED
      BY <3>1, <3>2
  <2>5. 2 * V - 2 * (Ramp(a + 1, Deceleration) - Ramp(a, Deceleration))
          - ((V * (Deceleration - a)) \div Deceleration
             + (V * (Deceleration - (a + 1))) \div Deceleration)
          \in -1 .. 3
    <3> HIDE DEF a
    <3> QED
      BY <1>1, <2>0, RampSlope
  <2> HIDE DEF grown, V, a
  <2>6. 2 * grown
          = 2 * V - 2 * (Ramp(a + 1, Deceleration) - Ramp(a, Deceleration))
    BY <1>1, <2>2, <2>3
  <2>7. 2 * grown - (SpeedAt(t) + SpeedAt(t + 1)) \in -1 .. 3
    BY <2>4, <2>5, <2>6
  <2> QED
    BY <2>7 DEF grown
<1> QED
  BY <1>1, <1>5, <1>6, <1>7

\* Between calls, and during a blocking move, the speed that is reported is
\* that of the moment the profile has reached.
ReportInv ==
  profileInitialized /\ pc \in {"idle", "moving"} =>
    speed = SpeedAt(CycleElapsed)

\* The reported speed is the slope of the distance the steps are taken from,
\* for every trapezoid: the four roundings amount to no more than -1 .. 3.
THEOREM SpeedIsSlope == Spec => []SpeedIsTheSlope
<1> USE ControllerAssumption
<1>1. Init => ReportInv
  BY DEF Init, ReportInv
<1>2. TypeOK /\ ClockInv /\ ReportInv /\ [Next]_vars => ReportInv'
  <2> SUFFICES ASSUME TypeOK, ClockInv, ReportInv, [Next]_vars,
                      profileInitialized', pc' \in {"idle", "moving"}
               PROVE  speed' = SpeedAt(CycleElapsed)'
    BY DEF ReportInv
  <2>1. ASSUME NEW d \in 0 .. ClockModulus - 1, UpdateDisabled(d)
        PROVE  FALSE
    BY <2>1 DEF UpdateDisabled
  <2>2. ASSUME NEW d \in 0 .. ClockModulus - 1, BeginUpdate(d) PROVE FALSE
    BY <2>2 DEF BeginUpdate
  <2>3. ASSUME BeginSegment \/ EmitStep \/ EndSegment PROVE FALSE
    BY <2>3 DEF BeginSegment, EmitStep, EndSegment
  <2>4. CASE FinishUpdate
    <3>1. speed' = SpeedAt(CycleElapsed) /\ profileElapsed' = profileElapsed
      BY <2>4 DEF FinishUpdate
    <3> QED
      BY <3>1 DEF CycleElapsed, SpeedAt, CycleDuration, CruiseEnd
  <2>5. ASSUME NEW steps \in - MaxMove .. MaxMove, BeginMove(steps)
        PROVE  speed' = SpeedAt(CycleElapsed)'
    <3>1. /\ pc = "idle" /\ profileInitialized
          /\ speed' = speed /\ profileElapsed' = profileElapsed
      BY <2>5 DEF BeginMove
    <3>2. speed = SpeedAt(CycleElapsed)
      BY <3>1 DEF ReportInv
    <3> QED
      BY <3>1, <3>2 DEF CycleElapsed, SpeedAt, CycleDuration, CruiseEnd
  <2>6. CASE MoveStep
    <3>1. /\ pc = "moving" /\ profileInitialized
          /\ speed' = speed /\ profileElapsed' = profileElapsed
      BY <2>6 DEF MoveStep, profile
    <3>2. speed = SpeedAt(CycleElapsed)
      BY <3>1 DEF ReportInv
    <3> QED
      BY <3>1, <3>2 DEF CycleElapsed, SpeedAt, CycleDuration, CruiseEnd
  <2>7. CASE UNCHANGED vars
    <3>1. /\ pc \in {"idle", "moving"} /\ profileInitialized
          /\ speed' = speed /\ profileElapsed' = profileElapsed
      BY <2>7 DEF vars, profile
    <3>2. speed = SpeedAt(CycleElapsed)
      BY <3>1 DEF ReportInv
    <3> QED
      BY <3>1, <3>2 DEF CycleElapsed, SpeedAt, CycleDuration, CruiseEnd
  <2> QED
    BY <2>1, <2>2, <2>3, <2>4, <2>5, <2>6, <2>7 DEF Next, Proceed, Call
<1>3. TypeOK /\ ClockInv /\ ReportInv => SpeedIsTheSlope
  <2> SUFFICES ASSUME TypeOK, ClockInv, ReportInv, pc = "idle",
                      profileInitialized, HasSlope(CycleElapsed)
               PROVE  2 * (Integral(CycleElapsed + 1) - Integral(CycleElapsed))
                        - (speed + SpeedAt(CycleElapsed + 1)) \in -1 .. 3
    BY DEF SpeedIsTheSlope
  <2>1. CycleDuration \in Nat \ {0}
    BY DEF ClockInv, CycleDuration, CruiseEnd
  <2>2. CycleElapsed \in 0 .. CycleDuration - 1
    BY <2>1, QuotientBounds DEF CycleElapsed, TypeOK
  <2>3. speed = SpeedAt(CycleElapsed)
    BY DEF ReportInv
  <2>4. 2 * (Integral(CycleElapsed + 1) - Integral(CycleElapsed))
          - (SpeedAt(CycleElapsed) + SpeedAt(CycleElapsed + 1)) \in -1 .. 3
    BY <2>2, SlopeOfTheDistance
  <2> QED
    BY <2>3, <2>4
<1>4. QED
  BY <1>1, <1>2, <1>3, TypeCorrect, PTL DEF Spec
===============================================================================
