------------------------ MODULE StepperMotorController ------------------------
(****************************************************************************)
(* One stepper motor of the Arduino firmware: StepperMotorController.cpp    *)
(* with the step/direction driver it drives (AvrStepDirectionDriver.cpp).   *)
(*                                                                          *)
(* update() turns the milliseconds since the last call into step pulses of  *)
(* a repeating trapezoid: forward in even cycles, backward in odd ones.  A  *)
(* call may come after any delay, so one call may have to catch up with     *)
(* several cycles; each cycle it touches is a segment of the loop here.     *)
(* moveBlockingSteps() moves the same motor outside the profile.            *)
(*                                                                          *)
(* Speeds are milli-steps per second and times milliseconds, so their       *)
(* product counts StepUnit-ths of a step.                                   *)
(****************************************************************************)
EXTENDS Integers

CONSTANTS MaxMilliStepsPerSecond, \* m_maxMilliStepsPerSecond
          Acceleration, Cruise, Deceleration,  \* m_*Milliseconds
          StepUnit,           \* 1000000
          ClockModulus,       \* 2^32
          DirectionInverted,  \* m_directionInverted of the driver
          MaxMove,            \* bound: steps of one blocking move
          MaxPosition         \* bound: where moves and profiles may start

CruiseEnd == Acceleration + Cruise
CycleDuration == CruiseEnd + Deceleration

ASSUME ControllerAssumption ==
  /\ MaxMilliStepsPerSecond \in Nat
  /\ Acceleration \in Nat /\ Cruise \in Nat /\ Deceleration \in Nat
  /\ StepUnit \in Nat \ {0}
  /\ ClockModulus \in Nat /\ CycleDuration < ClockModulus
  /\ DirectionInverted \in BOOLEAN
  /\ MaxMove \in Nat /\ MaxPosition \in Nat

VARIABLES pc,                  \* where the main program is: "idle" is outside
          now, unprocessed, profileElapsed,   \* locals of update
          remaining,           \* pulses moveBlockingSteps has yet to emit
          profileStart, lastUpdate, stepAccumulator, position, speed,
          directionForward, profileInitialized,
          directionPin,        \* the DIR output
          shaft,               \* ghost: where the motor has really gone
          origin               \* ghost: position when the profile began,
                               \* moved along by blocking moves

profile == <<profileStart, lastUpdate, profileInitialized, origin>>
direction == <<directionForward, directionPin>>
vars == <<pc, now, unprocessed, profileElapsed, remaining, profile,
          stepAccumulator, position, speed, direction, shaft>>

Smaller(a, b) == IF a < b THEN a ELSE b

------------------------------------------------------------------------------
(* The trapezoid.                                                           *)

\* Mutant: deceleration as a second acceleration.
SpeedAtRising(t) ==
  CASE t < Acceleration -> (MaxMilliStepsPerSecond * t) \div Acceleration
    [] t < CruiseEnd -> MaxMilliStepsPerSecond
    [] t >= CycleDuration -> 0
    [] OTHER -> (MaxMilliStepsPerSecond * (t - CruiseEnd)) \div Deceleration

\* The speed t milliseconds into a cycle.  A profile without acceleration
\* starts at full speed, even one without cruise.
SpeedAt(t) ==
  CASE t < Acceleration -> (MaxMilliStepsPerSecond * t) \div Acceleration
    [] t = 0 /\ Acceleration = 0 -> MaxMilliStepsPerSecond
    [] t \in Acceleration .. CruiseEnd - 1 -> MaxMilliStepsPerSecond
    [] t > 0 /\ t >= CycleDuration -> 0
    [] OTHER -> (MaxMilliStepsPerSecond * (CycleDuration - t))
                   \div Deceleration

\* The distance from the start of a cycle to t milliseconds into it: a ramp
\* up, a rectangle, and a rectangle less a ramp.
Ramp(t, duration) ==
  IF duration = 0 THEN 0
                  ELSE (MaxMilliStepsPerSecond * t * t) \div (2 * duration)

Integral(t) ==
  LET elapsed == Smaller(t, CycleDuration)
  IN  Ramp(Smaller(elapsed, Acceleration), Acceleration)
      + (IF elapsed > Acceleration
           THEN MaxMilliStepsPerSecond
                  * (Smaller(elapsed, CruiseEnd) - Acceleration)
           ELSE 0)
      + (IF elapsed > CruiseEnd
           THEN MaxMilliStepsPerSecond * (elapsed - CruiseEnd)
                  - Ramp(elapsed - CruiseEnd, Deceleration)
           ELSE 0)

StepsPerCycle == Integral(CycleDuration) \div StepUnit

------------------------------------------------------------------------------
Init ==
  /\ pc = "idle"
  /\ now = 0 /\ unprocessed = 0 /\ profileElapsed = 0
  /\ remaining = 0
  /\ profileStart = 0 /\ lastUpdate = 0 /\ profileInitialized = FALSE
  /\ stepAccumulator = 0
  /\ position = 0 /\ shaft = 0 /\ origin = 0
  /\ speed = 0
  /\ directionForward = FALSE
  /\ directionPin = FALSE   \* AvrStepDirectionDriver::initialize

\* The level AvrStepDirectionDriver::setDirection gives the DIR output.
DirectionLevel(forward) == forward # DirectionInverted

\* The pin is written only when the direction changes.
SetDirection(forward) ==
  IF directionForward = forward
    THEN UNCHANGED direction
    ELSE /\ directionForward' = forward
         /\ directionPin' = DirectionLevel(forward)

\* One pulse: the motor follows the pin, the position the direction.
Pulse ==
  /\ position' = IF directionForward THEN position + 1 ELSE position - 1
  /\ shaft' = IF directionPin # DirectionInverted THEN shaft + 1 ELSE shaft - 1

CycleIndex == profileElapsed \div CycleDuration
CycleElapsed == profileElapsed % CycleDuration
EvenCycle == CycleIndex % 2 = 0

------------------------------------------------------------------------------
(* update().                                                                *)

\* Mutant: the controller forgets its direction, the driver does not.
UpdateDisabledForgetting(d) ==
  /\ pc = "idle"
  /\ now' = (now + d) % ClockModulus
  /\ lastUpdate' = now'
  /\ stepAccumulator' = 0
  /\ speed' = 0
  /\ profileInitialized' = FALSE
  /\ profileElapsed' = 0
  /\ origin' = 0
  /\ directionForward' = FALSE
  /\ UNCHANGED <<pc, unprocessed, remaining, profileStart, position,
                 directionPin, shaft>>

\* A disabled motor, or one whose profile lasts no time, starts its profile
\* afresh when it is enabled; position and direction stay.
UpdateDisabled(d) ==
  /\ pc = "idle"
  /\ now' = (now + d) % ClockModulus
  /\ lastUpdate' = now'
  /\ stepAccumulator' = 0
  /\ speed' = 0
  /\ profileInitialized' = FALSE
  /\ profileElapsed' = 0
  /\ origin' = 0
  /\ UNCHANGED <<pc, unprocessed, remaining, profileStart, position,
                 direction, shaft>>

BeginUpdate(d) ==
  /\ pc = "idle"
  /\ CycleDuration > 0
  /\ profileInitialized \/ position \in - MaxPosition .. MaxPosition
  /\ now' = (now + d) % ClockModulus
  /\ IF profileInitialized
       THEN UNCHANGED <<profile, stepAccumulator>>
       ELSE /\ profileInitialized' = TRUE
            /\ profileStart' = now'
            /\ lastUpdate' = now'
            /\ stepAccumulator' = 0
            /\ origin' = position
  /\ profileElapsed' = (lastUpdate' - profileStart') % ClockModulus
  /\ unprocessed' = (now' - lastUpdate') % ClockModulus
  \* Bound: a profile runs for less than ClockModulus milliseconds.
  /\ profileElapsed' + unprocessed' < ClockModulus
  /\ pc' = "segment"
  /\ UNCHANGED <<remaining, position, speed, direction, shaft>>

\* Mutant: a segment that ends one millisecond short of the cycle.
IntervalShort == Smaller(unprocessed, CycleDuration - CycleElapsed - 1)

\* A segment ends with the cycle or with the time to make up for.
Interval == Smaller(unprocessed, CycleDuration - CycleElapsed)

BeginSegment ==
  /\ pc = "segment"
  /\ unprocessed > 0
  /\ SetDirection(EvenCycle)
  /\ stepAccumulator' = stepAccumulator + Integral(CycleElapsed + Interval)
                                        - Integral(CycleElapsed)
  /\ pc' = "pulses"
  /\ UNCHANGED <<now, unprocessed, profileElapsed, remaining, profile,
                 position, speed, shaft>>

\* Mutant: a whole step left in the accumulator.
MoreStepsStrict == stepAccumulator > StepUnit

MoreSteps == stepAccumulator >= StepUnit

EmitStep ==
  /\ pc = "pulses"
  /\ MoreSteps
  /\ stepAccumulator' = stepAccumulator - StepUnit
  /\ Pulse
  /\ UNCHANGED <<pc, now, unprocessed, profileElapsed, remaining, profile,
                 speed, direction>>

\* Mutant: the fraction of a step is kept when the cycle turns back.
EndSegmentKeepingFraction ==
  /\ pc = "pulses"
  /\ ~ MoreSteps
  /\ profileElapsed' = profileElapsed + Interval
  /\ unprocessed' = unprocessed - Interval
  /\ pc' = "segment"
  /\ UNCHANGED <<now, remaining, profile, stepAccumulator, position, speed,
                 direction, shaft>>

\* What is left of a step when the cycle ends is dropped.
EndSegment ==
  /\ pc = "pulses"
  /\ ~ MoreSteps
  /\ profileElapsed' = profileElapsed + Interval
  /\ unprocessed' = unprocessed - Interval
  /\ stepAccumulator' = IF CycleElapsed + Interval = CycleDuration
                          THEN 0 ELSE stepAccumulator
  /\ pc' = "segment"
  /\ UNCHANGED <<now, remaining, profile, position, speed, direction, shaft>>

FinishUpdate ==
  /\ pc = "segment"
  /\ unprocessed = 0
  /\ lastUpdate' = now
  /\ SetDirection(EvenCycle)
  /\ speed' = SpeedAt(CycleElapsed)
  /\ pc' = "idle"
  /\ UNCHANGED <<now, unprocessed, profileElapsed, remaining, profileStart,
                 profileInitialized, origin, stepAccumulator, position, shaft>>

------------------------------------------------------------------------------
(* moveBlockingSteps().                                                     *)

BeginMove(steps) ==
  /\ pc = "idle"
  /\ steps # 0
  /\ position + steps \in - MaxPosition .. MaxPosition
  /\ SetDirection(steps > 0)
  /\ remaining' = IF steps > 0 THEN steps ELSE - steps
  /\ origin' = IF profileInitialized THEN origin + steps ELSE origin
  /\ pc' = "moving"
  /\ UNCHANGED <<now, unprocessed, profileElapsed, profileStart, lastUpdate,
                 profileInitialized, stepAccumulator, position, speed, shaft>>

MoveStep ==
  /\ pc = "moving"
  /\ Pulse
  /\ remaining' = remaining - 1
  /\ pc' = IF remaining = 1 THEN "idle" ELSE "moving"
  /\ UNCHANGED <<now, unprocessed, profileElapsed, profile, stepAccumulator,
                 speed, direction>>

------------------------------------------------------------------------------
\* The steps inside a call, and the calls.
Proceed == BeginSegment \/ EmitStep \/ EndSegment \/ FinishUpdate \/ MoveStep

Call ==
  \/ \E d \in 0 .. ClockModulus - 1 : UpdateDisabled(d) \/ BeginUpdate(d)
  \/ \E steps \in - MaxMove .. MaxMove : BeginMove(steps)

Next == Proceed \/ Call

\* A call runs to its end; nothing makes the main loop call.
Spec == Init /\ [][Next]_vars /\ WF_vars(Proceed)

------------------------------------------------------------------------------
(* Properties.                                                              *)

\* Neither the time left to make up for nor the accumulator, unsigned in the
\* code, ever wraps below zero, and no whole step is left over by a call.
TypeOK ==
  /\ pc \in {"idle", "segment", "pulses", "moving"}
  /\ now \in 0 .. ClockModulus - 1
  /\ unprocessed \in 0 .. ClockModulus - 1
  /\ profileElapsed \in 0 .. ClockModulus - 1
  /\ remaining \in 0 .. MaxMove
  /\ profileStart \in 0 .. ClockModulus - 1
  /\ lastUpdate \in 0 .. ClockModulus - 1
  /\ profileInitialized \in BOOLEAN
  /\ stepAccumulator \in Nat
  /\ pc # "pulses" => stepAccumulator < StepUnit
  /\ position \in Int /\ shaft \in Int /\ origin \in Int
  /\ speed \in 0 .. MaxMilliStepsPerSecond
  /\ directionForward \in BOOLEAN
  /\ directionPin \in BOOLEAN

\* Between calls the position depends on how long the profile has run, and
\* not on when update was called on the way: a call that catches up with
\* several cycles, or a blocking move in between, loses and adds no step, and
\* every second cycle ends where the profile began (update, lines 79-109).
PositionFollowsProfile ==
  pc = "idle" /\ profileInitialized =>
    position = origin + IF EvenCycle
                          THEN Integral(CycleElapsed) \div StepUnit
                          ELSE StepsPerCycle
                                 - Integral(CycleElapsed) \div StepUnit

\* The motor is where the controller says it is ("STEPPER_MOTOR_Y_DIRECTION_
\* INVERTED: inverts the Y DIR output in firmware", README.md:183): the
\* driver's pin and the controller's m_directionForward never part.
ShaftIsAtPosition == shaft = position

\* Only where a profile without deceleration stops at once is there no slope.
HasSlope(t) == Deceleration > 0 \/ t + 1 < CycleDuration

\* The speed that telemetry reports is the slope of the distance that the
\* steps are taken from: two functions of the code, written independently
\* (lines 178-212 and 214-254), agree up to their roundings.
SpeedIsTheSlope ==
  pc = "idle" /\ profileInitialized /\ HasSlope(CycleElapsed) =>
    LET twice == 2 * (Integral(CycleElapsed + 1) - Integral(CycleElapsed))
        sum == speed + SpeedAt(CycleElapsed + 1)
    IN  twice - sum \in -1 .. 3

\* Every call returns: the catch-up loop makes progress in each segment.
CallReturns == pc # "idle" ~> pc = "idle"
===============================================================================
