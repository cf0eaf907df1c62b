-------------------------------- MODULE Elements --------------------------------
(****************************************************************************)
(* The boxes of the interactive console (interactiveConsole/src/model): what *)
(* a stepper motor's, a servo's and a power supply's box hold, what a status *)
(* line does to them, and what a key does to them and sends.  A number being *)
(* typed is its value; 0 stands for the empty text.                         *)
(****************************************************************************)
EXTENDS Integers, FiniteSetsExt

CONSTANTS
  MaxSteps,     \* STEPS_INPUT_MAX_VALUE, 10000
  SpeedRoom,    \* 10^8: a speed below has room for one more digit
  MaxPosition,  \* SERVO_POSITION_MAX_VALUE, 255
  PositionRoom, \* 100: a position below has room for one more digit
  FirstSpeed,   \* the speed that a new box proposes, 10
  FirstPosition \* the position that a new box proposes, 128

ASSUME ElementsAssumption ==
  /\ MaxSteps \in Nat \ {0} /\ SpeedRoom \in Nat \ {0}
  /\ MaxPosition \in Nat \ {0} /\ PositionRoom \in Nat \ {0}
  /\ FirstSpeed \in 1..10 * SpeedRoom - 1 /\ FirstPosition \in 0..MaxPosition

\* The widgets of a motor's box, from left to right, and of a servo's.
TestButton == 0  StepsInput == 1  SpeedInput == 2  MoveButton == 3
PositionInput == 0  SetButton == 1

Digit(d) == [type |-> "digit", digit |-> d]
Key(type) == [type |-> type]

Clamped(v, low, high) == IF v < low THEN low ELSE IF v > high THEN high ELSE v

StepsTexts == [negative : BOOLEAN, digits : 0..MaxSteps]
MotorBoxes ==
  [testEnabled : BOOLEAN, driverEnabled : BOOLEAN, selected : TestButton..MoveButton,
   steps : StepsTexts, stepsTouched : BOOLEAN,
   speed : 0..10 * SpeedRoom - 1, speedTouched : BOOLEAN]
ServoBoxes ==
  [position : 0..MaxPosition, testEnabled : BOOLEAN,
   selected : PositionInput..SetButton,
   input : 0..MaxPosition, touched : BOOLEAN]
PsuBoxes == [available : BOOLEAN, driverEnabled : BOOLEAN]

------------------------------------------------------------------------------
(* The power supply's box.                                                  *)

NewPsuBox == [available |-> TRUE, driverEnabled |-> TRUE]
MotorsActuallyEnabled(box) == box.available /\ box.driverEnabled

\* Mutant: a line without the flag clears it.
PsuBoxAppliesAll(box, line) ==
  IF line.type = "PSU"
    THEN [available |-> line.available, driverEnabled |-> line.flag = {TRUE}]
    ELSE box

\* An EVENT line is rewritten to one of type PSU without the flag.
PsuBoxApplies(box, line) ==
  CASE line.type = "PSU" /\ line.flag # {} ->
         [available |-> line.available, driverEnabled |-> TRUE \in line.flag]
    [] line.type = "PSU" /\ line.flag = {} -> [box EXCEPT !.available = line.available]
    [] OTHER -> box

\* A key gives the box as it is afterwards and the command to be sent, if any.
Consumed(box) == [box |-> box, send |-> <<>>]
Sending(box, command) == [box |-> box, send |-> <<command>>]

PsuBoxKey(box, id, key) ==
  LET pressed == [box EXCEPT !.driverEnabled = ~ @]
  IN  IF key.type = "space"
        THEN Sending(pressed, [type |-> "motordriver", id |-> id,
                               on |-> pressed.driverEnabled])
        ELSE Consumed(box)

------------------------------------------------------------------------------
(* A motor's box.                                                           *)

NewMotorBox ==
  [testEnabled |-> TRUE, driverEnabled |-> TRUE, selected |-> TestButton,
   steps |-> [negative |-> FALSE, digits |-> 1], stepsTouched |-> FALSE,
   speed |-> FirstSpeed, speedTouched |-> FALSE]

WidgetCount(box) ==
  CASE ~ box.driverEnabled -> 0
    [] box.driverEnabled /\ box.testEnabled -> 1
    [] OTHER -> 4

WithinWidgets(box) ==
  [box EXCEPT !.selected = Max({0, Min({@, WidgetCount(box) - 1})})]

\* Mutant: switching the driver leaves the selection alone.
SetMotorDriverEnabledOnly(box, enabled) == [box EXCEPT !.driverEnabled = enabled]

SetMotorDriverEnabled(box, enabled) ==
  WithinWidgets([box EXCEPT !.driverEnabled = enabled])

MotorBoxApplies(box, line) ==
  IF line.type = "MOTOR"
    THEN WithinWidgets([box EXCEPT !.testEnabled = line.testEnabled])
    ELSE box

\* parsedStepsValue: nothing or a lone minus is one step.
StepsValue(text) ==
  IF text.digits = 0 THEN 1
  ELSE IF text.negative THEN - text.digits ELSE text.digits

\* parsedSpeedValue.
SpeedValue(speed) == IF speed = 0 THEN FirstSpeed ELSE speed

\* Mutant: the upper bound is forgotten.
StepsTextLowerOnly(v) ==
  LET value == IF v = 0 THEN 1 ELSE IF v < - MaxSteps THEN - MaxSteps ELSE v
  IN  [negative |-> value < 0, digits |-> IF value < 0 THEN - value ELSE value]

\* The text of a step count: in range, and one instead of zero, which also
\* drops its minus.
StepsText(v) ==
  LET value == IF v = 0 THEN 1 ELSE Clamped(v, - MaxSteps, MaxSteps)
  IN  [negative |-> value < 0, digits |-> IF value < 0 THEN - value ELSE value]

\* handleStepsInputKey.  The first key replaces what the box proposes, unless
\* it erases.
StepsKey(box, key) ==
  LET old == box.steps
      base == IF box.stepsTouched THEN old ELSE [negative |-> FALSE, digits |-> 0]
      sign == IF base.negative THEN -1 ELSE 1
      typed ==
        CASE key.type = "minus" -> [base EXCEPT !.negative = ~ @]
          [] key.type = "digit" -> StepsText(sign * (base.digits * 10 + key.digit))
          [] key.type = "erase" ->
               [negative |-> old.negative /\ old.digits # 0,
                digits |-> old.digits \div 10]
  IN  [box EXCEPT !.steps = typed, !.stepsTouched = TRUE]

\* handleSpeedInputKey.
SpeedKey(box, key) ==
  LET base == IF box.speedTouched THEN box.speed ELSE 0
      typed == IF key.type = "erase" THEN box.speed \div 10
               ELSE IF base < SpeedRoom THEN Max({1, base * 10 + key.digit})
               ELSE base
  IN  [box EXCEPT !.speed = typed, !.speedTouched = TRUE]

Move(box, id, n) ==
  [type |-> "steps", id |-> id, n |-> n, speed |-> SpeedValue(box.speed)]

\* handleControlKey of a motor whose driver is on.
EnabledMotorBoxKey(box, id, key) ==
  LET count == WidgetCount(box)
      pressed == [box EXCEPT !.testEnabled = ~ @]
  IN  CASE key.type = "left" -> Consumed([box EXCEPT !.selected = Max({0, @ - 1})])
        [] key.type = "right" ->
             Consumed([box EXCEPT !.selected = Min({@ + 1, count - 1})])
        [] box.selected = StepsInput /\ key.type \in {"erase", "minus", "digit"} ->
             Consumed(StepsKey(box, key))
        [] box.selected = SpeedInput /\ key.type \in {"erase", "digit"} ->
             Consumed(SpeedKey(box, key))
        [] box.selected = TestButton /\ key.type = "space" ->
             Sending(pressed, [type |-> "test", id |-> id,
                               on |-> pressed.testEnabled])
        [] box.selected = MoveButton /\ key.type = "space" ->
             Sending(box, Move(box, id, StepsValue(box.steps)))
        [] box.selected = MoveButton /\ key.type = "erase" ->
             Sending(box, Move(box, id, - StepsValue(box.steps)))
        [] OTHER -> Consumed(box)

MotorBoxKey(box, id, key) ==
  IF box.driverEnabled THEN EnabledMotorBoxKey(WithinWidgets(box), id, key)
                       ELSE Consumed(box)

------------------------------------------------------------------------------
(* A servo's box.                                                           *)

NewServoBox ==
  [position |-> 0, testEnabled |-> TRUE, selected |-> PositionInput,
   input |-> FirstPosition, touched |-> FALSE]

ServoBoxApplies(box, line) ==
  IF line.type = "SERVO"
    THEN [box EXCEPT !.position = Clamped(line.position, 0, MaxPosition),
                     !.testEnabled = line.testEnabled]
    ELSE box

\* handlePositionInputKey.
PositionKey(box, key) ==
  LET base == IF box.touched THEN box.input ELSE 0
      typed == IF key.type = "erase" THEN box.input \div 10
               ELSE IF base < PositionRoom
                 THEN Clamped(base * 10 + key.digit, 0, MaxPosition)
               ELSE base
  IN  [box EXCEPT !.input = typed, !.touched = TRUE]

ServoBoxKey(box, id, key) ==
  CASE key.type = "left" -> Consumed([box EXCEPT !.selected = PositionInput])
    [] key.type = "right" -> Consumed([box EXCEPT !.selected = SetButton])
    [] box.selected = PositionInput /\ key.type \in {"erase", "digit"} ->
         Consumed(PositionKey(box, key))
    [] box.selected = SetButton /\ key.type = "space" ->
         Sending([box EXCEPT !.testEnabled = FALSE],
                 [type |-> "servo", id |-> id, position |-> box.input])
    [] OTHER -> Consumed(box)
==============================================================================
