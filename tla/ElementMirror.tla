----------------------------- MODULE ElementMirror -----------------------------
(****************************************************************************)
(* The boxes of the interactive console against the devices they stand for: *)
(* the stepper motor firmware on a serial line (motors 0 .. MotorCount - 1  *)
(* and the power supply, MotorCount) and the servo firmware over BLE (one   *)
(* servo).  A key changes a box at once and sends a command and a request   *)
(* for the status; the answer comes later, carries no element id, and is    *)
(* applied to every box of its kind.  A line typed in the console goes to   *)
(* every device, changes no box and asks for nothing.  Requests may be lost *)
(* on the serial line, and the firmware remembers only the last one of a    *)
(* poll.                                                                    *)
(*                                                                          *)
(* Which device a command goes to is DeviceControl, what else a firmware    *)
(* does with it Firmware and ServoBle.                                      *)
(****************************************************************************)
EXTENDS Elements, Sequences

CONSTANTS
  MotorCount,  \* STEPPER_MOTOR_COUNT
  Digits,      \* the digits that are typed
  None,        \* no request; no id
  Fleets,      \* the sets of devices a session may have: "avr", "esp"
  Servo,       \* the id of the servo, SERVO_ELEMENT_ID
  MaxEvents,   \* bound: keys but left and right, lines typed, hardware
               \* reports, changes of the supply, lines of telemetry and
               \* commands lost, taken together
  MaxQueued    \* bound: commands, and lines, on their way on one connection

Motors == 0 .. MotorCount - 1
Psu == MotorCount

\* What may be asked for: ". <id>", and "." alone, which asks for no element.
Ids == 0 .. MotorCount + 1 \cup {Servo}

ASSUME ElementMirrorAssumption ==
  /\ MotorCount \in Nat /\ Servo \in Nat
  /\ Digits \subseteq 0..9
  /\ None \notin Ids
  /\ Fleets \subseteq SUBSET {"avr", "esp"}
  /\ MaxEvents \in Nat
  /\ MaxQueued \in Nat /\ MaxQueued > MotorCount

VARIABLES
  connected,  \* the devices of this session, which do not change
  psuBox, motorBox, servoBox,  \* the elements
  toAvr, fromAvr, toEsp, fromEsp,  \* commands and lines on their way
  available, flag, test, requested,  \* Firmware: the supply, the settings
  position, servoTest,  \* ServoBle: motorPosition, servoTestEnabled
  events,     \* for the bound
  unasked,    \* ghost: the newest request for the supply's status was lost
  psuTyped,   \* ghosts: since the console last asked for the status of the
  servoTyped  \* supply, of the servo, a line that changes it was typed

boxes == <<psuBox, motorBox, servoBox>>
avr == <<available, flag, test, requested, unasked>>
esp == <<position, servoTest>>
channels == <<toAvr, fromAvr, toEsp, fromEsp>>
typedSince == <<psuTyped, servoTyped>>
vars == <<connected, boxes, channels, avr, esp, events, typedSince>>

Keys == {Key(type) : type \in {"left", "right", "space", "erase", "minus"}}
          \cup {Digit(d) : d \in Digits}

Status(id) == [type |-> "status", id |-> id]

\* The status of element id is asked for by one of the commands.
Requests(commands, id) ==
  \E i \in 1 .. Len(commands) : commands[i] = Status(id)

\* Commands for a device, if it is there.
For(device, commands) == IF device \in connected THEN commands ELSE <<>>

\* The requests that finishHardwareReport sends, in the order of the report.
AvrReportRequests ==
  For("avr", [i \in 1 .. MotorCount + 1 |-> Status(i - 1)])
EspReportRequests == For("esp", <<Status(Servo)>>)

Init ==
  /\ connected \in Fleets
  /\ psuBox = NewPsuBox
  /\ motorBox = [m \in Motors |-> NewMotorBox]
  /\ servoBox = NewServoBox
  /\ toAvr = AvrReportRequests /\ toEsp = EspReportRequests
  /\ fromAvr = <<>> /\ fromEsp = <<>>
  /\ available \in BOOLEAN /\ flag \in BOOLEAN
  /\ test \in [Motors -> BOOLEAN]
  /\ requested = None
  /\ unasked = FALSE /\ psuTyped = FALSE /\ servoTyped = FALSE
  /\ position \in {0, MaxPosition} /\ servoTest \in BOOLEAN
  /\ "avr" \in connected \/ ~ (available \/ flag \/ \E m \in Motors : test[m])
  /\ "esp" \in connected \/ ~ (position # 0 \/ servoTest)
  /\ events = 0

------------------------------------------------------------------------------
(* The console.                                                             *)

\* Mutant: the status is not asked for.
CommandsUnchecked(pressed, id) == pressed.send

\* The commands that a key press sends: its own and a request, or none.
Commands(pressed, id) ==
  IF pressed.send = <<>> THEN <<>> ELSE pressed.send \o <<Status(id)>>

Event ==
  /\ events < MaxEvents
  /\ events' = events + 1

\* Moving between the widgets is free.
Press(key) ==
  \/ Event
  \/ key.type \in {"left", "right"} /\ UNCHANGED events

\* Commands, among them a typed one that changes what the box shows or not.
SendAvr(commands, changing) ==
  /\ Len(toAvr \o commands) <= MaxQueued
  /\ toAvr' = toAvr \o commands
  /\ psuTyped' = ((psuTyped \/ changing) /\ ~ Requests(commands, Psu))

SendEsp(commands, changing) ==
  /\ Len(toEsp \o commands) <= MaxQueued
  /\ toEsp' = toEsp \o commands
  /\ servoTyped' = ((servoTyped \/ changing) /\ ~ Requests(commands, Servo))

PsuKey(key) ==
  LET pressed == PsuBoxKey(psuBox, Psu, key)
  IN  /\ "avr" \in connected
      /\ Press(key)
      /\ psuBox' = pressed.box
      /\ SendAvr(Commands(pressed, Psu), FALSE)
      /\ UNCHANGED <<connected, motorBox, servoBox, fromAvr, toEsp, fromEsp, avr,
                     esp, servoTyped>>

MotorKey(m, key) ==
  LET pressed == MotorBoxKey(motorBox[m], m, key)
  IN  /\ "avr" \in connected
      /\ Press(key)
      /\ motorBox' = [motorBox EXCEPT ![m] = pressed.box]
      /\ SendAvr(Commands(pressed, m), FALSE)
      /\ UNCHANGED <<connected, psuBox, servoBox, fromAvr, toEsp, fromEsp, avr,
                     esp, servoTyped>>

ServoKey(key) ==
  LET pressed == ServoBoxKey(servoBox, Servo, key)
  IN  /\ "esp" \in connected
      /\ Press(key)
      /\ servoBox' = pressed.box
      /\ SendEsp(Commands(pressed, Servo), FALSE)
      /\ UNCHANGED <<connected, psuBox, motorBox, toAvr, fromAvr, fromEsp, avr,
                     esp, psuTyped>>

\* Any line that is no command of either firmware, or one that is answered with
\* text and changes nothing shown: "help", "steps", "hardware".
Other == [type |-> "other"]

\* The lines that may be typed.  Only motors have a test with an id; the servo's
\* also goes by "test on" and "test off", without one.
TypedLines ==
  [type : {"status", "get"}, id : Ids]
    \cup [type : {"motordriver"}, id : {Psu}, on : BOOLEAN]
    \cup [type : {"test"}, id : Motors \cup {Servo, None}, on : BOOLEAN]
    \cup [type : {"servo"}, id : {Servo}, position : 0..MaxPosition]
    \cup {Other}

\* Enter in the console: the line goes to every device and nothing follows it.
TypedLine(line) ==
  /\ connected # {}
  /\ Event
  /\ SendAvr(For("avr", <<line>>), line.type = "motordriver")
  /\ SendEsp(For("esp", <<line>>), line.type \in {"servo", "test"})
  /\ UNCHANGED <<connected, boxes, fromAvr, fromEsp, avr, esp>>

\* Mutant: a supply that is off is not asked again.
PollPsuIfOn ==
  /\ "avr" \in connected
  /\ psuBox.available
  /\ SendAvr(<<Status(Psu)>>, FALSE)
  /\ UNCHANGED <<connected, boxes, fromAvr, toEsp, fromEsp, avr, esp, events,
                 servoTyped>>

\* pollPsuStatus, every ten seconds: the supply's status only.
PollPsu ==
  /\ "avr" \in connected
  /\ SendAvr(<<Status(Psu)>>, FALSE)
  /\ UNCHANGED <<connected, boxes, fromAvr, toEsp, fromEsp, avr, esp, events,
                 servoTyped>>

\* finishHardwareReport: every box is new, and its status is asked for.
FinishHardwareReport ==
  /\ Event
  /\ psuBox' = NewPsuBox
  /\ motorBox' = [m \in Motors |-> NewMotorBox]
  /\ servoBox' = NewServoBox
  /\ SendAvr(AvrReportRequests, FALSE)
  /\ SendEsp(EspReportRequests, FALSE)
  /\ UNCHANGED <<connected, fromAvr, fromEsp, avr, esp>>

\* A box after lines, one after the other.
After(Applies(_, _), box, lines) ==
  LET after[n \in 0 .. Len(lines)] ==
        IF n = 0 THEN box ELSE Applies(after[n - 1], lines[n])
  IN  after[Len(lines)]

\* One event holds some of the lines that have arrived.  Each of them is
\* applied to all boxes (routeIncomingStatusLine); then the motors' boxes learn
\* whether their drivers are on (syncMotorDriverEnabledAcrossElements).
ApplyToAll(lines) ==
  /\ psuBox' = After(PsuBoxApplies, psuBox, lines)
  /\ motorBox' = [m \in Motors |->
       SetMotorDriverEnabled(After(MotorBoxApplies, motorBox[m], lines),
                             MotorsActuallyEnabled(psuBox'))]
  /\ servoBox' = After(ServoBoxApplies, servoBox, lines)

TakeAvrEvent ==
  \E n \in 1 .. Len(fromAvr) :
    /\ fromAvr' = SubSeq(fromAvr, n + 1, Len(fromAvr))
    /\ UNCHANGED <<connected, toAvr, toEsp, fromEsp, avr, esp, events, typedSince>>
    /\ ApplyToAll(SubSeq(fromAvr, 1, n))

TakeEspEvent ==
  \E n \in 1 .. Len(fromEsp) :
    /\ fromEsp' = SubSeq(fromEsp, n + 1, Len(fromEsp))
    /\ UNCHANGED <<connected, toAvr, fromAvr, toEsp, avr, esp, events, typedSince>>
    /\ ApplyToAll(SubSeq(fromEsp, 1, n))

------------------------------------------------------------------------------
(* The motors' firmware.                                                    *)

Text == [type |-> "TEXT"]
PsuLine(on, flags) == [type |-> "PSU", available |-> on, flag |-> flags]

\* printElementStatus.  The line does not say which motor it is of; "of" is a
\* ghost.
StatusLine(id) ==
  IF id \in Motors THEN [type |-> "MOTOR", testEnabled |-> test[id], of |-> id]
  ELSE IF id = Psu THEN PsuLine(available, {flag})
  ELSE Text

WriteLine(line) ==
  /\ Len(fromAvr) < MaxQueued
  /\ fromAvr' = Append(fromAvr, line)

\* Whatever the command does, the request for the supply's status that it
\* replaces goes unanswered.
Handle ==
  /\ toAvr # <<>>
  /\ toAvr' = Tail(toAvr)
  /\ UNCHANGED <<connected, boxes, toEsp, fromEsp, available, esp, events, typedSince>>

HandleStatus ==
  LET command == Head(toAvr)
  IN  /\ Handle
      /\ command.type = "status"
      /\ requested' = command.id
      /\ unasked' = (command.id # Psu /\ (unasked \/ requested = Psu))
      /\ UNCHANGED <<fromAvr, flag, test>>

HandleMotorDriver ==
  LET command == Head(toAvr)
  IN  /\ Handle
      /\ command.type = "motordriver"
      /\ flag' = command.on
      /\ WriteLine(Text)
      /\ UNCHANGED <<test, requested, unasked>>

\* "get": the status at once.
HandleGet ==
  LET command == Head(toAvr)
  IN  /\ Handle
      /\ command.type = "get"
      /\ WriteLine(StatusLine(command.id))
      /\ UNCHANGED <<flag, test, requested, unasked>>

\* Enabling is refused while the drivers are off.
HandleTest ==
  LET command == Head(toAvr)
  IN  /\ Handle
      /\ command.type = "test" /\ command.id \in Motors
      /\ test' = IF command.on /\ ~ (flag /\ available) THEN test
                 ELSE [test EXCEPT ![command.id] = command.on]
      /\ WriteLine(Text)
      /\ UNCHANGED <<flag, requested, unasked>>

HandleSteps ==
  LET command == Head(toAvr)
  IN  /\ Handle
      /\ command.type = "steps"
      /\ WriteLine(Text)
      /\ UNCHANGED <<flag, test, requested, unasked>>

\* A typed line of the servo's, or of nobody's: "Unknown command", "Usage".
HandleUnknown ==
  LET command == Head(toAvr)
  IN  /\ Handle
      /\ \/ command.type \in {"servo", "other"}
         \/ command.type = "test" /\ command.id \notin Motors
      /\ WriteLine(Text)
      /\ UNCHANGED <<flag, test, requested, unasked>>

Answer ==
  /\ requested # None
  /\ requested' = None
  /\ WriteLine(StatusLine(requested))
  /\ UNCHANGED <<connected, boxes, toAvr, toEsp, fromEsp, available, flag, test,
                 unasked, esp, events, typedSince>>

\* The telemetry of every half second.  Whether a typed "console enable" has
\* turned it on is not kept.
PrintTelemetry ==
  /\ "avr" \in connected
  /\ Event
  /\ WriteLine(Text)
  /\ UNCHANGED <<connected, boxes, toAvr, toEsp, fromEsp, avr, esp, typedSince>>

\* A debounced change is reported without being asked for.
SupplyChanges ==
  /\ "avr" \in connected
  /\ Event
  /\ available' = ~ available
  /\ WriteLine(PsuLine(available', {}))
  /\ UNCHANGED <<connected, boxes, toAvr, toEsp, fromEsp, flag, test, requested,
                 unasked, esp, typedSince>>

\* The ring was full, and a command did not arrive.
LoseCommand ==
  /\ toAvr # <<>>
  /\ Event
  /\ toAvr' = Tail(toAvr)
  /\ unasked' = (unasked \/ Head(toAvr) = Status(Psu))
  /\ UNCHANGED <<connected, boxes, fromAvr, toEsp, fromEsp, available, flag,
                 test, requested, esp, typedSince>>

------------------------------------------------------------------------------
(* The servo's firmware.                                                    *)

EspAnswers(line) ==
  /\ toEsp # <<>>
  /\ Len(fromEsp) < MaxQueued
  /\ toEsp' = Tail(toEsp)
  /\ fromEsp' = Append(fromEsp, line)
  /\ UNCHANGED <<connected, boxes, toAvr, fromAvr, avr, events, typedSince>>

HandleServoStatus ==
  /\ EspAnswers([type |-> "SERVO", position |-> position,
                 testEnabled |-> servoTest])
  /\ Head(toEsp) = Status(Servo)
  /\ UNCHANGED esp

HandleServo ==
  /\ EspAnswers(Text)
  /\ Head(toEsp).type = "servo"
  /\ position' = Head(toEsp).position
  /\ servoTest' = FALSE

HandleServoTest ==
  LET command == Head(toEsp)
  IN  /\ EspAnswers(Text)
      /\ command.type = "test" /\ command.id \in {Servo, None}
      /\ servoTest' = command.on
      /\ UNCHANGED position

\* A typed line of the motors', or of nobody's.
HandleServoUnknown ==
  LET command == Head(toEsp)
  IN  /\ EspAnswers(Text)
      /\ \/ command.type \in {"get", "motordriver", "other"}
         \/ command.type = "status" /\ command # Status(Servo)
         \/ command.type = "test" /\ command.id \notin {Servo, None}
      /\ UNCHANGED esp

\* The demonstration moves the servo; from where to where is in ServoBle.
DemoMoves ==
  /\ "esp" \in connected /\ servoTest
  /\ position' \in 0..MaxPosition
  /\ UNCHANGED <<connected, boxes, channels, avr, servoTest, events, typedSince>>

------------------------------------------------------------------------------
UserStep ==
  \/ \E key \in Keys : \/ PsuKey(key)
                       \/ ServoKey(key)
                       \/ \E m \in Motors : MotorKey(m, key)
  \/ \E line \in TypedLines : TypedLine(line)
  \/ FinishHardwareReport

HandleCommand ==
  \/ HandleStatus \/ HandleGet \/ HandleMotorDriver \/ HandleTest \/ HandleSteps
  \/ HandleUnknown

HandleServoCommand ==
  HandleServoStatus \/ HandleServo \/ HandleServoTest \/ HandleServoUnknown

Next ==
  \/ UserStep
  \/ PollPsu \/ TakeAvrEvent \/ TakeEspEvent
  \/ HandleCommand \/ Answer \/ PrintTelemetry \/ SupplyChanges \/ LoseCommand
  \/ HandleServoCommand \/ DemoMoves

\* The console's loop takes what has arrived and asks for the supply's status
\* every ten seconds while the elements are shown; the motors' firmware polls
\* its input and answers in every loop.  Nothing makes anybody press a key or
\* type a line.
Spec ==
  /\ Init /\ [][Next]_vars
  /\ WF_vars(TakeAvrEvent) /\ WF_vars(PollPsu)
  /\ WF_vars(HandleCommand) /\ WF_vars(Answer)

------------------------------------------------------------------------------
(* Properties.                                                              *)

\* The commands that keys and reports send.
AvrCommands ==
  [type : {"status"}, id : Motors \cup {Psu}]
    \cup [type : {"motordriver"}, id : {Psu}, on : BOOLEAN]
    \cup [type : {"test"}, id : Motors, on : BOOLEAN]
    \cup [type : {"steps"}, id : Motors, n : (- MaxSteps .. MaxSteps) \ {0},
          speed : 1 .. 10 * SpeedRoom - 1]
EspCommands ==
  [type : {"status"}, id : {Servo}]
    \cup [type : {"servo"}, id : {Servo}, position : 0..MaxPosition]
AvrLines ==
  {Text} \cup [type : {"PSU"}, available : BOOLEAN, flag : SUBSET BOOLEAN]
    \cup [type : {"MOTOR"}, testEnabled : BOOLEAN, of : Motors]
EspLines ==
  {Text} \cup [type : {"SERVO"}, position : 0..MaxPosition, testEnabled : BOOLEAN]

\* What the boxes hold and what they send: the numbers typed in a box stay in
\* their ranges whatever the keys, so the firmware refuses none of them.
TypeOK ==
  /\ psuBox \in PsuBoxes
  /\ motorBox \in [Motors -> MotorBoxes]
  /\ servoBox \in ServoBoxes
  /\ connected \in Fleets
  /\ toAvr \in Seq(AvrCommands \cup TypedLines) /\ fromAvr \in Seq(AvrLines)
  /\ toEsp \in Seq(EspCommands \cup TypedLines) /\ fromEsp \in Seq(EspLines)
  /\ available \in BOOLEAN /\ flag \in BOOLEAN
  /\ test \in [Motors -> BOOLEAN]
  /\ requested \in Ids \cup {None}
  /\ position \in 0..MaxPosition /\ servoTest \in BOOLEAN
  /\ events \in 0..MaxEvents
  /\ unasked \in BOOLEAN /\ psuTyped \in BOOLEAN /\ servoTyped \in BOOLEAN

\* The selected widget of a motor's box is one that the box shows, although
\* lines about the motor and about the supply hide and show widgets while the
\* user is among them (SteperMotorElement.cpp, lines 91-96 and 168-170).
SelectedWidgetExists ==
  \A m \in Motors : \/ motorBox[m].selected < WidgetCount(motorBox[m])
                    \/ motorBox[m].selected = TestButton

\* A box flips at once, answers given before the command was executed arrive
\* afterwards and flip it back, and a new box knows nothing: and yet, when
\* nothing is on its way on the serial line, the newest request for the
\* supply's status was not lost and no "motordriver" was typed after it, the
\* supply's box shows what the firmware does, and all motors' boxes know
\* whether their drivers are on (main.cpp, lines 756-775, 1083-1095 and
\* 1101-1110).  A typed "motordriver" leaves the boxes wrong until the next
\* poll: that they recover is PsuBoxSettles.
PsuBoxAgreesAtRest ==
  (/\ "avr" \in connected
   /\ toAvr = <<>> /\ fromAvr = <<>> /\ requested = None
   /\ ~ unasked /\ ~ psuTyped)
    => /\ psuBox = [available |-> available, driverEnabled |-> flag]
       /\ \A m \in Motors : motorBox[m].driverEnabled = (available /\ flag)

\* The same of the servo's box: at rest it shows whether the demonstration is
\* on and, unless it is, where the servo is, if no "servo" or "test" was typed
\* since the console last asked.  Nothing polls the servo: after such a line the
\* box stays wrong until the next key that sends a command, or report.
ServoBoxAgreesAtRest ==
  "esp" \in connected /\ toEsp = <<>> /\ fromEsp = <<>> /\ ~ servoTyped =>
    /\ servoBox.testEnabled = servoTest
    /\ servoTest \/ servoBox.position = position

\* Polling repairs what was lost: once the user and the supply are quiet for
\* good, the supply's box and the motors' boxes settle on the truth, whatever
\* was lost or forgotten before (main.cpp, lines 860-872 and 1011-1015).
PsuBoxSettles ==
  "avr" \in connected =>
    <>[] (/\ psuBox = [available |-> available, driverEnabled |-> flag]
          /\ \A m \in Motors : motorBox[m].driverEnabled = (available /\ flag))

\* An answer "updates the matching widget" (interactiveConsole/src/main.cpp:
\* 733): what the box of a motor shows of its test is changed by no line about
\* another motor.
AnswerUpdatesItsBox ==
  [][\A m \in Motors :
       TakeAvrEvent /\ motorBox'[m].testEnabled # motorBox[m].testEnabled
         => \E i \in 1 .. Len(fromAvr) :
              fromAvr[i].type = "MOTOR" /\ fromAvr[i].of = m]_vars
===============================================================================
