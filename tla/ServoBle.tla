-------------------------------- MODULE ServoBle --------------------------------
(****************************************************************************)
(* The servo controller (esp32ServoBLEController/main/main.cpp).  Two tasks  *)
(* run on two cores: the demo task moves the servo once a second, and the    *)
(* BLE host task runs every callback - connections, subscriptions and        *)
(* writes, which it cuts into commands.  They share the servo under the      *)
(* mutex motorPositionMutex.  The status LED's task shares nothing.          *)
(*                                                                          *)
(* A character stands for a piece of text that the code treats alike:        *)
(* "servo" is `servo 0 ', the other words are whole commands.                *)
(****************************************************************************)
EXTENDS Integers, Sequences, FiniteSets

CONSTANTS
  MaxPosition,       \* 255, the end of the servo's range
  Stride,            \* 32, what the demo moves at a time
  IdModulus,         \* 2^16: parseUnsignedId computes in uint16_t
  CommandBufferSize, \* COMMAND_BUFFER_SIZE, terminator included
  Packets,           \* the writes a client may make
  MaxEvents,         \* bound: events waiting for the host task
  MaxLinks,          \* bound: connections and ends of advertising
  MaxWrites          \* bound: writes

Digits == <<"0", "1", "2", "3", "4", "5", "6", "7", "8", "9">>
DigitChars == {Digits[i] : i \in 1..10}
Words == {"servo", "test on", "test off", ".", "?"}
EndOfLine == "end of line"
Erase == "erase"
Control == "control"
NonAscii == "non-ascii"
Chars == DigitChars \cup Words \cup {EndOfLine, Erase, Control, NonAscii}
Printable == DigitChars \cup Words

ASSUME ServoBleAssumption ==
  /\ MaxPosition \in Nat \ {0}
  /\ Stride \in 2..MaxPosition
  /\ IdModulus \in Nat \ {0}
  /\ CommandBufferSize \in Nat \ {0}
  /\ Packets \subseteq Seq(Chars)
  /\ MaxEvents \in Nat /\ MaxLinks \in Nat /\ MaxWrites \in Nat

VARIABLES
  configured,        \* whether configureMotorPwm succeeded
  motorPosition, motorPositionIncreasing, servoTestEnabled,
  mutex,             \* holder of motorPositionMutex
  duty,              \* duty of the PWM output
  demo,              \* where the demo task is
  host, command, read, \* where the host task is in a command, and its locals
  text,              \* the command line being handled
  packet,            \* what is left of the write being processed
  commandBuffer,     \* commandBuffer[0 .. commandLength - 1]
  connected, notificationsEnabled, bootMessagePending,
  synced, air,       \* the BLE stack: host in step with controller; the radio
  events,            \* callbacks that the stack has yet to make
  links, writes,     \* counters for the bounds
  told,              \* ghost: the position a client was told of last
  greetings, spoken, \* ghost: of this connection, boot messages and any text
  startFailed,       \* ghost: the last startAdvertising that could work did not
  write, executed    \* ghost: the write being processed, its commands so far

servo == <<configured, motorPosition, motorPositionIncreasing,
           servoTestEnabled, mutex, duty, demo>>
task == <<host, command, read, text, packet, commandBuffer, write, executed>>
session == <<connected, notificationsEnabled, bootMessagePending, greetings,
             spoken>>
radio == <<synced, air, startFailed>>
bounds == <<links, writes>>
vars == <<servo, task, session, radio, events, bounds, told>>

None == -1
Free == "free"

------------------------------------------------------------------------------
(* Pure parts.                                                              *)

\* servoDutyForPosition: 1000 to 2000 us of a frame of 20000 us, in units of
\* the 14 bit duty.
PulseMicroseconds(p) == 1000 + (p * 1000) \div MaxPosition
DutyFor(p) == (PulseMicroseconds(p) * 16383) \div 20000

\* Mutant: the sweep turns only when it stands at the end exactly.
SweptLate(p, up) ==
  IF up THEN IF p = MaxPosition THEN <<MaxPosition - Stride, FALSE>>
                                ELSE <<p + Stride, TRUE>>
        ELSE IF p = 0 THEN <<Stride, TRUE>> ELSE <<p - Stride, FALSE>>

\* Mutant: the sweep does not turn at the top.
SweptUp(p, up) ==
  LET top == MaxPosition + 1 - Stride
  IN  CASE up /\ p >= top -> <<MaxPosition, TRUE>>
        [] up /\ p < top -> <<p + Stride, TRUE>>
        [] ~ up /\ p <= Stride -> <<0, TRUE>>
        [] OTHER -> <<p - Stride, FALSE>>

\* advanceMotorPosition: the next position and direction of the sweep.  The
\* last stride up ends at MaxPosition, one short of a multiple.
Swept(p, up) ==
  LET top == MaxPosition + 1 - Stride
  IN  CASE up /\ p >= top -> <<MaxPosition, FALSE>>
        [] up /\ p < top -> <<p + Stride, TRUE>>
        [] ~ up /\ p = MaxPosition -> <<top, FALSE>>
        [] ~ up /\ p # MaxPosition /\ p <= Stride -> <<0, TRUE>>
        [] OTHER -> <<p - Stride, FALSE>>

\* The number that digits spell, as parseUnsignedId computes it.
Parsed(digits) ==
  LET upTo[n \in 0..Len(digits)] ==
        IF n = 0 THEN 0
        ELSE (10 * upTo[n - 1] + (CHOOSE d \in 0..9 : Digits[d + 1] = digits[n]))
               % IdModulus
  IN  upTo[Len(digits)]

Commands == [kind : {"servo"}, position : 0..MaxPosition]
            \cup [kind : {"on", "off", "telemetry", "text", "none"}]
Just(kind) == [kind |-> kind]

\* handleCommand and handleServoCommand up to what they decide to do; "text"
\* stands for everything that is only answered: errors, usage, hardware.
Meaning(line) ==
  CASE line = <<>> -> Just("none")
    [] line = <<"test on">> -> Just("on")
    [] line = <<"test off">> -> Just("off")
    [] line = <<".">> -> Just("telemetry")
    [] /\ Len(line) > 1 /\ line[1] = "servo"
       /\ \A i \in 2..Len(line) : line[i] \in DigitChars
       /\ Parsed(Tail(line)) \in 0..MaxPosition ->
         [kind |-> "servo", position |-> Parsed(Tail(line))]
    [] OTHER -> Just("text")

------------------------------------------------------------------------------

Init ==
  /\ configured \in BOOLEAN
  /\ motorPosition = 0 /\ motorPositionIncreasing = TRUE
  /\ servoTestEnabled = TRUE
  /\ mutex = Free
  /\ duty = IF configured THEN DutyFor(0) ELSE 0
  /\ demo = IF configured THEN "delay" ELSE "deleted"
  /\ host = "idle" /\ command = Just("none") /\ read = 0 /\ text = <<>>
  /\ packet = <<>> /\ commandBuffer = <<>>
  /\ connected = FALSE /\ notificationsEnabled = FALSE
  /\ bootMessagePending = FALSE
  /\ synced = FALSE /\ air = "off"
  /\ events = <<>>
  /\ links = 0 /\ writes = 0
  /\ told = None /\ greetings = 0 /\ spoken = FALSE /\ startFailed = FALSE
  /\ write = [chars |-> <<>>, clean |-> TRUE] /\ executed = <<>>

------------------------------------------------------------------------------
(* The demo task, runMotorPwmCycle.                                         *)

DemoMoves(from, to) ==
  /\ demo = from /\ demo' = to
  /\ UNCHANGED <<configured, task, session, radio, events, bounds, told>>

\* vTaskDelay is over.
DemoWake ==
  /\ DemoMoves("delay", "take")
  /\ UNCHANGED <<motorPosition, motorPositionIncreasing, servoTestEnabled,
                 mutex, duty>>

\* Mutant: the task does not wait for the mutex.
DemoTakeUnlocked ==
  /\ DemoMoves("take", "check")
  /\ UNCHANGED <<motorPosition, motorPositionIncreasing, servoTestEnabled,
                 mutex, duty>>

DemoTake ==
  /\ DemoMoves("take", "check")
  /\ mutex = Free
  /\ mutex' = "demo"
  /\ UNCHANGED <<motorPosition, motorPositionIncreasing, servoTestEnabled, duty>>

\* Mutant: a disabled demo goes back to sleep with the mutex.
DemoCheckKeeping ==
  /\ DemoMoves("check", IF servoTestEnabled THEN "advance" ELSE "delay")
  /\ UNCHANGED <<motorPosition, motorPositionIncreasing, servoTestEnabled,
                 mutex, duty>>

DemoCheck ==
  /\ DemoMoves("check", IF servoTestEnabled THEN "advance" ELSE "give")
  /\ UNCHANGED <<motorPosition, motorPositionIncreasing, servoTestEnabled,
                 mutex, duty>>

\* Mutant: the position advances and the output does not.
DemoAdvanceOnly ==
  /\ DemoMoves("advance", "give")
  /\ LET next == Swept(motorPosition, motorPositionIncreasing)
     IN  motorPosition' = next[1] /\ motorPositionIncreasing' = next[2]
  /\ UNCHANGED <<servoTestEnabled, mutex, duty>>

DemoAdvance ==
  /\ DemoMoves("advance", "write")
  /\ LET next == Swept(motorPosition, motorPositionIncreasing)
     IN  motorPosition' = next[1] /\ motorPositionIncreasing' = next[2]
  /\ UNCHANGED <<servoTestEnabled, mutex, duty>>

\* writeServoPosition; it fails, with a message, when there is no PWM channel.
WriteServoPosition == duty' = IF configured THEN DutyFor(motorPosition) ELSE duty

DemoWrite ==
  /\ DemoMoves("write", "give")
  /\ WriteServoPosition
  /\ UNCHANGED <<motorPosition, motorPositionIncreasing, servoTestEnabled, mutex>>

DemoGive ==
  /\ DemoMoves("give", "delay")
  /\ mutex' = Free
  /\ UNCHANGED <<motorPosition, motorPositionIncreasing, servoTestEnabled, duty>>

DemoStep == DemoWake \/ DemoTake \/ DemoCheck \/ DemoAdvance \/ DemoWrite
            \/ DemoGive

------------------------------------------------------------------------------
(* The host task: one command, from handleCommand to its answer.            *)

HostMoves(from, to) == host = from /\ host' = to

\* sendSerialBytes sends only to a client that is there and has subscribed
\* (and may still fail half way, which nobody is told).
Say == /\ spoken' = (spoken \/ (connected /\ notificationsEnabled))
       /\ UNCHANGED <<connected, notificationsEnabled, bootMessagePending,
                      greetings>>

HostTake ==
  /\ HostMoves("take", "update")
  /\ mutex = Free
  /\ mutex' = "host"
  /\ UNCHANGED <<configured, motorPosition, motorPositionIncreasing,
                 servoTestEnabled, duty, demo, command, read, text, packet,
                 commandBuffer, write, executed, session, radio, events, bounds,
                 told>>

\* What setServoPosition, handleTestCommand and readMotorPosition do under the
\* mutex.
HostUpdate ==
  /\ HostMoves("update", IF command.kind = "servo" THEN "write" ELSE "give")
  /\ motorPosition' = IF command.kind = "servo" THEN command.position
                                                ELSE motorPosition
  /\ servoTestEnabled' = CASE command.kind = "on" -> TRUE
                           [] command.kind \in {"off", "servo"} -> FALSE
                           [] OTHER -> servoTestEnabled
  /\ read' = IF command.kind = "telemetry" THEN motorPosition ELSE read
  /\ told' = IF command.kind = "telemetry" THEN told ELSE None
  /\ UNCHANGED <<configured, motorPositionIncreasing, mutex, duty, demo, command,
                 text, packet, commandBuffer, write, executed, session, radio,
                 events, bounds>>

HostWrite ==
  /\ HostMoves("write", "give")
  /\ WriteServoPosition
  /\ UNCHANGED <<configured, motorPosition, motorPositionIncreasing,
                 servoTestEnabled, mutex, demo, command, read, text, packet,
                 commandBuffer, write, executed, session, radio, events, bounds,
                 told>>

HostGive ==
  /\ HostMoves("give", "answer")
  /\ mutex' = Free
  /\ UNCHANGED <<configured, motorPosition, motorPositionIncreasing,
                 servoTestEnabled, duty, demo, command, read, text, packet,
                 commandBuffer, write, executed, session, radio, events, bounds,
                 told>>

\* The answer names the commanded position, or the one that was read together
\* with the test flag as it is now.
HostAnswer ==
  /\ HostMoves("answer", "idle")
  /\ Say
  /\ told' = CASE command.kind = "servo" -> command.position
               [] command.kind = "telemetry" /\ ~ servoTestEnabled -> read
               [] OTHER -> told
  /\ command' = Just("none") /\ read' = 0 /\ text' = <<>>
  /\ UNCHANGED <<servo, packet, commandBuffer, write, executed, radio, events,
                 bounds>>

\* handleCommand: what needs no servo is answered at once.
Handle ==
  /\ HostMoves("handle",
               CASE Meaning(text).kind = "none" -> "idle"
                 [] Meaning(text).kind = "text" -> "answer"
                 [] OTHER -> "take")
  /\ command' = Meaning(text)
  /\ executed' = Append(executed, text)
  /\ UNCHANGED <<servo, read, text, packet, commandBuffer, write, session, radio,
                 events, bounds, told>>

------------------------------------------------------------------------------
(* The host task: writes, cut into commands.                                *)

\* processReceivedByte.
HandleByte ==
  /\ host = "idle" /\ packet # <<>>
  /\ packet' = Tail(packet)
  /\ LET c == Head(packet)
         full == Len(commandBuffer) + 1 >= CommandBufferSize
     IN  \/ /\ c = EndOfLine
            /\ text' = commandBuffer
            /\ commandBuffer' = <<>>
            /\ host' = "handle"
            /\ UNCHANGED command
         \/ /\ c = Erase
            /\ commandBuffer' =
                 SubSeq(commandBuffer, 1, Len(commandBuffer) - 1)
            /\ UNCHANGED <<text, host, command>>
         \/ /\ c = Control
            /\ UNCHANGED <<text, commandBuffer, host, command>>
         \/ /\ c \in Printable /\ ~ full
            /\ commandBuffer' = Append(commandBuffer, c)
            /\ UNCHANGED <<text, host, command>>
         \/ /\ c \in Printable /\ full  \* "Command too long."
            /\ commandBuffer' = <<>>
            /\ command' = Just("text")
            /\ host' = "answer"
            /\ UNCHANGED text
  /\ UNCHANGED <<servo, read, write, executed, session, radio, events, bounds,
                 told>>

Has(p, cs) == \E i \in 1..Len(p) : p[i] \in cs

\* Mutant: a write without a line end always waits for one.
NeverBare(p) == FALSE

\* processReceivedPacket takes a write without a line end for a whole command,
\* when no other is under way.
Bare(p) == /\ ~ Has(p, {EndOfLine})
           /\ commandBuffer = <<>>
           /\ Len(p) < CommandBufferSize

\* receiveSerialData refuses a write with a byte over 0x7f, and
\* processReceivedPacket drops a bare command with a character that no command
\* has.
ReceiveData(p) ==
  /\ write' = [chars |-> p, clean |-> commandBuffer = <<>>]
  /\ executed' = <<>>
  /\ CASE Has(p, {NonAscii}) -> UNCHANGED <<host, text, packet>>
       [] ~ Has(p, {NonAscii}) /\ Bare(p) ->
            /\ UNCHANGED packet
            /\ IF Has(p, {Erase, Control})
                 THEN UNCHANGED <<host, text>>
                 ELSE host' = "handle" /\ text' = p
       [] OTHER -> packet' = p /\ UNCHANGED <<host, text>>
  /\ UNCHANGED <<servo, command, read, commandBuffer, session, radio, bounds,
                 told>>

------------------------------------------------------------------------------
(* The host task: connections and advertising.                              *)

\* startAdvertising: each of its three calls may fail, and all do while the
\* controller is out of step or is advertising already.
StartAdvertising ==
  \/ /\ synced /\ air = "off"
     /\ air' = "advertising" /\ startFailed' = FALSE
  \/ /\ UNCHANGED air
     /\ startFailed' = (startFailed \/ (synced /\ air = "off"))

\* Mutant: the boot message is owed once, not to each connection.
OnConnectForgetting ==
  /\ connected' = TRUE /\ notificationsEnabled' = FALSE
  /\ bootMessagePending' = (links = 1)
  /\ greetings' = 0 /\ spoken' = FALSE
  /\ UNCHANGED <<air, startFailed>>

\* handleGapEvent and the callbacks of the stack.  A connection starts without
\* subscription and with the boot message owed to it.
OnConnect ==
  /\ connected' = TRUE /\ notificationsEnabled' = FALSE
  /\ bootMessagePending' = TRUE
  /\ greetings' = 0 /\ spoken' = FALSE
  /\ UNCHANGED <<air, startFailed>>

\* Mutant: a client that leaves is not replaced.
OnDisconnectSilent ==
  /\ connected' = FALSE /\ notificationsEnabled' = FALSE
  /\ greetings' = 0 /\ spoken' = FALSE
  /\ UNCHANGED <<bootMessagePending, air, startFailed>>

OnDisconnect ==
  /\ connected' = FALSE /\ notificationsEnabled' = FALSE
  /\ greetings' = 0 /\ spoken' = FALSE
  /\ StartAdvertising
  /\ UNCHANGED bootMessagePending

\* BLE_GAP_EVENT_SUBSCRIBE: the first subscription is greeted.
OnSubscribe(on) ==
  /\ notificationsEnabled' = on
  /\ bootMessagePending' = (bootMessagePending /\ ~ on)
  /\ LET greets == on /\ bootMessagePending /\ connected
     IN  /\ greetings' = IF greets THEN greetings + 1 ELSE greetings
         /\ spoken' = (spoken \/ greets)
  /\ UNCHANGED <<connected, air, startFailed>>

\* BLE_GAP_EVENT_CONNECT with a status, BLE_GAP_EVENT_ADV_COMPLETE.
OnNotConnected == StartAdvertising /\ UNCHANGED session

\* onNimbleSynchronized: without an address nothing is advertised.
OnSynchronized ==
  /\ \/ StartAdvertising
     \/ UNCHANGED air /\ startFailed' = (startFailed \/ air = "off")
  /\ UNCHANGED session

HandleEvent ==
  /\ host = "idle" /\ packet = <<>> /\ events # <<>>
  /\ events' = Tail(events)
  /\ LET e == Head(events)
     IN  \/ e.type = "write" /\ ReceiveData(e.packet)
         \/ /\ \/ e.type = "connected" /\ OnConnect
               \/ e.type = "disconnected" /\ OnDisconnect
               \/ e.type = "subscribed" /\ OnSubscribe(TRUE)
               \/ e.type = "unsubscribed" /\ OnSubscribe(FALSE)
               \/ e.type = "advertising ended" /\ OnNotConnected
               \/ e.type = "synchronized" /\ OnSynchronized
            /\ UNCHANGED <<servo, task, synced, bounds, told>>

HostStep == HandleEvent \/ HandleByte \/ Handle \/ HostTake \/ HostUpdate
            \/ HostWrite \/ HostGive \/ HostAnswer

------------------------------------------------------------------------------
(* The client and the BLE stack.                                            *)

Event(type) == [type |-> type]

Stack(e) ==
  /\ Len(events) < MaxEvents
  /\ events' = Append(events, e)
  /\ UNCHANGED <<servo, task, session, startFailed, told>>

\* A client connects, or fails to (both end the advertising).
Connect ==
  /\ air = "advertising" /\ links < MaxLinks
  /\ links' = links + 1
  /\ \/ air' = "linked" /\ Stack(Event("connected"))
     \/ air' = "off" /\ Stack(Event("advertising ended"))
  /\ UNCHANGED <<synced, writes>>

Disconnect ==
  /\ air = "linked"
  /\ air' = "off"
  /\ Stack(Event("disconnected"))
  /\ UNCHANGED <<synced, bounds>>

Subscribe ==
  /\ air = "linked"
  /\ Stack(Event(IF notificationsEnabled THEN "unsubscribed" ELSE "subscribed"))
  /\ UNCHANGED <<air, synced, bounds>>

Write(p) ==
  /\ air = "linked" /\ writes < MaxWrites
  /\ writes' = writes + 1
  /\ Stack([type |-> "write", packet |-> p])
  /\ UNCHANGED <<air, synced, links>>

\* The host gets in step with the controller, at boot and after a reset; a
\* reset ends connection and advertising first.
Synchronize ==
  /\ ~ synced
  /\ synced' = TRUE
  /\ Stack(Event("synchronized"))
  /\ UNCHANGED <<air, bounds>>

Reset ==
  /\ synced /\ air # "off" /\ links < MaxLinks
  /\ synced' = FALSE /\ air' = "off" /\ links' = links + 1
  /\ Stack(Event(IF air = "linked" THEN "disconnected" ELSE "advertising ended"))
  /\ UNCHANGED writes

Outside == \/ Connect \/ Disconnect \/ Subscribe \/ Synchronize \/ Reset
           \/ \E p \in Packets : Write(p)

\* With the demo task gone the program may have nothing to do but wait.
Waiting == /\ demo = "deleted" /\ host = "idle"
           /\ packet = <<>> /\ events = <<>>
           /\ UNCHANGED vars

Next == DemoStep \/ HostStep \/ Outside \/ Waiting

\* Both tasks run.  A task that waits for the mutex is handed it: it is given
\* back again and again, and never taken twice in a row past a waiting task.
Spec == /\ Init /\ [][Next]_vars
        /\ WF_vars(DemoStep) /\ WF_vars(HostStep)
        /\ SF_vars(DemoTake) /\ SF_vars(HostTake)

------------------------------------------------------------------------------
(* Properties.                                                              *)

Events == [type : {"connected", "disconnected", "subscribed", "unsubscribed",
                   "advertising ended", "synchronized"}]
          \cup [type : {"write"}, packet : Packets]

\* The variables have their types; the position stays in the servo's range and
\* the command leaves room for its terminator (main.cpp:389-415).
TypeOK ==
  /\ configured \in BOOLEAN
  /\ motorPosition \in 0..MaxPosition
  /\ {motorPositionIncreasing, servoTestEnabled, connected, synced,
      notificationsEnabled, bootMessagePending, spoken, startFailed}
       \subseteq BOOLEAN
  /\ mutex \in {Free, "demo", "host"}
  /\ duty \in Nat
  /\ demo \in {"delay", "take", "check", "advance", "write", "give", "deleted"}
  /\ host \in {"idle", "handle", "take", "update", "write", "give", "answer"}
  /\ command \in Commands
  /\ read \in 0..MaxPosition
  /\ text \in Seq(Chars) /\ packet \in Seq(Chars)
  /\ commandBuffer \in Seq(Printable)
  /\ Len(commandBuffer) < CommandBufferSize
  /\ air \in {"off", "advertising", "linked"}
  /\ events \in Seq(Events) /\ Len(events) <= MaxEvents
  /\ links \in 0..MaxLinks /\ writes \in 0..MaxWrites
  /\ told \in 0..MaxPosition \cup {None}
  /\ greetings \in Nat
  /\ write \in [chars : Seq(Chars), clean : BOOLEAN]
  /\ executed \in Seq(Seq(Chars))

\* A client that was answered a position - "Servo 0 position p.", or telemetry
\* with the test off - can rely on it until a later command: the demo, on the
\* other core, does not move the servo any more (main.cpp:261-268, 680-685).
ToldPositionHolds == told # None => motorPosition = told

\* Whoever takes the mutex finds the output at the position in memory
\* (main.cpp:261-268, 656-657).
DutyIsOfPosition ==
  configured /\ mutex = Free => duty = DutyFor(motorPosition)

\* Nothing is sent on a connection before its boot message, which is sent once,
\* however subscriptions come and go (main.cpp:526-539; README.md:20-21).
BootMessageOpensConnection == greetings <= 1 /\ (spoken => greetings = 1)

\* When nothing is left to be handled the device can be found or is connected,
\* unless an attempt to advertise has failed: every way a connection or the
\* advertising can end starts it again (main.cpp:509-524, 586-593).
UnreachableOnlyAfterFailure ==
  synced /\ events = <<>> /\ air = "off" => startFailed

\* Reference: the lines of a write, or the write itself when it has no line end.
LineEnds(p) == {i \in 1..Len(p) : p[i] = EndOfLine}
LinesOf(p) ==
  IF LineEnds(p) = {} THEN <<p>>
  ELSE [n \in 1..Cardinality(LineEnds(p)) |->
          LET end == CHOOSE i \in LineEnds(p) :
                       Cardinality({j \in LineEnds(p) : j <= i}) = n
              start == CHOOSE i \in 0..(end - 1) :
                         /\ i \in LineEnds(p) \cup {0}
                         /\ \A j \in (i + 1)..(end - 1) : j \notin LineEnds(p)
          IN  SubSeq(p, start + 1, end - 1)]

\* A write of whole commands.
Whole(p) ==
  /\ ~ Has(p, {Erase, Control, NonAscii})
  /\ LineEnds(p) # {} => p[Len(p)] = EndOfLine
  /\ \A n \in 1..Len(LinesOf(p)) : Len(LinesOf(p)[n]) < CommandBufferSize

\* A write of whole commands has exactly these executed, in order, when the
\* buffer was empty before (README.md:21-23; main.cpp:417-440).
CompleteWritesAreExecuted ==
  Whole(write.chars) /\ write.clean /\ write.chars # <<>> =>
    /\ Len(executed) <= Len(LinesOf(write.chars))
    /\ executed = SubSeq(LinesOf(write.chars), 1, Len(executed))
    /\ host = "idle" /\ packet = <<>> => executed = LinesOf(write.chars)

\* Every command is worked off and the host task comes back for the next event:
\* it never waits for ever for the mutex (main.cpp:262, 304, 680).
HostTaskReturns == host # "idle" \/ packet # <<>> ~> host = "idle" /\ packet = <<>>

\* While the test is on, the servo reaches both ends again and again, from
\* wherever a command has left it.
SweepReachesBothEnds ==
  configured /\ <>[]servoTestEnabled =>
    []<>(motorPosition = 0) /\ []<>(motorPosition = MaxPosition)

==============================================================================
