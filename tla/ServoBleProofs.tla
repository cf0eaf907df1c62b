----------------------------- MODULE ServoBleProofs -----------------------------
(****************************************************************************)
(* Theorems about the servo controller for every range, stride, buffer size  *)
(* and set of writes: its types, the agreement of position, output and what  *)
(* clients were told, the boot message, and the advertising.                *)
(****************************************************************************)
EXTENDS ServoBle, SequenceTheorems, FiniteSetTheorems, WellFoundedInduction,
        TLAPS

------------------------------------------------------------------------------
(* The pure parts.                                                          *)

\* The output's duty is a natural number.
LEMMA DutyIsNat == ASSUME NEW p \in 0..MaxPosition PROVE DutyFor(p) \in Nat
<1>1. ASSUME NEW n \in Int, NEW m \in Nat \ {0}, n >= 0 PROVE n \div m \in Nat
  <2> DEFINE q == n \div m
             r == n % m
  <2>1. q \in Int /\ r \in 0 .. m - 1 /\ n = m * q + r
    OBVIOUS
  <2> HIDE DEF q, r
  <2>2. q >= 0
    <3> SUFFICES ASSUME q <= -1 PROVE FALSE
      BY <2>1
    <3>1. m * q <= m * (-1)
      BY <2>1
    <3>2. QED
      BY <1>1, <2>1, <3>1
  <2>3. QED
    BY <2>1, <2>2 DEF q
<1>2. p * 1000 \in Nat /\ MaxPosition \in Nat \ {0}
  BY ServoBleAssumption
<1>3. (p * 1000) \div MaxPosition \in Nat
  BY <1>1, <1>2
<1>4. PulseMicroseconds(p) * 16383 \in Nat
  BY <1>3 DEF PulseMicroseconds
<1>5. QED
  BY <1>1, <1>4 DEF DutyFor

\* The sweep stays in the range.
LEMMA SweptInRange ==
  ASSUME NEW p \in 0..MaxPosition, NEW up \in BOOLEAN
  PROVE  Swept(p, up)[1] \in 0..MaxPosition /\ Swept(p, up)[2] \in BOOLEAN
<1> DEFINE top == MaxPosition + 1 - Stride
<1>1. /\ top \in 1..MaxPosition - 1 /\ Stride \in 2..MaxPosition
      /\ MaxPosition \in Nat /\ p \in 0..MaxPosition
  BY ServoBleAssumption
<1> HIDE DEF top
<1>2. CASE up /\ p >= top
  BY <1>1, <1>2 DEF Swept, top
<1>3. CASE up /\ p < top
  BY <1>1, <1>3 DEF Swept, top
<1>4. CASE ~ up /\ p = MaxPosition
  BY <1>1, <1>4 DEF Swept, top
<1>5. CASE ~ up /\ p # MaxPosition /\ p <= Stride
  BY <1>1, <1>5 DEF Swept, top
<1>6. CASE ~ up /\ p # MaxPosition /\ p > Stride
  BY <1>1, <1>6 DEF Swept, top
<1>7. QED
  BY <1>1, <1>2, <1>3, <1>4, <1>5, <1>6

\* Whatever was typed, the decision is one of the commands.
LEMMA MeaningIsCommand ==
  ASSUME NEW line PROVE Meaning(line) \in Commands
<1> DEFINE p == Parsed(Tail(line))
           servoLine == /\ Len(line) > 1 /\ line[1] = "servo"
                        /\ \A i \in 2..Len(line) : line[i] \in DigitChars
                        /\ p \in 0..MaxPosition
<1>1. ASSUME NEW q \in 0..MaxPosition
      PROVE  [kind |-> "servo", position |-> q] \in Commands
  BY DEF Commands
<1>2. \A k \in {"on", "off", "telemetry", "text", "none"} : Just(k) \in Commands
  BY DEF Commands, Just
<1>3. CASE line \in {<<>>, <<"test on">>, <<"test off">>, <<".">>}
  <2>1. CASE line = <<>>
    BY <1>2, <2>1 DEF Meaning
  <2>2. CASE line = <<"test on">>
    BY <1>2, <2>2 DEF Meaning
  <2>3. CASE line = <<"test off">>
    BY <1>2, <2>3 DEF Meaning
  <2>4. CASE line = <<".">>
    BY <1>2, <2>4 DEF Meaning
  <2>5. QED
    BY <1>3, <2>1, <2>2, <2>3, <2>4
<1>4. CASE /\ line \notin {<<>>, <<"test on">>, <<"test off">>, <<".">>}
           /\ servoLine
  <2>1. Meaning(line) = [kind |-> "servo", position |-> p]
    BY <1>4 DEF Meaning
  <2>2. QED
    BY <1>1, <1>4, <2>1
<1>5. CASE /\ line \notin {<<>>, <<"test on">>, <<"test off">>, <<".">>}
           /\ ~ servoLine
  <2>1. Meaning(line) = Just("text")
    BY <1>5 DEF Meaning
  <2>2. QED
    BY <1>2, <2>1
<1>6. QED
  BY <1>3, <1>4, <1>5

------------------------------------------------------------------------------
(* Types, by the parts of the state.                                        *)

ServoTypeOK ==
  /\ configured \in BOOLEAN
  /\ motorPosition \in 0..MaxPosition
  /\ motorPositionIncreasing \in BOOLEAN /\ servoTestEnabled \in BOOLEAN
  /\ mutex \in {Free, "demo", "host"}
  /\ duty \in Nat
  /\ demo \in {"delay", "take", "check", "advance", "write", "give", "deleted"}

TaskTypeOK ==
  /\ host \in {"idle", "handle", "take", "update", "write", "give", "answer"}
  /\ command \in Commands
  /\ read \in 0..MaxPosition
  /\ text \in Seq(Chars) /\ packet \in Seq(Chars)
  /\ commandBuffer \in Seq(Printable)
  /\ Len(commandBuffer) < CommandBufferSize
  /\ write \in [chars : Seq(Chars), clean : BOOLEAN]
  /\ executed \in Seq(Seq(Chars))
  /\ told \in 0..MaxPosition \cup {None}

StackTypeOK ==
  /\ connected \in BOOLEAN /\ notificationsEnabled \in BOOLEAN
  /\ bootMessagePending \in BOOLEAN /\ spoken \in BOOLEAN
  /\ synced \in BOOLEAN /\ startFailed \in BOOLEAN
  /\ air \in {"off", "advertising", "linked"}
  /\ events \in Seq(Events) /\ Len(events) <= MaxEvents
  /\ links \in 0..MaxLinks /\ writes \in 0..MaxWrites
  /\ greetings \in Nat

Types == ServoTypeOK /\ TaskTypeOK /\ StackTypeOK

LEMMA TypesAreTypeOK == Types => TypeOK
BY DEF Types, ServoTypeOK, TaskTypeOK, StackTypeOK, TypeOK

LEMMA InitTypes == Init => Types
<1> SUFFICES ASSUME Init PROVE Types
  OBVIOUS
<1>0. MaxPosition \in Nat \ {0} /\ CommandBufferSize \in Nat \ {0}
      /\ MaxEvents \in Nat /\ MaxLinks \in Nat /\ MaxWrites \in Nat
  BY ServoBleAssumption
<1>1. 0 \in 0..MaxPosition /\ DutyFor(0) \in Nat
  BY <1>0, DutyIsNat
<1>2. ServoTypeOK
  BY <1>1 DEF Init, ServoTypeOK, Free
<1>3. TaskTypeOK
  BY <1>0, <1>1 DEF Init, TaskTypeOK, Commands, Just
<1>4. StackTypeOK
  <2>1. <<>> \in Seq(Events) /\ Len(<<>>) = 0
    OBVIOUS
  <2>2. 0 \in 0..MaxLinks /\ 0 \in 0..MaxWrites
    BY <1>0
  <2>3. events = <<>> /\ Len(events) <= MaxEvents
    BY <1>0, <2>1 DEF Init
  <2>4. /\ links \in 0..MaxLinks /\ writes \in 0..MaxWrites
        /\ greetings \in Nat
    BY <2>2 DEF Init
  <2>5. QED
    BY <2>1, <2>3, <2>4 DEF Init, StackTypeOK
<1>5. QED
  BY <1>2, <1>3, <1>4 DEF Types

\* The demo task's steps change the servo's part only.
LEMMA DemoTypes == Types /\ DemoStep => Types'
<1> SUFFICES ASSUME Types, DemoStep PROVE Types'
  OBVIOUS
<1>1. TaskTypeOK' /\ StackTypeOK'
  <2>1. UNCHANGED <<task, session, radio, events, bounds, told>>
    BY DEF DemoStep, DemoMoves, DemoWake, DemoTake, DemoCheck, DemoAdvance,
           DemoWrite, DemoGive
  <2>2. QED
    BY <2>1 DEF Types, TaskTypeOK, StackTypeOK, task, session, radio, bounds
<1>2. ServoTypeOK'
  <2> USE DEF Types, ServoTypeOK, DemoMoves
  <2>1. CASE DemoWake
    BY <2>1 DEF DemoWake
  <2>2. CASE DemoTake
    BY <2>2 DEF DemoTake
  <2>3. CASE DemoCheck
    BY <2>3 DEF DemoCheck
  <2>4. CASE DemoAdvance
    BY <2>4, SweptInRange DEF DemoAdvance
  <2>5. CASE DemoWrite
    BY <2>5, DutyIsNat DEF DemoWrite, WriteServoPosition
  <2>6. CASE DemoGive
    BY <2>6 DEF DemoGive
  <2>7. QED
    BY <2>1, <2>2, <2>3, <2>4, <2>5, <2>6 DEF DemoStep
<1>3. QED
  BY <1>1, <1>2 DEF Types

\* A command for the servo carries a position in its range.
LEMMA ServoCommandInRange ==
  ASSUME NEW c \in Commands, c.kind = "servo"
  PROVE  c.position \in 0..MaxPosition
BY DEF Commands

\* The steps of the host task in a command and in a write.
LEMMA CommandTypes ==
  Types /\ (HostTake \/ HostUpdate \/ HostWrite \/ HostGive \/ HostAnswer
            \/ Handle \/ HandleByte) => Types'
<1> SUFFICES ASSUME Types,
                    HostTake \/ HostUpdate \/ HostWrite \/ HostGive
                    \/ HostAnswer \/ Handle \/ HandleByte
             PROVE  Types'
  OBVIOUS
<1> USE DEF Types, HostMoves
<1>0. /\ \A k \in {"on", "off", "telemetry", "text", "none"} : Just(k) \in Commands
      /\ 0 \in 0..MaxPosition
  BY ServoBleAssumption DEF Commands, Just
<1>1. StackTypeOK'
  <2>1. CASE HostTake \/ HostUpdate \/ HostWrite \/ HostGive \/ Handle \/ HandleByte
    <3>1. UNCHANGED <<session, radio, events, bounds>>
      BY <2>1 DEF HostTake, HostUpdate, HostWrite, HostGive, Handle, HandleByte
    <3>2. QED
      BY <3>1 DEF StackTypeOK, session, radio, bounds
  <2>2. CASE HostAnswer
    BY <2>2 DEF HostAnswer, Say, StackTypeOK, radio, bounds
  <2>3. QED
    BY <2>1, <2>2
<1>2. ServoTypeOK'
  <2>1. CASE HostTake
    BY <2>1 DEF HostTake, ServoTypeOK
  <2>2. CASE HostUpdate
    <3>1. motorPosition' \in 0..MaxPosition
      BY <2>2, ServoCommandInRange DEF HostUpdate, ServoTypeOK, TaskTypeOK
    <3>2. servoTestEnabled' \in BOOLEAN
      BY <2>2 DEF HostUpdate, ServoTypeOK
    <3>3. QED
      BY <2>2, <3>1, <3>2 DEF HostUpdate, ServoTypeOK
  <2>3. CASE HostWrite
    BY <2>3, DutyIsNat DEF HostWrite, WriteServoPosition, ServoTypeOK
  <2>4. CASE HostGive
    BY <2>4 DEF HostGive, ServoTypeOK
  <2>5. CASE HostAnswer \/ Handle \/ HandleByte
    BY <2>5 DEF HostAnswer, Handle, HandleByte, ServoTypeOK, servo
  <2>6. QED
    BY <2>1, <2>2, <2>3, <2>4, <2>5
<1>3. TaskTypeOK'
  <2>1. CASE HostTake
    BY <2>1 DEF HostTake, TaskTypeOK
  <2>2. CASE HostUpdate
    BY <2>2 DEF HostUpdate, TaskTypeOK, ServoTypeOK
  <2>3. CASE HostWrite
    BY <2>3 DEF HostWrite, TaskTypeOK
  <2>4. CASE HostGive
    BY <2>4 DEF HostGive, TaskTypeOK
  <2>5. CASE HostAnswer
    <3>1. told' \in 0..MaxPosition \cup {None}
      BY <2>5, ServoCommandInRange DEF HostAnswer, TaskTypeOK
    <3>2. <<>> \in Seq(Chars)
      OBVIOUS
    <3>3. QED
      BY <1>0, <2>5, <3>1, <3>2 DEF HostAnswer, TaskTypeOK
  <2>6. CASE Handle
    <3>1. Meaning(text) \in Commands
      BY MeaningIsCommand
    <3>2. Append(executed, text) \in Seq(Seq(Chars))
      BY AppendProperties DEF TaskTypeOK
    <3>3. QED
      BY <2>6, <3>1, <3>2 DEF Handle, TaskTypeOK
  <2>7. CASE HandleByte
    <3>1. Head(packet) \in Chars /\ Tail(packet) \in Seq(Chars)
      BY <2>7, HeadTailProperties DEF HandleByte, TaskTypeOK
    <3>2. /\ commandBuffer \in Seq(Chars) /\ Len(commandBuffer) \in Nat
          /\ <<>> \in Seq(Printable) /\ Len(<<>>) < CommandBufferSize
      BY ServoBleAssumption DEF TaskTypeOK, Chars, Printable
    <3>3. LET shorter == SubSeq(commandBuffer, 1, Len(commandBuffer) - 1)
          IN  shorter \in Seq(Printable) /\ Len(shorter) < CommandBufferSize
      <4> DEFINE n == Len(commandBuffer)
      <4>1. \A i \in 1 .. n - 1 : commandBuffer[i] \in Printable
        BY <3>2 DEF TaskTypeOK
      <4>2. /\ SubSeq(commandBuffer, 1, n - 1) \in Seq(Printable)
            /\ Len(SubSeq(commandBuffer, 1, n - 1)) =
                 IF 1 <= n - 1 THEN n - 1 - 1 + 1 ELSE 0
        BY <3>2, <4>1, SubSeqProperties
      <4>3. QED
        BY <3>2, <4>2, ServoBleAssumption DEF TaskTypeOK
    <3>4. ASSUME NEW c \in Printable, ~ (Len(commandBuffer) + 1 >= CommandBufferSize)
          PROVE  /\ Append(commandBuffer, c) \in Seq(Printable)
                 /\ Len(Append(commandBuffer, c)) < CommandBufferSize
      BY <3>2, <3>4, AppendProperties, ServoBleAssumption DEF TaskTypeOK
    <3>5. /\ commandBuffer' \in Seq(Printable)
          /\ Len(commandBuffer') < CommandBufferSize
      BY <2>7, <3>2, <3>3, <3>4 DEF HandleByte, TaskTypeOK
    <3>6. /\ text' \in Seq(Chars) /\ command' \in Commands
          /\ host' \in {"idle", "handle", "answer"}
      BY <1>0, <2>7, <3>2 DEF HandleByte, TaskTypeOK
    <3>7. QED
      BY <2>7, <3>1, <3>5, <3>6 DEF HandleByte, TaskTypeOK
  <2>8. QED
    BY <2>1, <2>2, <2>3, <2>4, <2>5, <2>6, <2>7
<1>4. QED
  BY <1>1, <1>2, <1>3

\* An event the host task takes up is one of the stack's.
LEMMA EventTypes == Types /\ HandleEvent => Types'
<1> SUFFICES ASSUME Types, HandleEvent PROVE Types'
  OBVIOUS
<1> USE DEF Types
<1> DEFINE e == Head(events)
<1>1. /\ e \in Events
      /\ events' \in Seq(Events) /\ Len(events') <= MaxEvents
  <2>1. events \in Seq(Events) /\ events # <<>> /\ events' = Tail(events)
    BY DEF HandleEvent, StackTypeOK
  <2>2. /\ Head(events) \in Events /\ Tail(events) \in Seq(Events)
        /\ Len(Tail(events)) = Len(events) - 1 /\ Len(events) \in Nat
    BY <2>1, HeadTailProperties
  <2>3. QED
    BY <2>1, <2>2, ServoBleAssumption DEF StackTypeOK
<1>2. CASE e.type = "write" /\ ReceiveData(e.packet)
  <2>1. e.packet \in Seq(Chars)
    BY <1>1, <1>2, ServoBleAssumption DEF Events
  <2>2. TaskTypeOK'
    <3>1. write' \in [chars : Seq(Chars), clean : BOOLEAN]
      BY <1>2, <2>1 DEF ReceiveData
    <3>2. <<>> \in Seq(Seq(Chars))
      OBVIOUS
    <3>3. /\ host' \in {host, "handle"}
          /\ text' \in Seq(Chars) /\ packet' \in Seq(Chars)
      BY <1>2, <2>1 DEF ReceiveData, TaskTypeOK
    <3>4. QED
      BY <1>2, <3>1, <3>2, <3>3 DEF ReceiveData, TaskTypeOK
  <2>3. ServoTypeOK' /\ StackTypeOK'
    BY <1>1, <1>2 DEF ReceiveData, ServoTypeOK, StackTypeOK, servo, session,
                      radio, bounds
  <2>4. QED
    BY <2>2, <2>3
<1>3. CASE /\ \/ OnConnect \/ OnDisconnect
              \/ OnSubscribe(TRUE) \/ OnSubscribe(FALSE)
              \/ OnNotConnected \/ OnSynchronized
           /\ UNCHANGED <<servo, task, synced, bounds, told>>
  <2>1. ServoTypeOK' /\ TaskTypeOK'
    BY <1>3 DEF ServoTypeOK, TaskTypeOK, servo, task
  <2>2. /\ air' \in {"off", "advertising", "linked"}
        /\ startFailed' \in BOOLEAN
    BY <1>3 DEF OnConnect, OnDisconnect, OnSubscribe, OnNotConnected,
                OnSynchronized, StartAdvertising, StackTypeOK
  <2>3. /\ connected' \in BOOLEAN /\ notificationsEnabled' \in BOOLEAN
        /\ bootMessagePending' \in BOOLEAN /\ spoken' \in BOOLEAN
        /\ greetings' \in Nat
    <3>1. CASE OnConnect \/ OnDisconnect
      <4>1. /\ connected' \in BOOLEAN /\ notificationsEnabled' \in BOOLEAN
            /\ spoken' \in BOOLEAN /\ greetings' = 0
        BY <3>1 DEF OnConnect, OnDisconnect
      <4>2. bootMessagePending' \in BOOLEAN
        BY <3>1 DEF OnConnect, OnDisconnect, StackTypeOK
      <4>3. QED
        BY <4>1, <4>2
    <3>2. ASSUME NEW on \in BOOLEAN, OnSubscribe(on)
          PROVE  /\ connected' \in BOOLEAN /\ notificationsEnabled' \in BOOLEAN
                 /\ bootMessagePending' \in BOOLEAN /\ spoken' \in BOOLEAN
                 /\ greetings' \in Nat
      BY <3>2 DEF OnSubscribe, StackTypeOK
    <3>3. CASE OnNotConnected \/ OnSynchronized
      BY <3>3 DEF OnNotConnected, OnSynchronized, session, StackTypeOK
    <3>4. QED
      BY <1>3, <3>1, <3>2, <3>3
  <2>4. QED
    BY <1>1, <1>3, <2>1, <2>2, <2>3 DEF StackTypeOK, bounds
<1>4. QED
  BY <1>2, <1>3 DEF HandleEvent

\* So is every event the stack adds.
LEMMA OutsideTypes == Types /\ Outside => Types'
<1> SUFFICES ASSUME Types, Outside PROVE Types'
  OBVIOUS
<1> USE DEF Types
<1>1. ASSUME NEW e \in Events, Stack(e)
      PROVE  /\ events' \in Seq(Events) /\ Len(events') <= MaxEvents
             /\ UNCHANGED <<servo, task, session, startFailed, told>>
  BY <1>1, AppendProperties, ServoBleAssumption DEF Stack, StackTypeOK
<1>2. /\ \A t \in {"connected", "disconnected", "subscribed", "unsubscribed",
                   "advertising ended", "synchronized"} : Event(t) \in Events
      /\ \A p \in Packets : [type |-> "write", packet |-> p] \in Events
  BY DEF Event, Events
<1>3. /\ events' \in Seq(Events) /\ Len(events') <= MaxEvents
      /\ UNCHANGED <<servo, task, session, startFailed, told>>
  BY <1>1, <1>2 DEF Outside, Connect, Disconnect, Subscribe, Synchronize,
                    Reset, Write
<1>4. ServoTypeOK' /\ TaskTypeOK'
  BY <1>3 DEF ServoTypeOK, TaskTypeOK, servo, task
<1>5. /\ air' \in {"off", "advertising", "linked"} /\ synced' \in BOOLEAN
      /\ links' \in 0..MaxLinks /\ writes' \in 0..MaxWrites
  <2> USE DEF StackTypeOK
  <2>0. MaxLinks \in Nat /\ MaxWrites \in Nat
    BY ServoBleAssumption
  <2>1. CASE Connect
    <3>0. links < MaxLinks /\ links' = links + 1
      BY <2>1 DEF Connect
    <3>1. links' \in 0..MaxLinks
      BY <2>0, <3>0
    <3>2. QED
      BY <3>1, <2>1 DEF Connect
  <2>2. CASE Disconnect \/ Subscribe \/ Synchronize
    BY <2>0, <2>2 DEF Disconnect, Subscribe, Synchronize, bounds
  <2>3. CASE Reset
    <3>0. links < MaxLinks /\ links' = links + 1
      BY <2>3 DEF Reset
    <3>1. links' \in 0..MaxLinks
      BY <2>0, <3>0
    <3>2. QED
      BY <3>1, <2>3 DEF Reset
  <2>4. ASSUME NEW p \in Packets, Write(p)
        PROVE  /\ air' \in {"off", "advertising", "linked"} /\ synced' \in BOOLEAN
               /\ links' \in 0..MaxLinks /\ writes' \in 0..MaxWrites
    BY <2>0, <2>4 DEF Write
  <2>5. QED
    BY <2>1, <2>2, <2>3, <2>4 DEF Outside
<1>6. QED
  BY <1>3, <1>4, <1>5 DEF StackTypeOK, session

LEMMA NextTypes == Types /\ [Next]_vars => Types'
<1> SUFFICES ASSUME Types, [Next]_vars PROVE Types'
  OBVIOUS
<1>1. CASE UNCHANGED vars
  BY <1>1 DEF Types, ServoTypeOK, TaskTypeOK, StackTypeOK, vars, servo, task,
              session, radio, bounds
<1>2. QED
  BY <1>1, DemoTypes, CommandTypes, EventTypes, OutsideTypes
     DEF Next, HostStep, Waiting

\* The variables keep their types: no sweep leaves the range, no line outgrows
\* its buffer, whatever clients write.
THEOREM TypeCorrect == Spec => []TypeOK
<1>1. Spec => []Types
  BY InitTypes, NextTypes, PTL DEF Spec
<1>2. QED
  BY <1>1, TypesAreTypeOK, PTL

------------------------------------------------------------------------------
(* The servo under its mutex.                                               *)

\* Each task is between its take and its give exactly while it holds the mutex;
\* the demo task is gone exactly when there is no PWM.
LockInv ==
  /\ mutex = "demo" <=> demo \in {"check", "advance", "write", "give"}
  /\ mutex = "host" <=> host \in {"update", "write", "give"}
  /\ configured <=> demo # "deleted"

\* Output and position differ only under the mutex, between update and write.
DutyInv ==
  /\ host = "write" => command.kind = "servo"
  /\ configured =>
       duty = DutyFor(motorPosition) \/ demo = "write" \/ host = "write"

\* What a client was told, and what the host task is about to tell, is the
\* position as long as the demo is off, and the demo does not move it then.
ToldInv ==
  /\ demo = "advance" => servoTestEnabled
  /\ told # None => motorPosition = told /\ ~ servoTestEnabled
  /\ host \in {"write", "give", "answer"} /\ command.kind = "servo" =>
       motorPosition = command.position /\ ~ servoTestEnabled
  /\ host \in {"give", "answer"} /\ command.kind = "telemetry"
     /\ ~ servoTestEnabled => motorPosition = read

MutexInv == LockInv /\ DutyInv /\ ToldInv

\* What the connections' side does leaves position, output and mutex alone.
LEMMA QuietSteps ==
  HandleEvent \/ Outside \/ UNCHANGED vars =>
    /\ UNCHANGED <<servo, command, read, told>>
    /\ host' = host \/ (host = "idle" /\ host' = "handle")
<1>1. CASE HandleEvent
  BY <1>1 DEF HandleEvent, ReceiveData, servo, task
<1>2. CASE Outside
  BY <1>2 DEF Outside, Connect, Disconnect, Subscribe, Write, Synchronize,
              Reset, Stack, servo, task
<1>3. CASE UNCHANGED vars
  BY <1>3 DEF vars, servo, task
<1>4. QED
  BY <1>1, <1>2, <1>3

LEMMA InitMutex == Init => MutexInv
BY DEF Init, MutexInv, LockInv, DutyInv, ToldInv, Free, None, Just

\* The mutex excludes the tasks from each other.
LEMMA LockStep == LockInv /\ Types /\ [Next]_vars => LockInv'
<1> SUFFICES ASSUME LockInv, Types, [Next]_vars PROVE LockInv'
  OBVIOUS
<1> USE DEF LockInv, Free
<1>1. CASE DemoStep
  <2>1. UNCHANGED <<host, configured>>
    BY <1>1 DEF DemoStep, DemoMoves, DemoWake, DemoTake, DemoCheck, DemoAdvance,
                DemoWrite, DemoGive, task
  <2>2. CASE DemoWake \/ DemoAdvance \/ DemoWrite
    BY <2>1, <2>2 DEF DemoMoves, DemoWake, DemoAdvance, DemoWrite
  <2>3. CASE DemoTake
    BY <2>1, <2>3 DEF DemoMoves, DemoTake
  <2>4. CASE DemoCheck
    BY <2>1, <2>4 DEF DemoMoves, DemoCheck
  <2>5. CASE DemoGive
    BY <2>1, <2>5 DEF DemoMoves, DemoGive
  <2>6. QED
    BY <1>1, <2>2, <2>3, <2>4, <2>5 DEF DemoStep
<1>2. CASE HostTake \/ HostUpdate \/ HostWrite \/ HostGive
  <2>1. UNCHANGED <<demo, configured>>
    BY <1>2 DEF HostTake, HostUpdate, HostWrite, HostGive
  <2>2. CASE HostTake
    BY <2>1, <2>2 DEF HostMoves, HostTake
  <2>3. CASE HostUpdate
    BY <2>1, <2>3 DEF HostMoves, HostUpdate
  <2>4. CASE HostWrite
    BY <2>1, <2>4 DEF HostMoves, HostWrite
  <2>5. CASE HostGive
    BY <2>1, <2>5 DEF HostMoves, HostGive
  <2>6. QED
    BY <1>2, <2>2, <2>3, <2>4, <2>5
<1>3. CASE HostAnswer \/ Handle \/ HandleByte
  BY <1>3 DEF HostMoves, HostAnswer, Handle, HandleByte, servo
<1>4. CASE HandleEvent \/ Outside \/ UNCHANGED vars
  BY <1>4, QuietSteps DEF servo
<1>5. QED
  BY <1>1, <1>2, <1>3, <1>4 DEF Next, HostStep, Waiting

\* Position and output change together as far as the other task can see.
LEMMA DutyStep == DutyInv /\ LockInv /\ Types /\ [Next]_vars => DutyInv'
<1> SUFFICES ASSUME DutyInv, LockInv, Types, [Next]_vars PROVE DutyInv'
  OBVIOUS
<1> USE DEF DutyInv
<1>1. CASE DemoStep
  <2>1. UNCHANGED <<host, command, configured>>
    BY <1>1 DEF DemoStep, DemoMoves, DemoWake, DemoTake, DemoCheck, DemoAdvance,
                DemoWrite, DemoGive, task
  <2>2. CASE DemoWake \/ DemoTake \/ DemoCheck \/ DemoGive
    BY <2>1, <2>2 DEF DemoMoves, DemoWake, DemoTake, DemoCheck, DemoGive
  <2>3. CASE DemoAdvance
    BY <2>1, <2>3 DEF DemoMoves, DemoAdvance
  <2>4. CASE DemoWrite
    BY <2>1, <2>4 DEF DemoMoves, DemoWrite, WriteServoPosition
  <2>5. QED
    BY <1>1, <2>2, <2>3, <2>4 DEF DemoStep
<1>2. CASE HostTake \/ HostGive \/ HostAnswer \/ Handle \/ HandleByte
  BY <1>2 DEF HostMoves, HostTake, HostGive, HostAnswer, Handle, HandleByte, servo
<1>3. CASE HostUpdate
  BY <1>3 DEF HostMoves, HostUpdate
<1>4. CASE HostWrite
  BY <1>4 DEF HostMoves, HostWrite, WriteServoPosition
<1>5. CASE HandleEvent \/ Outside \/ UNCHANGED vars
  BY <1>5, QuietSteps DEF servo
<1>6. QED
  BY <1>1, <1>2, <1>3, <1>4, <1>5 DEF Next, HostStep, Waiting

\* No step makes what was told untrue.
LEMMA ToldStep ==
  ToldInv /\ DutyInv /\ LockInv /\ Types /\ [Next]_vars => ToldInv'
<1> SUFFICES ASSUME ToldInv, DutyInv, LockInv, Types, [Next]_vars
             PROVE  ToldInv'
  OBVIOUS
<1> USE DEF ToldInv
<1>1. CASE DemoStep
  <2>1. UNCHANGED <<host, command, read, told>>
    BY <1>1 DEF DemoStep, DemoMoves, DemoWake, DemoTake, DemoCheck, DemoAdvance,
                DemoWrite, DemoGive, task
  <2>2. UNCHANGED servoTestEnabled
    BY <1>1 DEF DemoStep, DemoWake, DemoTake, DemoCheck, DemoAdvance, DemoWrite,
                DemoGive
  <2>3. CASE DemoWake \/ DemoTake \/ DemoCheck \/ DemoWrite \/ DemoGive
    BY <2>1, <2>2, <2>3 DEF DemoMoves, DemoWake, DemoTake, DemoCheck, DemoWrite,
                            DemoGive
  <2>4. CASE DemoAdvance
    <3>1. servoTestEnabled /\ demo' = "write"
      BY <2>4 DEF DemoMoves, DemoAdvance
    <3>2. QED
      BY <2>1, <2>2, <3>1
  <2>5. QED
    BY <1>1, <2>3, <2>4 DEF DemoStep
<1>2. CASE HostTake \/ HostWrite \/ HostGive
  <2>1. host = "write" => command.kind = "servo"
    BY DEF DutyInv
  <2>2. QED
    BY <1>2, <2>1 DEF HostMoves, HostTake, HostWrite, HostGive
<1>3. CASE HostUpdate
  <2>1. demo # "advance" /\ demo' = demo
    BY <1>3 DEF LockInv, HostMoves, HostUpdate
  <2>2. CASE command.kind = "telemetry"
    BY <1>3, <2>1, <2>2 DEF HostMoves, HostUpdate
  <2>3. CASE command.kind = "servo"
    BY <1>3, <2>1, <2>3 DEF HostMoves, HostUpdate
  <2>4. CASE command.kind \notin {"telemetry", "servo"}
    BY <1>3, <2>1, <2>4 DEF HostMoves, HostUpdate
  <2>5. QED
    BY <2>2, <2>3, <2>4
<1>4. CASE HostAnswer
  BY <1>4 DEF HostMoves, HostAnswer, servo
<1>5. CASE Handle
  <2>1. Meaning(text).kind = "text" \/ host' \in {"idle", "take"}
    BY <1>5 DEF HostMoves, Handle
  <2>2. QED
    BY <1>5, <2>1 DEF HostMoves, Handle, servo
<1>6. CASE HandleByte
  BY <1>6 DEF HandleByte, Just, servo
<1>7. CASE HandleEvent \/ Outside \/ UNCHANGED vars
  BY <1>7, QuietSteps DEF servo
<1>8. QED
  BY <1>1, <1>2, <1>3, <1>4, <1>5, <1>6, <1>7 DEF Next, HostStep, Waiting

LEMMA MutexInvariant == Spec => [](Types /\ MutexInv)
<1>1. Types /\ MutexInv /\ [Next]_vars => (Types /\ MutexInv)'
  BY NextTypes, LockStep, DutyStep, ToldStep DEF MutexInv
<1>2. QED
  BY InitTypes, InitMutex, <1>1, PTL DEF Spec

\* A position a client was told of stays until a later command: between the
\* answer and that command the demo on the other core does not move the servo.
THEOREM ToldPositionStays == Spec => []ToldPositionHolds
<1>1. MutexInv => ToldPositionHolds
  BY DEF MutexInv, ToldInv, ToldPositionHolds
<1>2. QED
  BY MutexInvariant, <1>1, PTL

\* Whoever takes motorPositionMutex finds the output at the position.
THEOREM DutyFollowsPosition == Spec => []DutyIsOfPosition
<1>1. Types /\ MutexInv => DutyIsOfPosition
  BY DEF MutexInv, LockInv, DutyInv, DutyIsOfPosition, Free
<1>2. QED
  BY MutexInvariant, <1>1, PTL

------------------------------------------------------------------------------
(* Connections.                                                             *)

\* A connection has had its boot message or is owed it; until then it has no
\* subscription.  Without connection there is nobody to speak to.
SessionInv ==
  /\ connected => greetings = IF bootMessagePending THEN 0 ELSE 1
  /\ connected /\ notificationsEnabled => greetings = 1
  /\ ~ connected => greetings = 0 /\ ~ spoken
  /\ spoken => greetings = 1

LEMMA SessionStep == SessionInv /\ Types /\ [Next]_vars => SessionInv'
<1> SUFFICES ASSUME SessionInv, Types, [Next]_vars PROVE SessionInv'
  OBVIOUS
<1> USE DEF SessionInv
<1>1. CASE UNCHANGED session
  BY <1>1 DEF session
<1>2. DemoStep \/ HostTake \/ HostUpdate \/ HostWrite \/ HostGive \/ Handle
      \/ HandleByte \/ Outside \/ UNCHANGED vars => UNCHANGED session
  BY DEF DemoStep, DemoMoves, DemoWake, DemoTake, DemoCheck, DemoAdvance,
         DemoWrite, DemoGive, HostTake, HostUpdate, HostWrite, HostGive, Handle,
         HandleByte, Outside, Connect, Disconnect, Subscribe, Write, Synchronize,
         Reset, Stack, vars
<1>3. CASE HostAnswer
  BY <1>3 DEF HostAnswer, Say, Types, StackTypeOK
<1>4. CASE HandleEvent
  <2>1. CASE OnConnect \/ OnDisconnect
    BY <2>1 DEF OnConnect, OnDisconnect
  <2>2. ASSUME NEW on \in BOOLEAN, OnSubscribe(on) PROVE SessionInv'
    <3>1. CASE on /\ bootMessagePending /\ connected
      BY <2>2, <3>1 DEF OnSubscribe, Types, StackTypeOK
    <3>2. CASE ~ (on /\ bootMessagePending /\ connected)
      <4>1. UNCHANGED <<connected, greetings, spoken>>
        BY <2>2, <3>2 DEF OnSubscribe, Types, StackTypeOK
      <4>2. notificationsEnabled' = on
            /\ bootMessagePending' = (bootMessagePending /\ ~ on)
        BY <2>2 DEF OnSubscribe
      <4>3. QED
        BY <3>2, <4>1, <4>2 DEF Types, StackTypeOK
    <3>3. QED
      BY <3>1, <3>2
  <2>3. UNCHANGED session \/ OnConnect \/ OnDisconnect \/ OnSubscribe(TRUE)
        \/ OnSubscribe(FALSE)
    BY <1>4 DEF HandleEvent, ReceiveData, OnNotConnected, OnSynchronized
  <2>4. QED
    BY <1>1, <2>1, <2>2, <2>3
<1>5. QED
  BY <1>1, <1>2, <1>3, <1>4 DEF Next, HostStep, Waiting

\* The boot message is the first thing a connection gets, and comes once,
\* whatever the order of subscriptions, commands and answers.
THEOREM BootMessageFirst == Spec => []BootMessageOpensConnection
<1>1. Init => SessionInv
  BY DEF Init, SessionInv
<1>2. SessionInv => BootMessageOpensConnection
  BY DEF SessionInv, BootMessageOpensConnection
<1>3. QED
  BY InitTypes, NextTypes, SessionStep, <1>1, <1>2, PTL DEF Spec

------------------------------------------------------------------------------
(* Advertising.                                                             *)

\* The events that make the host task advertise.
Starters == {"disconnected", "advertising ended", "synchronized"}

\* While the radio is off and nothing has failed, one of them is on its way.
RadioInv ==
  synced /\ air = "off" /\ ~ startFailed =>
    \E i \in 1..Len(events) : events[i].type \in Starters

\* An added event stands at the end.
LEMMA AddedIsThere ==
  ASSUME Types, NEW e \in Events, Stack(e)
  PROVE  /\ \A i \in 1..Len(events) : i \in 1..Len(events') /\ events'[i] = events[i]
         /\ Len(events') \in 1..Len(events') /\ events'[Len(events')] = e
<1>1. events \in Seq(Events) /\ events' = Append(events, e) /\ Len(events) \in Nat
  BY DEF Stack, Types, StackTypeOK
<1>2. QED
  BY <1>1, AppendProperties

LEMMA RadioStep == RadioInv /\ Types /\ [Next]_vars => RadioInv'
<1> SUFFICES ASSUME RadioInv, Types, [Next]_vars PROVE RadioInv'
  OBVIOUS
<1> USE DEF RadioInv
<1>1. CASE UNCHANGED <<radio, events>>
  BY <1>1 DEF radio
<1>2. DemoStep \/ HostTake \/ HostUpdate \/ HostWrite \/ HostGive \/ HostAnswer
      \/ Handle \/ HandleByte \/ UNCHANGED vars => UNCHANGED <<radio, events>>
  BY DEF DemoStep, DemoMoves, DemoWake, DemoTake, DemoCheck, DemoAdvance,
         DemoWrite, DemoGive, HostTake, HostUpdate, HostWrite, HostGive,
         HostAnswer, Say, Handle, HandleByte, vars
<1>3. CASE HandleEvent
  <2> DEFINE e == Head(events)
  <2>1. /\ events \in Seq(Events) /\ events # <<>> /\ events' = Tail(events)
        /\ e = events[1]
    <3>1. /\ events \in Seq(Events) /\ events # <<>>
          /\ events' = Tail(events)
      BY <1>3 DEF HandleEvent, Types, StackTypeOK
    <3>2. QED
      BY <3>1
  <2>2. CASE /\ e.type \notin Starters /\ UNCHANGED <<synced, air, startFailed>>
    <3>1. SUFFICES ASSUME synced, air = "off", ~ startFailed
                   PROVE  \E i \in 1..Len(events') : events'[i].type \in Starters
      BY <2>2
    <3>2. PICK i \in 1..Len(events) : events[i].type \in Starters
      BY <3>1
    <3>3. /\ Len(events) \in Nat /\ Len(events') = Len(events) - 1
          /\ \A j \in 1..Len(events') : events'[j] = events[j + 1]
      BY <2>1, HeadTailProperties
    <3>4. i # 1
      BY <2>1, <2>2, <3>2
    <3>5. i - 1 \in 1..Len(events') /\ events'[i - 1] = events[i]
      BY <3>2, <3>3, <3>4
    <3>6. QED
      BY <3>2, <3>5
  <2>3. CASE synced' /\ air' = "off" => startFailed'
    BY <2>3
  <2>4. CASE e.type = "write" /\ ReceiveData(e.packet)
    BY <2>2, <2>4 DEF ReceiveData, radio, Starters
  <2>5. CASE /\ UNCHANGED synced
             /\ \/ e.type = "connected" /\ OnConnect
                \/ e.type = "subscribed" /\ OnSubscribe(TRUE)
                \/ e.type = "unsubscribed" /\ OnSubscribe(FALSE)
    BY <2>2, <2>5 DEF OnConnect, OnSubscribe, Starters
  <2>6. CASE /\ UNCHANGED synced
             /\ OnDisconnect \/ OnNotConnected \/ OnSynchronized
    BY <2>3, <2>6
       DEF OnDisconnect, OnNotConnected, OnSynchronized, StartAdvertising
  <2>7. QED
    BY <1>3, <2>4, <2>5, <2>6 DEF HandleEvent
<1>4. CASE Outside
  <2>1. ASSUME NEW e \in Events, Stack(e), e.type \in Starters PROVE RadioInv'
    BY <2>1, AddedIsThere
  <2>2. ASSUME NEW e \in Events, Stack(e), air' # "off" \/ UNCHANGED <<synced, air>>
        PROVE  RadioInv'
    <3>1. UNCHANGED startFailed
      BY <2>2 DEF Stack
    <3>2. CASE air' # "off"
      BY <3>2
    <3>3. CASE UNCHANGED <<synced, air>>
      BY <2>2, <3>1, <3>3, AddedIsThere
    <3>4. QED
      BY <2>2, <3>2, <3>3
  <2>3. /\ \A t \in {"connected", "disconnected", "subscribed", "unsubscribed",
                     "advertising ended", "synchronized"} :
             Event(t) \in Events /\ Event(t).type = t
        /\ \A p \in Packets : [type |-> "write", packet |-> p] \in Events
    BY DEF Event, Events
  <2>4. CASE Connect
    BY <2>1, <2>2, <2>3, <2>4 DEF Connect, Starters
  <2>5. CASE Disconnect \/ Synchronize \/ Reset
    BY <2>1, <2>3, <2>5 DEF Disconnect, Synchronize, Reset, Starters
  <2>6. CASE Subscribe
    BY <2>2, <2>3, <2>6 DEF Subscribe
  <2>7. ASSUME NEW p \in Packets, Write(p) PROVE RadioInv'
    BY <2>2, <2>3, <2>7 DEF Write
  <2>8. QED
    BY <1>4, <2>4, <2>5, <2>6, <2>7 DEF Outside
<1>5. QED
  BY <1>1, <1>2, <1>3, <1>4 DEF Next, HostStep, Waiting

\* Whichever way connections and advertising end, and however long the events
\* wait, the device is found again unless the stack refused to advertise.
THEOREM FoundAgain == Spec => []UnreachableOnlyAfterFailure
<1>1. Init => RadioInv
  BY DEF Init, RadioInv
<1>2. RadioInv /\ Types => UnreachableOnlyAfterFailure
  <2> SUFFICES ASSUME RadioInv, Types, synced, air = "off", events = <<>>
               PROVE  startFailed
    BY DEF UnreachableOnlyAfterFailure
  <2>1. \A i \in 1..Len(events) : FALSE
    OBVIOUS
  <2>2. QED
    BY <2>1 DEF RadioInv
<1>3. QED
  BY InitTypes, NextTypes, RadioStep, <1>1, <1>2, PTL DEF Spec

------------------------------------------------------------------------------
(* The lines of a write.                                                    *)

\* The line ends among the first n characters of a write.
Done(p, n) == Cardinality({i \in LineEnds(p) : i <= n})

\* After n characters the line under way has begun after character last.
LineBegins(p, last, n) ==
  /\ last \in 0..n /\ last \in LineEnds(p) \cup {0}
  /\ \A i \in (last + 1)..n : i \notin LineEnds(p)

\* The line ends are counted one by one.
LEMMA DoneCounts ==
  ASSUME NEW p \in Seq(Chars)
  PROVE  /\ IsFiniteSet(LineEnds(p))
         /\ Cardinality(LineEnds(p)) \in Nat
         /\ Done(p, 0) = 0
         /\ Done(p, Len(p)) = Cardinality(LineEnds(p))
         /\ \A n \in Nat : Done(p, n) \in 0..Cardinality(LineEnds(p))
         /\ \A n \in Nat : n + 1 \in LineEnds(p) => Done(p, n + 1) = Done(p, n) + 1
         /\ \A n \in Nat : n + 1 \notin LineEnds(p) => Done(p, n + 1) = Done(p, n)
<1> DEFINE upTo(n) == {i \in LineEnds(p) : i <= n}
<1>1. Len(p) \in Nat
  BY LenProperties
<1>2. IsFiniteSet(1..Len(p)) /\ LineEnds(p) \in SUBSET (1..Len(p))
  BY <1>1, FS_Interval DEF LineEnds
<1>3. IsFiniteSet(LineEnds(p))
  BY <1>2, FS_Subset
<1>4. Cardinality(LineEnds(p)) \in Nat
  BY <1>3, FS_CardinalityType
<1>5. \A n \in Nat : upTo(n) \in SUBSET LineEnds(p)
  OBVIOUS
<1>6. \A n \in Nat : IsFiniteSet(upTo(n))
  BY <1>3, <1>5, FS_Subset
<1>7. \A n \in Nat : Cardinality(upTo(n)) \in 0..Cardinality(LineEnds(p))
  <2> TAKE n \in Nat
  <2>1. Cardinality(upTo(n)) \in Nat
    BY <1>6, FS_CardinalityType
  <2>2. Cardinality(upTo(n)) <= Cardinality(LineEnds(p))
    BY <1>3, <1>5, FS_Subset
  <2> QED
    BY <1>4, <2>1, <2>2
<1>8. upTo(0) = {}
  BY DEF LineEnds
<1>9. upTo(Len(p)) = LineEnds(p)
  BY <1>1 DEF LineEnds
<1>10. ASSUME NEW n \in Nat, n + 1 \in LineEnds(p)
       PROVE  Cardinality(upTo(n + 1)) = Cardinality(upTo(n)) + 1
  <2>1. upTo(n + 1) = upTo(n) \cup {n + 1} /\ n + 1 \notin upTo(n)
    BY <1>2, <1>10
  <2> QED
    BY <1>6, <2>1, FS_AddElement
<1>11. ASSUME NEW n \in Nat, n + 1 \notin LineEnds(p)
       PROVE  Cardinality(upTo(n + 1)) = Cardinality(upTo(n))
  <2>1. upTo(n + 1) = upTo(n)
    BY <1>2, <1>11
  <2> QED
    BY <2>1
<1>12. Cardinality({}) = 0
  BY FS_EmptySet
<1> QED
  BY <1>3, <1>4, <1>7, <1>8, <1>9, <1>10, <1>11, <1>12 DEF Done

\* A later line end has a higher number.
LEMMA LaterLineEnd ==
  ASSUME NEW p \in Seq(Chars), NEW d \in LineEnds(p), NEW e \in LineEnds(p),
         d < e
  PROVE  Done(p, d) < Done(p, e)
<1> DEFINE upTo(n) == {i \in LineEnds(p) : i <= n}
<1>1. d \in Nat /\ e \in Nat /\ LineEnds(p) \subseteq Nat
  BY LenProperties DEF LineEnds
<1>2. IsFiniteSet(LineEnds(p))
  BY DoneCounts
<1>3. upTo(d) \in SUBSET LineEnds(p) /\ upTo(e) \in SUBSET LineEnds(p)
  OBVIOUS
<1>4. IsFiniteSet(upTo(d)) /\ IsFiniteSet(upTo(e))
  BY <1>2, <1>3, FS_Subset
<1>5. e \notin upTo(d) /\ upTo(d) \cup {e} \in SUBSET upTo(e)
  BY <1>1
<1> HIDE DEF upTo
<1>6. Cardinality(upTo(d) \cup {e}) = Cardinality(upTo(d)) + 1
  BY <1>4, <1>5, FS_AddElement
<1>7. Cardinality(upTo(d) \cup {e}) <= Cardinality(upTo(e))
  BY <1>4, <1>5, FS_Subset
<1>8. Cardinality(upTo(d)) \in Nat /\ Cardinality(upTo(e)) \in Nat
  BY <1>4, FS_CardinalityType
<1>9. Cardinality(upTo(d)) < Cardinality(upTo(e))
  BY <1>6, <1>7, <1>8
<1> QED
  BY <1>9 DEF Done, upTo

\* The line that ends at e is the one with e's number.
LEMMA LineAt ==
  ASSUME NEW p \in Seq(Chars), NEW e \in LineEnds(p), NEW last \in Nat,
         LineBegins(p, last, e - 1)
  PROVE  /\ Done(p, e) \in 1..Cardinality(LineEnds(p))
         /\ LinesOf(p)[Done(p, e)] = SubSeq(p, last + 1, e - 1)
<1> DEFINE N == Cardinality(LineEnds(p))
           endOf(n) == CHOOSE i \in LineEnds(p) :
                         Cardinality({j \in LineEnds(p) : j <= i}) = n
           startOf(end) == CHOOSE i \in 0..(end - 1) :
                             /\ i \in LineEnds(p) \cup {0}
                             /\ \A j \in (i + 1)..(end - 1) : j \notin LineEnds(p)
<1>1. e \in Nat \ {0} /\ LineEnds(p) \subseteq Nat
  BY LenProperties DEF LineEnds
<1>2. Done(p, e) \in 1..N
  <2>1. e - 1 \in Nat /\ (e - 1) + 1 = e
    BY <1>1
  <2>2. Done(p, e) = Done(p, e - 1) + 1
    BY <2>1, DoneCounts
  <2>3. Done(p, e - 1) \in Nat /\ Done(p, e) \in 0..N
    BY <1>1, <2>1, DoneCounts
  <2> QED
    BY <2>2, <2>3
<1>3. endOf(Done(p, e)) = e
  <2>1. \A i \in LineEnds(p) : Done(p, i) = Done(p, e) => i = e
    <3> TAKE i \in LineEnds(p)
    <3>1. Done(p, i) \in Nat /\ Done(p, e) \in Nat
      BY <1>1, DoneCounts
    <3>2. i < e => Done(p, i) < Done(p, e)
      BY LaterLineEnd
    <3>3. e < i => Done(p, e) < Done(p, i)
      BY LaterLineEnd
    <3> QED
      BY <1>1, <3>1, <3>2, <3>3
  <2>2. endOf(Done(p, e)) = CHOOSE i \in LineEnds(p) : Done(p, i) = Done(p, e)
    BY DEF Done
  <2> QED
    BY <2>1, <2>2
<1>4. startOf(e) = last
  <2> DEFINE starts(i) == /\ i \in LineEnds(p) \cup {0}
                          /\ \A j \in (i + 1)..(e - 1) : j \notin LineEnds(p)
  <2>1. last \in 0..(e - 1) /\ starts(last)
    BY DEF LineBegins
  <2>2. \A i \in 0..(e - 1) : starts(i) => i = last
    <3> TAKE i \in 0..(e - 1)
    <3>1. i < last => last \in (i + 1)..(e - 1) /\ last \in LineEnds(p)
      BY <1>1, <2>1
    <3>2. last < i => i \in (last + 1)..(e - 1) /\ i # 0
      BY <1>1, <2>1
    <3> QED
      BY <1>1, <2>1, <3>1, <3>2
  <2> QED
    BY <2>1, <2>2
<1>5. LinesOf(p) = [n \in 1..N |->
                      SubSeq(p, startOf(endOf(n)) + 1, endOf(n) - 1)]
  BY DEF LinesOf
<1> HIDE DEF endOf, startOf, N
<1>6. LinesOf(p)[Done(p, e)]
        = SubSeq(p, startOf(endOf(Done(p, e))) + 1, endOf(Done(p, e)) - 1)
  BY <1>2, <1>5
<1> QED
  BY <1>2, <1>3, <1>4, <1>6 DEF N

\* As many lines as line ends.
LEMMA LinesAreCounted ==
  ASSUME NEW p \in Seq(Chars), LineEnds(p) # {}
  PROVE  /\ LinesOf(p) \in Seq({LinesOf(p)[n] : n \in 1..Cardinality(LineEnds(p))})
         /\ Len(LinesOf(p)) = Cardinality(LineEnds(p))
<1> DEFINE N == Cardinality(LineEnds(p))
           S == {LinesOf(p)[n] : n \in 1..N}
<1>1. N \in Nat
  BY DoneCounts
<1>2. DOMAIN LinesOf(p) = 1..N /\ LinesOf(p) = [n \in 1..N |-> LinesOf(p)[n]]
  <2> DEFINE line(n) ==
               LET end == CHOOSE i \in LineEnds(p) :
                            Cardinality({j \in LineEnds(p) : j <= i}) = n
                   start == CHOOSE i \in 0..(end - 1) :
                              /\ i \in LineEnds(p) \cup {0}
                              /\ \A j \in (i + 1)..(end - 1) : j \notin LineEnds(p)
               IN  SubSeq(p, start + 1, end - 1)
  <2>1. LinesOf(p) = [n \in 1..N |-> line(n)]
    BY DEF LinesOf
  <2> HIDE DEF line
  <2> QED
    BY <2>1
<1> HIDE DEF N
<1>3. LinesOf(p) \in [1..N -> S]
  BY <1>2
<1>4. LinesOf(p) \in Seq(S)
  <2> HIDE DEF S
  <2> QED
    BY <1>1, <1>3, SeqDef
<1>5. Len(LinesOf(p)) = N
  <2>1. Len(LinesOf(p)) \in Nat /\ DOMAIN LinesOf(p) = 1..Len(LinesOf(p))
    BY <1>4, LenProperties
  <2> QED
    BY <1>1, <1>2, <2>1
<1> QED
  BY <1>4, <1>5 DEF N

\* In a write of whole lines every character that is not a line end comes
\* before one.
LEMMA NextLineEnd ==
  ASSUME NEW p \in Seq(Chars), NEW n \in 0..(Len(p) - 1),
         p[Len(p)] = EndOfLine
  PROVE  \E e \in LineEnds(p) :
           n < e /\ \A i \in (n + 1)..(e - 1) : i \notin LineEnds(p)
<1> DEFINE Later == {i \in LineEnds(p) : n < i}
<1>1. Len(p) \in Nat /\ LineEnds(p) \subseteq Nat
  BY LenProperties DEF LineEnds
<1>2. Len(p) \in Later
  BY <1>1 DEF LineEnds
<1>3. Later \subseteq Nat /\ Later # {}
  BY <1>1, <1>2
<1>4. \E e \in Later : \A i \in Later : ~ (<<i, e>> \in OpToRel(<, Nat))
  <2> HIDE DEF Later
  <2> QED
    BY <1>3, NatLessThanWellFounded, WFMin
<1>5. PICK e \in Later : \A i \in Later : ~ (<<i, e>> \in OpToRel(<, Nat))
  BY <1>4
<1>6. \A i \in Later : ~ (i < e)
  BY <1>1, <1>5 DEF OpToRel
<1>7. e \in LineEnds(p) /\ n < e /\ e \in Nat /\ n \in Nat
  BY <1>1, <1>5 DEF OpToRel
<1>8. \A i \in (n + 1)..(e - 1) : i \notin LineEnds(p)
  <2> SUFFICES ASSUME NEW i \in (n + 1)..(e - 1), i \in LineEnds(p) PROVE FALSE
    OBVIOUS
  <2>1. i \in Later /\ i < e
    BY <1>7
  <2> QED
    BY <1>6, <2>1
<1> QED
  BY <1>7, <1>8

------------------------------------------------------------------------------
(* Writes cut into commands.                                                *)

\* The commands executed, with the one that the host task is about to execute.
Taken == IF host = "handle" THEN Append(executed, text) ELSE executed

\* After n characters of the write p: what is left of it, the line under way in
\* the buffer, and the lines before it taken.
Progress(p, n, last) ==
  /\ LineBegins(p, last, n)
  /\ packet = SubSeq(p, n + 1, Len(p))
  /\ commandBuffer = SubSeq(p, last + 1, n)
  /\ Taken = SubSeq(LinesOf(p), 1, Done(p, n))

\* A write of whole commands, whose processing began with an empty buffer.
CleanWrite(w) == Whole(w.chars) /\ w.clean /\ w.chars # <<>>

CutInv ==
  CleanWrite(write) =>
    IF LineEnds(write.chars) = {}
      THEN packet = <<>> /\ Taken = <<write.chars>>
      ELSE \E n \in 0..Len(write.chars) : \E last \in 0..n :
             Progress(write.chars, n, last)

\* A step that leaves the write, its rest, the buffer and what is taken alone.
LEMMA CutStays ==
  CutInv /\ UNCHANGED <<write, packet, commandBuffer, Taken>> => CutInv'
<1> SUFFICES ASSUME CutInv, UNCHANGED <<write, packet, commandBuffer, Taken>>
             PROVE  CutInv'
  OBVIOUS
<1>1. ASSUME NEW p, NEW n, NEW last, Progress(p, n, last)
      PROVE  Progress(p, n, last)'
  BY <1>1 DEF Progress
<1>2. PICK w : w = write
  OBVIOUS
<1>3. write' = w
  BY <1>2
<1>4. CASE ~ CleanWrite(w)
  BY <1>3, <1>4 DEF CutInv
<1>5. CASE CleanWrite(w) /\ LineEnds(w.chars) = {}
  <2>1. packet = <<>> /\ Taken = <<w.chars>>
    BY <1>2, <1>5 DEF CutInv
  <2> QED
    BY <1>3, <1>5, <2>1 DEF CutInv
<1>6. CASE CleanWrite(w) /\ LineEnds(w.chars) # {}
  <2>1. \E n \in 0..Len(w.chars) : \E last \in 0..n : Progress(w.chars, n, last)
    BY <1>2, <1>6 DEF CutInv
  <2>2. \E n \in 0..Len(w.chars) : \E last \in 0..n : Progress(w.chars, n, last)'
    BY <1>1, <2>1
  <2> QED
    BY <1>3, <1>6, <2>2 DEF CutInv
<1> QED
  BY <1>4, <1>5, <1>6

\* In the middle of a whole line there is room in the buffer.
LEMMA LineFits ==
  ASSUME NEW p \in Seq(Chars), Whole(p), LineEnds(p) # {},
         NEW n \in 0..(Len(p) - 1), NEW last \in 0..n, LineBegins(p, last, n),
         n + 1 \notin LineEnds(p)
  PROVE  n - last + 1 < CommandBufferSize
<1>1. p[Len(p)] = EndOfLine
  BY DEF Whole
<1>2. PICK e \in LineEnds(p) :
        n < e /\ \A i \in (n + 1)..(e - 1) : i \notin LineEnds(p)
  BY <1>1, NextLineEnd
<1>3. e \in 1..Len(p) /\ Len(p) \in Nat /\ n + 1 < e
  <2>1. e \in 1..Len(p) /\ Len(p) \in Nat
    BY LenProperties DEF LineEnds
  <2>2. e # n + 1
    OBVIOUS
  <2> QED
    BY <1>2, <2>1, <2>2
<1>4. LineBegins(p, last, e - 1)
  <2>1. \A i \in (last + 1)..n : i \notin LineEnds(p)
    BY DEF LineBegins
  <2>2. \A i \in (last + 1)..(e - 1) : i \notin LineEnds(p)
    BY <1>2, <1>3, <2>1
  <2> QED
    BY <1>3, <2>2 DEF LineBegins
<1>5. /\ Done(p, e) \in 1..Len(LinesOf(p))
      /\ LinesOf(p)[Done(p, e)] = SubSeq(p, last + 1, e - 1)
  <2>1. last \in Nat
    OBVIOUS
  <2>2. /\ Done(p, e) \in 1..Cardinality(LineEnds(p))
        /\ LinesOf(p)[Done(p, e)] = SubSeq(p, last + 1, e - 1)
    BY <1>4, <2>1, LineAt
  <2>3. Len(LinesOf(p)) = Cardinality(LineEnds(p))
    BY LinesAreCounted
  <2> QED
    BY <2>2, <2>3
<1>6. Len(LinesOf(p)[Done(p, e)]) < CommandBufferSize
  BY <1>5 DEF Whole
<1>7. Len(SubSeq(p, last + 1, e - 1)) = e - 1 - last
  <2>1. \A i \in (last + 1)..(e - 1) : p[i] \in Chars
    BY <1>3
  <2>2. Len(SubSeq(p, last + 1, e - 1)) =
          IF last + 1 <= e - 1 THEN e - 1 - (last + 1) + 1 ELSE 0
    BY <1>3, <2>1, SubSeqProperties
  <2> QED
    BY <1>3, <2>2
<1> QED
  BY <1>3, <1>5, <1>6, <1>7, ServoBleAssumption

\* A stretch of a sequence grows by its next element.
LEMMA StretchGrows ==
  ASSUME NEW S, NEW s \in Seq(S), NEW m \in 1..Len(s), NEW k \in (m - 1)..(Len(s) - 1)
  PROVE  Append(SubSeq(s, m, k), s[k + 1]) = SubSeq(s, m, k + 1)
<1>1. Len(s) \in Nat /\ k + 1 \in m..Len(s) /\ (k + 1) - 1 = k
  BY LenProperties
<1>2. s[k + 1] \in S /\ \A i \in m..k : s[i] \in S
  BY <1>1, ElementOfSeq
<1>3. SubSeq(s, m, k) \in Seq(S)
  BY <1>1, <1>2, SubSeqProperties
<1>4. SubSeq(s, m, k + 1) = SubSeq(s, m, (k + 1) - 1) \o <<s[k + 1]>>
  BY <1>1, SubSeqRecursiveSecond
<1>5. Append(SubSeq(s, m, k), s[k + 1]) = SubSeq(s, m, k) \o <<s[k + 1]>>
  BY <1>2, <1>3, AppendIsConcat
<1> QED
  BY <1>1, <1>4, <1>5

\* A line end is no printable character.
LEMMA LineEndIsApart == EndOfLine \notin Printable
<1>1. \A i \in 1..10 : Digits[i] # EndOfLine
  <2> TAKE i \in 1..10
  <2>1. \/ i = 1 \/ i = 2 \/ i = 3 \/ i = 4 \/ i = 5
        \/ i = 6 \/ i = 7 \/ i = 8 \/ i = 9 \/ i = 10
    OBVIOUS
  <2>2. /\ Digits[1] = "0" /\ Digits[2] = "1" /\ Digits[3] = "2"
        /\ Digits[4] = "3" /\ Digits[5] = "4" /\ Digits[6] = "5"
        /\ Digits[7] = "6" /\ Digits[8] = "7" /\ Digits[9] = "8"
        /\ Digits[10] = "9"
    BY DEF Digits
  <2> QED
    BY <2>1, <2>2 DEF EndOfLine
<1>2. EndOfLine \notin DigitChars
  BY <1>1 DEF DigitChars
<1>3. EndOfLine \notin Words
  BY DEF EndOfLine, Words
<1> QED
  BY <1>2, <1>3 DEF Printable

\* One character more, which does not end the line under way.
LEMMA LineGoesOn ==
  ASSUME NEW p \in Seq(Chars), NEW n \in 0..(Len(p) - 1), NEW last \in 0..n,
         LineBegins(p, last, n), n + 1 \notin LineEnds(p)
  PROVE  /\ LineBegins(p, last, n + 1)
         /\ Append(SubSeq(p, last + 1, n), p[n + 1]) = SubSeq(p, last + 1, n + 1)
         /\ Done(p, n + 1) = Done(p, n)
<1>1. Len(p) \in Nat
  BY LenProperties
<1>2. LineBegins(p, last, n + 1)
  BY DEF LineBegins
<1>3. Append(SubSeq(p, last + 1, n), p[n + 1]) = SubSeq(p, last + 1, n + 1)
  <2>1. last + 1 \in 1..Len(p) /\ n \in ((last + 1) - 1)..(Len(p) - 1)
    BY <1>1
  <2> QED
    BY <2>1, StretchGrows
<1>4. Done(p, n + 1) = Done(p, n)
  BY DoneCounts
<1> QED
  BY <1>2, <1>3, <1>4

\* One character more, which ends the line under way.
LEMMA LineIsOver ==
  ASSUME NEW p \in Seq(Chars), NEW n \in 0..(Len(p) - 1), NEW last \in 0..n,
         LineBegins(p, last, n), n + 1 \in LineEnds(p)
  PROVE  /\ LineBegins(p, n + 1, n + 1)
         /\ SubSeq(p, (n + 1) + 1, n + 1) = <<>>
         /\ Append(SubSeq(LinesOf(p), 1, Done(p, n)), SubSeq(p, last + 1, n))
              = SubSeq(LinesOf(p), 1, Done(p, n + 1))
<1> DEFINE lines == LinesOf(p)
           k == Done(p, n)
           S == {lines[i] : i \in 1..Cardinality(LineEnds(p))}
<1>1. n \in Nat /\ last \in Nat /\ (n + 1) - 1 = n
  OBVIOUS
<1>2. LineBegins(p, n + 1, n + 1)
  BY <1>1 DEF LineBegins
<1>3. SubSeq(p, (n + 1) + 1, n + 1) = <<>>
  <2>1. n + 1 \in Int /\ (n + 1) + 1 \in Int /\ n + 1 < (n + 1) + 1
    BY <1>1
  <2> QED
    BY <2>1, SubSeqEmpty
<1>4. lines \in Seq(S) /\ Len(lines) = Cardinality(LineEnds(p))
  <2>1. LineEnds(p) # {}
    OBVIOUS
  <2> QED
    BY <2>1, LinesAreCounted
<1>5. Done(p, n + 1) \in 1..Cardinality(LineEnds(p))
      /\ lines[Done(p, n + 1)] = SubSeq(p, last + 1, n)
  <2>1. LineBegins(p, last, (n + 1) - 1)
    BY <1>1
  <2>2. LinesOf(p)[Done(p, n + 1)] = SubSeq(p, last + 1, (n + 1) - 1)
        /\ Done(p, n + 1) \in 1..Cardinality(LineEnds(p))
    BY <1>1, <2>1, LineAt
  <2> QED
    BY <1>1, <2>2
<1>6. k \in Nat /\ Done(p, n + 1) = k + 1
  BY <1>1, DoneCounts
<1> HIDE DEF lines, k, S
<1>7. Append(SubSeq(lines, 1, k), lines[k + 1]) = SubSeq(lines, 1, k + 1)
  <2>1. Len(lines) \in Nat
    BY <1>4, LenProperties
  <2>2. 1 \in 1..Len(lines) /\ k \in (1 - 1)..(Len(lines) - 1)
    BY <1>4, <1>5, <1>6, <2>1
  <2> QED
    BY <1>4, <2>2, StretchGrows
<1>8. Append(SubSeq(lines, 1, k), SubSeq(p, last + 1, n))
        = SubSeq(lines, 1, Done(p, n + 1))
  BY <1>5, <1>6, <1>7
<1> QED
  BY <1>2, <1>3, <1>8 DEF lines, k

\* The host task takes the next character of a write.
LEMMA CutByte == Types /\ CutInv /\ HandleByte => CutInv'
<1> SUFFICES ASSUME Types, CutInv, HandleByte PROVE CutInv'
  OBVIOUS
<1>1. PICK w : w = write
  OBVIOUS
<1>2. write' = w /\ host = "idle" /\ packet # <<>> /\ executed' = executed
      /\ packet' = Tail(packet)
  BY <1>1 DEF HandleByte
<1>3. SUFFICES ASSUME CleanWrite(w)
               PROVE  CutInv'
  BY <1>2 DEF CutInv
<1> DEFINE p == w.chars
<1>4. p \in Seq(Chars) /\ Whole(p)
  BY <1>1, <1>3 DEF Types, TaskTypeOK, CleanWrite
<1>5. LineEnds(p) # {}
  BY <1>1, <1>2, <1>3 DEF CutInv
<1>6. \E n \in 0..Len(p) : \E last \in 0..n : Progress(p, n, last)
  BY <1>1, <1>3, <1>5 DEF CutInv
<1>7. PICK n \in 0..Len(p), last \in 0..Len(p) : last \in 0..n /\ Progress(p, n, last)
  <2>1. Len(p) \in Nat
    BY <1>4, LenProperties
  <2> HIDE DEF p
  <2> QED
    BY <1>6, <2>1
<1> HIDE DEF p
<1>8. SUFFICES \E m \in 0..Len(p) : \E begin \in 0..m : Progress(p, m, begin)'
  BY <1>2, <1>3, <1>5 DEF CutInv, p
<1>9. LineBegins(p, last, n) /\ packet = SubSeq(p, n + 1, Len(p))
      /\ commandBuffer = SubSeq(p, last + 1, n)
      /\ executed = SubSeq(LinesOf(p), 1, Done(p, n))
  BY <1>2, <1>7 DEF Progress, Taken
<1>10. n \in 0..(Len(p) - 1) /\ Len(p) \in Nat
  <2>1. Len(p) \in Nat
    BY <1>4, LenProperties
  <2>2. n # Len(p)
    <3> SUFFICES ASSUME n = Len(p) PROVE FALSE
      OBVIOUS
    <3>1. SubSeq(p, n + 1, Len(p)) = <<>>
      BY <2>1, SubSeqEmpty
    <3> QED
      BY <1>2, <1>9, <3>1
  <2> QED
    BY <2>1, <2>2
<1>11. Head(packet) = p[n + 1] /\ packet' = SubSeq(p, (n + 1) + 1, Len(p))
  <2>1. n + 1 \in 1..Len(p) /\ Len(p) \in (n + 1)..Len(p)
    BY <1>10
  <2> QED
    BY <1>2, <1>4, <1>9, <2>1, HeadTailOfSubSeq
<1>12. p[n + 1] \notin {Erase, Control}
  BY <1>4, <1>10 DEF Whole, Has
<1>13. CASE p[n + 1] = EndOfLine
  <2>1. n + 1 \in LineEnds(p)
    BY <1>10, <1>13 DEF LineEnds
  <2>2. p[n + 1] \notin Printable
    BY <1>13, LineEndIsApart
  <2>3. text' = commandBuffer /\ commandBuffer' = <<>> /\ host' = "handle"
    BY <1>11, <1>12, <2>2 DEF HandleByte
  <2>4. LineBegins(p, n + 1, n + 1)
        /\ SubSeq(p, (n + 1) + 1, n + 1) = <<>>
        /\ Append(SubSeq(LinesOf(p), 1, Done(p, n)), SubSeq(p, last + 1, n))
             = SubSeq(LinesOf(p), 1, Done(p, n + 1))
    BY <1>4, <1>7, <1>9, <1>10, <2>1, LineIsOver
  <2>5. Taken' = SubSeq(LinesOf(p), 1, Done(p, n + 1))
    BY <1>2, <1>9, <2>3, <2>4 DEF Taken
  <2>6. Progress(p, n + 1, n + 1)'
    BY <1>11, <2>3, <2>4, <2>5 DEF Progress
  <2>7. n + 1 \in 0..Len(p) /\ n + 1 \in 0..(n + 1)
    BY <1>10
  <2> QED
    BY <2>6, <2>7
<1>14. CASE p[n + 1] # EndOfLine
  <2>1. n + 1 \notin LineEnds(p)
    BY <1>14 DEF LineEnds
  <2>2. LineBegins(p, last, n + 1)
        /\ Append(SubSeq(p, last + 1, n), p[n + 1]) = SubSeq(p, last + 1, n + 1)
        /\ Done(p, n + 1) = Done(p, n)
    BY <1>4, <1>7, <1>9, <1>10, <2>1, LineGoesOn
  <2>3. ~ (Len(commandBuffer) + 1 >= CommandBufferSize)
    <3>1. n - last + 1 < CommandBufferSize
      BY <1>4, <1>5, <1>7, <1>9, <1>10, <2>1, LineFits
    <3>2. Len(commandBuffer) = n - last
      <4>1. \A i \in (last + 1)..n : p[i] \in Chars
        BY <1>4, <1>10, ElementOfSeq
      <4>2. Len(SubSeq(p, last + 1, n))
              = IF last + 1 <= n THEN n - (last + 1) + 1 ELSE 0
        BY <1>7, <1>10, <4>1, SubSeqProperties
      <4> QED
        BY <1>7, <1>9, <4>2
    <3> QED
      BY <3>1, <3>2, <1>7, <1>10, ServoBleAssumption
  <2>4. commandBuffer' = Append(commandBuffer, p[n + 1])
        /\ UNCHANGED <<text, host>>
    BY <1>11, <1>12, <1>14, <2>3 DEF HandleByte
  <2>5. Taken' = SubSeq(LinesOf(p), 1, Done(p, n + 1))
    BY <1>2, <1>9, <2>2, <2>4 DEF Taken
  <2>6. Progress(p, n + 1, last)'
    BY <1>9, <1>11, <2>2, <2>4, <2>5 DEF Progress
  <2>7. n + 1 \in 0..Len(p) /\ last \in 0..(n + 1)
    BY <1>7, <1>10
  <2> QED
    BY <2>6, <2>7
<1> QED
  BY <1>13, <1>14

\* The host task is handed a write.
LEMMA CutReceive ==
  ASSUME Types, CutInv, HandleEvent, NEW q \in Seq(Chars), ReceiveData(q)
  PROVE  CutInv'
<1>1. host = "idle" /\ packet = <<>>
  BY DEF HandleEvent
<1>2. write' = [chars |-> q, clean |-> commandBuffer = <<>>] /\ executed' = <<>>
      /\ commandBuffer' = commandBuffer
  BY DEF ReceiveData
<1>3. SUFFICES ASSUME CleanWrite(write') PROVE CutInv'
  BY DEF CutInv
<1>4. write'.chars = q /\ Whole(q) /\ commandBuffer = <<>> /\ q # <<>>
  BY <1>2, <1>3 DEF CleanWrite
<1>5. ~ Has(q, {NonAscii}) /\ ~ Has(q, {Erase, Control})
  BY <1>4 DEF Whole, Has
<1>6. CASE LineEnds(q) = {}
  <2>1. ~ Has(q, {EndOfLine})
    BY <1>6 DEF Has, LineEnds
  <2>2. Len(q) < CommandBufferSize
    <3>1. LinesOf(q) = <<q>>
      BY <1>6 DEF LinesOf
    <3>2. Len(LinesOf(q)) = 1 /\ LinesOf(q)[1] = q
      BY <3>1
    <3>3. 1 \in 1..Len(LinesOf(q))
      BY <3>2
    <3> QED
      BY <1>4, <3>2, <3>3 DEF Whole
  <2>3. Bare(q)
    BY <1>4, <2>1, <2>2 DEF Bare
  <2>4. packet' = packet /\ host' = "handle" /\ text' = q
    BY <1>5, <2>3 DEF ReceiveData
  <2>5. Taken' = Append(<<>>, q)
    BY <1>2, <2>4 DEF Taken
  <2>6. Append(<<>>, q) = <<q>>
    OBVIOUS
  <2> QED
    BY <1>1, <1>4, <1>6, <2>4, <2>5, <2>6 DEF CutInv
<1>7. CASE LineEnds(q) # {}
  <2>1. Has(q, {EndOfLine})
    BY <1>7 DEF Has, LineEnds
  <2>2. ~ Bare(q)
    BY <2>1 DEF Bare
  <2>3. packet' = q /\ host' = "idle"
    BY <1>1, <1>5, <2>2 DEF ReceiveData
  <2>4. Len(q) \in Nat
    BY LenProperties
  <2>5. LineBegins(q, 0, 0)
    BY DEF LineBegins
  <2>6. SubSeq(q, 0 + 1, Len(q)) = q
    BY SubSeqFull
  <2>7. SubSeq(q, 0 + 1, 0) = <<>> /\ SubSeq(LinesOf(q), 1, 0) = <<>>
    BY SubSeqEmpty
  <2>8. Done(q, 0) = 0
    BY DoneCounts
  <2>9. Taken' = <<>>
    BY <1>2, <2>3 DEF Taken
  <2>10. Progress(q, 0, 0)'
    BY <1>2, <1>4, <2>3, <2>5, <2>6, <2>7, <2>8, <2>9 DEF Progress
  <2>11. \E n \in 0..Len(q) : \E last \in 0..n : Progress(q, n, last)'
    <3>1. 0 \in 0..Len(q) /\ 0 \in 0..0
      BY <2>4
    <3> QED
      BY <2>10, <3>1
  <2> QED
    BY <1>4, <1>7, <2>11 DEF CutInv
<1> QED
  BY <1>6, <1>7

\* Every step of the program keeps the cutting up to date.
LEMMA CutStep == Types /\ CutInv /\ [Next]_vars => CutInv'
<1> SUFFICES ASSUME Types, CutInv, [Next]_vars PROVE CutInv'
  OBVIOUS
<1>1. ASSUME UNCHANGED task PROVE CutInv'
  BY <1>1, CutStays DEF task, Taken
<1>2. CASE DemoStep
  BY <1>1, <1>2 DEF DemoStep, DemoMoves, DemoWake, DemoTake, DemoCheck,
                    DemoAdvance, DemoWrite, DemoGive
<1>3. CASE Outside
  BY <1>1, <1>3 DEF Outside, Connect, Disconnect, Subscribe, Write,
                    Synchronize, Reset, Stack
<1>4. CASE HostTake \/ HostUpdate \/ HostWrite \/ HostGive \/ HostAnswer
  <2>1. UNCHANGED <<write, packet, commandBuffer, executed>>
    BY <1>4 DEF HostTake, HostUpdate, HostWrite, HostGive, HostAnswer
  <2>2. host # "handle" /\ host' # "handle"
    BY <1>4 DEF HostTake, HostUpdate, HostWrite, HostGive, HostAnswer, HostMoves
  <2> QED
    BY <2>1, <2>2, CutStays DEF Taken
<1>5. CASE Handle
  <2>1. UNCHANGED <<write, packet, commandBuffer>>
        /\ executed' = Append(executed, text)
        /\ host = "handle" /\ host' \in {"idle", "answer", "take"}
    BY <1>5 DEF Handle, HostMoves
  <2>2. Taken' = Taken
    BY <2>1 DEF Taken
  <2> QED
    BY <2>1, <2>2, CutStays
<1>6. CASE HandleByte
  BY <1>6, CutByte
<1>7. CASE HandleEvent
  <2>1. CASE UNCHANGED task
    BY <1>1, <2>1
  <2>2. CASE ~ UNCHANGED task
    <3> DEFINE e == Head(events)
    <3>1. e.type = "write" /\ ReceiveData(e.packet)
      BY <1>7, <2>2 DEF HandleEvent
    <3>2. e \in Events
      BY <1>7, HeadTailProperties DEF HandleEvent, Types, StackTypeOK
    <3>3. e.packet \in Seq(Chars)
      BY <3>1, <3>2, ServoBleAssumption DEF Events
    <3> HIDE DEF e
    <3> QED
      BY <1>7, <3>1, <3>3, CutReceive
  <2> QED
    BY <2>1, <2>2
<1>8. CASE UNCHANGED vars
  BY <1>1, <1>8 DEF vars
<1>9. CASE Waiting
  BY <1>8, <1>9 DEF Waiting
<1> QED
  BY <1>2, <1>3, <1>4, <1>5, <1>6, <1>7, <1>8, <1>9 DEF Next, HostStep

\* A write of whole commands has exactly these executed, in their order and
\* nothing else, for every buffer size, every set of writes and however the
\* demo, connections and further writes come in between.
THEOREM WritesAreExecuted == Spec => []CompleteWritesAreExecuted
<1>1. Init => CutInv
  BY DEF Init, CutInv, CleanWrite
<1>2. Types /\ CutInv => CompleteWritesAreExecuted
  <2> SUFFICES ASSUME Types, CutInv, CleanWrite(write)
               PROVE  /\ Len(executed) <= Len(LinesOf(write.chars))
                      /\ executed = SubSeq(LinesOf(write.chars), 1, Len(executed))
                      /\ host = "idle" /\ packet = <<>> =>
                           executed = LinesOf(write.chars)
    BY DEF CompleteWritesAreExecuted, CleanWrite
  <2> DEFINE p == write.chars
             lines == LinesOf(p)
             E == Seq(Chars)
  <2>1. p \in Seq(Chars) /\ executed \in Seq(E) /\ text \in E
    BY DEF Types, TaskTypeOK
  <2>2. Len(executed) \in Nat /\ Len(p) \in Nat
    BY <2>1, LenProperties
  \* Taken is a beginning of the lines, and all of them at the end.
  <2>3. PICK k \in Nat : /\ k <= Len(lines) /\ Len(lines) \in Nat
                         /\ Taken = SubSeq(lines, 1, k) /\ Len(Taken) = k
                         /\ packet = <<>> => Taken = lines
    <3>1. CASE LineEnds(p) = {}
      <4>1. lines = <<p>> /\ Taken = <<p>>
        BY <3>1 DEF CutInv, LinesOf
      <4>2. <<p>> \in Seq(E) /\ Len(<<p>>) = 1
        BY <2>1
      <4>3. SubSeq(<<p>>, 1, Len(<<p>>)) = <<p>>
        BY <4>2, SubSeqFull
      <4> HIDE DEF p, lines, E
      <4> QED
        BY <4>1, <4>2, <4>3
    <3>2. CASE LineEnds(p) # {}
      <4> DEFINE S == {lines[i] : i \in 1..Cardinality(LineEnds(p))}
      <4>1. lines \in Seq(S) /\ Len(lines) = Cardinality(LineEnds(p))
        BY <2>1, <3>2, LinesAreCounted
      <4>2. \E n \in 0..Len(p) : \E last \in 0..n : Progress(p, n, last)
        BY <3>2 DEF CutInv
      <4> HIDE DEF p, lines, E, S
      <4>3. PICK n \in 0..Len(p) : \E last \in 0..n : Progress(p, n, last)
        BY <4>2
      <4>4. Taken = SubSeq(lines, 1, Done(p, n)) /\ packet = SubSeq(p, n + 1, Len(p))
        BY <4>3 DEF Progress, lines
      <4>5. Done(p, n) \in 0..Len(lines) /\ Len(lines) \in Nat
        BY <2>1, <2>2, <4>1, DoneCounts
      <4>6. Len(SubSeq(lines, 1, Done(p, n))) = Done(p, n)
        <5>1. \A i \in 1..Done(p, n) : lines[i] \in S
          BY <4>1, <4>5, ElementOfSeq
        <5>2. Len(SubSeq(lines, 1, Done(p, n)))
                = IF 1 <= Done(p, n) THEN Done(p, n) - 1 + 1 ELSE 0
          BY <4>5, <5>1, SubSeqProperties
        <5> QED
          BY <4>5, <5>2
      <4>7. ASSUME packet = <<>> PROVE Taken = lines
        <5>1. n = Len(p)
          <6> SUFFICES ASSUME n < Len(p) PROVE FALSE
            BY <2>2
          <6>1. \A i \in (n + 1)..Len(p) : p[i] \in Chars
            BY <2>1, ElementOfSeq
          <6>2. Len(SubSeq(p, n + 1, Len(p)))
                  = IF n + 1 <= Len(p) THEN Len(p) - (n + 1) + 1 ELSE 0
            BY <2>2, <6>1, SubSeqProperties
          <6>3. Len(packet) = 0
            BY <4>7
          <6> QED
            BY <2>2, <4>4, <6>2, <6>3
        <5>2. Done(p, n) = Len(lines)
          BY <2>1, <4>1, <5>1, DoneCounts
        <5> QED
          BY <4>1, <4>4, <5>2, SubSeqFull
      <4> QED
        BY <4>4, <4>5, <4>6, <4>7
    <3> QED
      BY <3>1, <3>2
  <2> HIDE DEF p, lines
  <2>4. CASE host # "handle"
    <3>1. Taken = executed
      BY <2>4 DEF Taken
    <3>2. /\ Len(executed) <= Len(lines)
          /\ executed = SubSeq(lines, 1, Len(executed))
          /\ packet = <<>> => executed = lines
      BY <2>3, <3>1
    <3> QED
      BY <3>2 DEF p, lines
  <2>5. CASE host = "handle"
    <3>1. Taken = Append(executed, text)
      BY <2>5 DEF Taken
    <3>2. /\ Len(Append(executed, text)) = Len(executed) + 1
          /\ \A i \in 1..Len(executed) : Append(executed, text)[i] = executed[i]
      BY <2>1, AppendProperties
    <3>3. k = Len(executed) + 1 /\ Len(executed) <= Len(lines)
      BY <2>2, <2>3, <3>1, <3>2
    <3>4. \A i \in 1..Len(executed) : lines[i] = executed[i]
      <4> TAKE i \in 1..Len(executed)
      <4>1. SubSeq(lines, 1, k)[i] = executed[i]
        BY <2>3, <3>1, <3>2
      <4>2. SubSeq(lines, 1, k)[i] = lines[i]
        <5>1. i \in 1..k /\ k \in Nat
          BY <2>2, <3>3
        <5>2. \A j \in 1..(k - 1 + 1) :
                SubSeq(lines, 1, k)[j] = lines[1 + j - 1]
          <6> DEFINE L == {lines[j] : j \in 1..k}
          <6>1. \A j \in 1..k : lines[j] \in L
            OBVIOUS
          <6> HIDE DEF L
          <6> QED
            BY <5>1, <6>1, SubSeqProperties
        <5> QED
          BY <5>1, <5>2
      <4> QED
        BY <4>1, <4>2
    <3>5. executed = SubSeq(lines, 1, Len(executed))
      <4>1. \A i \in 1..Len(executed) : executed[i] \in E /\ lines[i] \in E
        BY <2>1, <3>4, ElementOfSeq
      <4>2. /\ SubSeq(lines, 1, Len(executed)) \in Seq(E)
            /\ Len(SubSeq(lines, 1, Len(executed)))
                 = IF 1 <= Len(executed) THEN Len(executed) - 1 + 1 ELSE 0
            /\ \A i \in 1..(Len(executed) - 1 + 1) :
                 SubSeq(lines, 1, Len(executed))[i] = lines[1 + i - 1]
        BY <2>2, <4>1, SubSeqProperties
      <4>3. /\ Len(SubSeq(lines, 1, Len(executed))) = Len(executed)
            /\ \A i \in 1..Len(executed) :
                 SubSeq(lines, 1, Len(executed))[i] = executed[i]
        BY <2>2, <3>4, <4>2
      <4> QED
        BY <2>1, <4>2, <4>3, SeqEqual
    <3> QED
      BY <2>5, <3>3, <3>5 DEF p, lines
  <2> QED
    BY <2>4, <2>5
<1>3. QED
  BY InitTypes, NextTypes, CutStep, <1>1, <1>2, PTL DEF Spec
================================================================================
