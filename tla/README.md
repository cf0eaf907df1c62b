# Verification of motionControlForPlotters

TLA+ models of the programs in this repository, checked with TLC on small
instances and, where the last column of the theorem table says so, proved with
TLAPS for every value of the constants. `PROJECT.json` lists the runs, the
mutants that show that each property can fail, the source lines every definition
stands for, the hazards and the findings.

    tlc -config MCStepper.cfg StepperMotorController     # one run
    tlapm StepperMotorControllerProofs.tla               # one module of proofs

## 1. The system

Three programs and a library.

| Part | Source | State | Operations |
|---|---|---|---|
| Serial input | `AvrUartSerial.cpp`, `pollCommandInput` of the firmware's `main.cpp` | ring of received bytes with head and tail, command buffer | receive interrupt, `isReadAvailable`, `readChar`, line editing |
| Supply detector | `AvrExternalPowerSupplyDetector.cpp`, `AvrSystemClock.cpp` | two saturating counters, instant of the last sample, debounced output, millisecond clock | timer interrupt, `update` |
| Stepper controller | `StepperMotorController.cpp` (core), `AvrStepDirectionDriver.cpp` | position, direction, profile start, last update, fraction of a step | `update`, `moveBlockingSteps`, `setDirection`, `emitStep` |
| Firmware loop | `arduinoStepMotorsXYController/src/main.cpp`, `AvrMotorDriverEnable.cpp` | console flag, motor driver flag, test flags, pending telemetry request, previous supply state | one loop: poll commands, sample the supply, set the enable line, update motors, print |
| TMC2209 library | `motionControlCore/.../drivers/tmc` | none but the datagram being built | register write, register read with a bounded poll; no program uses it |
| Rasterizer | `motionControlCore/.../raster/Rasterizer2D.cpp` | that of one call | `drawLine`, `drawPolygon`, `fillPolygon` |
| Conversions | `StepperMotor.cpp`, `StepperMotorProgram.cpp` | none | pure functions |
| Servo controller | `esp32ServoBLEController/main/main.cpp` | position, direction, test flag and PWM duty of the servo under a mutex; connection, subscription, boot message owed; command buffer | demo task once a second; BLE host task: connections, subscriptions, writes cut into commands, advertising |
| Interactive console | `interactiveConsole/src/main.cpp` and `io/` | devices, command queue, text queue and snapshot under one mutex; mode, focus, boxes | device thread: connect, write, scan, read, erase, publish; interface thread: take, keys, hardware report |
| Console elements | `interactiveConsole/src/model` | what each box believes of its device, the selected widget, the numbers being typed | `applyStatusLine`, `handleControlKey`, `setMotorDriverEnabled` |

**How they interact.** A host, mostly the console, sends lines over a serial port
or BLE. In the firmware the receive interrupt and the main loop share the ring;
the timer interrupt and the loop share the clock; within the loop everything is
cooperative, so what is hard there is *order*: a command acts on the supply
state of the previous loop, the enable line is written after the commands of the
same poll, and a blocking `steps` stops everything else for seconds. In the
console two threads exchange copies, so what each acts on may be out of date,
and devices vanish at any moment. Its boxes change as soon as a key is pressed,
while the answers that confirm or deny the change are still on their way, name no
element, and may be answers to an earlier question. In the servo firmware two
tasks on two cores share a mutex and BLE packets do not respect line boundaries.

**What makes each part correct.**

* Serial input: the ring is a queue that may only lose the newest bytes; the slot
  being read is never overwritten; the command is the line that was typed.
* Detector: exactly `stableSampleCount` contrary samples flip the output, and they
  take a minimum of real time, whatever the clock's wrap and the loop's delays (less
  of it than the documentation promises: finding 3).
* Controller: the position depends on elapsed time and not on when `update` runs;
  the motor is where the controller believes it is.
* Firmware: no power, no enable line; no enable line, no profile; the panic button
  works; a host that listens only to events knows the supply.
* Console: a command reaches the device it was meant for; boxes and focus never
  outlive their device; what is shown of the connection settles on whether a live
  device is connected, unless one went without the console noticing; both threads
  end.
* Elements: what is typed stays in the range the firmware accepts; the selected
  widget is on the screen; once nothing is under way the box shows its device, if no line that
  changes it was typed past it; the supply's box does in the end in any case.
* Servo: the position a client was told holds until the next command; duty and
  position agree whenever the mutex is free; whole commands are executed whole; the
  boot message opens every connection; the device can be found again.
* Rasterizer: lines stay within half a unit of the ideal one and end where they
  should; a fill holds each inner point once, whatever the shape and however the
  slopes round.

## 2. Modules

| Module | Models | Composes |
|---|---|---|
| `LossyFifo` | abstract: a bounded queue that drops arrivals when full | |
| `AvrUartSerial` | ring buffer, interrupt against the two steps of `readChar` | refines `LossyFifo` |
| `CommandInput` | host, ring and line editor | extends `AvrUartSerial` |
| `DebouncedInput` | abstract: the last n samples decide | |
| `AvrExternalPowerSupplyDetector` | clock, loop and two-counter filter | refines `DebouncedInput` |
| `StepperMotorController` | `update`, `moveBlockingSteps` and the DIR pin | |
| `Firmware` | the main loop and every command, over an abstract supply filter and abstract motors | instantiates `DebouncedInput` |
| `DeviceControl` | both threads of the console and the ports | |
| `ServoBle` | both tasks of the servo firmware, the mutex, the BLE stack and its clients | |
| `Elements` | the boxes of the console as functions: a status line, a key | |
| `ElementMirror` | the boxes against the devices they show, over queues that delay and lose | extends `Elements` |
| `Rasterizer2D` | one call of the rasterizer, loop turn by loop turn | |
| `*Proofs` | theorems about the module of the same name; those about the ring are in `CommandInputProofs` | |
| `MC*` | constants of runs that need definitions | |

**Reading them against the code.** Variables carry the code's names without the
`m_`/`g_` prefix; an action is a function, or a part of one delimited by the
points where something else can happen. For the ring these points are the
accesses to `volatile` indices, hence `LoadSlot` and `AdvanceTail` for
`readChar`, and the interrupt is one action, since it cannot be interrupted. For
the main loop they are the phases of `mainLoopBody`. For the console they are the
critical sections, for the servo firmware the points at which the mutex is taken,
given back, and the memory it protects is touched. Comments marked *ghost*
introduce history variables (the text of the line so far, the samples, where the
shaft went, what the host has heard); no action's guard reads them, except for the
bounds. Operators marked *Mutant* are deliberate bugs; nothing in the
specifications uses them.

* `AvrUartSerial`: `OnReceiveComplete` drops the byte when the slot after head is
  tail. `buffer` keeps the old contents of free slots, as memory does.
* `CommandInput.Edit` is the byte switch of `pollCommandInput`: printable
  characters are appended while the terminator still fits, erasure removes one,
  an over-long line is reported and dropped in the middle.
* The detector keeps unbounded instants and takes differences modulo the clock,
  which is what subtracting truncated instants yields; a loop pass is
  `ReadClock`, any number of milliseconds, then `Update` with the old reading.
* `StepperMotorController.update` is split into `BeginUpdate` (the early returns,
  the elapsed time), `BeginSegment` / `EmitStep` / `EndSegment` for each cycle that
  the call touches, and `FinishUpdate`. Milli-steps times milliseconds count
  millionths of a step (`StepUnit`).
* `Firmware` takes the filter from `DebouncedInput` (the detector module shows
  that the counters implement it) and a motor as one bit: in the middle of a
  profile or not (the controller module says what a profile does). `Targets` is
  what the id in a command selects. `requested` is the one slot for a telemetry
  request.
* `DeviceControl`: `Take`, `Poll`, the keys and `Finish` are one turn of the
  interface loop; the states of `at` are the sections of the device thread. Text is
  reduced to the connection it came from, a command to its address. A timeout is a
  step that may happen at any time. A scan that is not due is one that connects
  nothing (`scanSerial`, then `scanBle`, as in the code). `Connect` is what the two
  ways of connecting have in common, `ConnectToDevice` and `ConnectToBleDevice` what
  each needs. The wait of at most 30 ms at the end of a turn is no step of its own.
* `ServoBle`: `demo` and `host` are the program counters of the two tasks. A
  character stands for a piece of text that the code treats alike: `servo 0 ` is one
  character, a digit is one, a command without parameters is one. Numbers
  are computed modulo `IdModulus`, as `parseUnsignedId` does in sixteen bits.
  `events` are callbacks that the BLE stack has yet to make; they are handled one
  after the other, since one task makes them all. `air` is the radio, which the
  stack changes before it tells.
* `Elements`: a number being typed is its value, 0 standing for the empty text.
  What a text of limited length can still take is a limit on the value
  (`SpeedRoom`, `PositionRoom`): a digit more fits exactly below it.
* `ElementMirror`: a key changes the box and appends its command and the request
  for the status to the queue of its connection. `TypedLine` is Enter in the console:
  the line goes to every device that is connected, changes no box and is followed by
  no request. `psuTyped` and `servoTyped` are ghosts: such a line changes what the box
  shows, and the console has not asked since. `TakeAvrEvent` and `TakeEspEvent`
  apply what has arrived to *every* box, as `routeIncomingStatusLine` does, and then
  tell the motors' boxes whether their drivers are on. Of the firmwares it has the
  few commands that matter to a box, and one (`Other`) for all that print a text.
  `LoseCommand` is the full ring of `AvrUartSerial`;
  BLE writes are acknowledged and are not lost.
* `Rasterizer2D`: one behaviour is one call; `PlotPoint` is a turn of `drawLine`'s
  loop with its point; a row of `fillPolygon` is `BeginRow`, which takes its edges and
  sorts them, a `NextSpan` for each pair of them, and `LeaveRow`, which advances
  them. `Sorted` says what the insertion sort of `sortFillEdges` gives: each edge at
  the place that the number of edges before it has. The doubles `xAtCurrentY` and
  `inverseSlope` are whole numbers of *units* of `1 / Unit`; `Rounded` takes the nearest
  multiple of a *quantum*, the distance of neighbouring doubles of that magnitude, ties
  going to the even one. The division in `FillEdges` is rounded, and so is every
  addition in `Advanced`; `Ceiling` is of the sum that came out.

## 3. What the runs show

| Run | Instance | Shows |
|---|---|---|
| `command_input` | ring of 4 slots (3 bytes), buffer of one character, five classes of bytes, lines up to 3 | the ring refines `LossyFifo`, no slot is overwritten while it is read, accepted bytes are read, the command is the edited line, or of a too long line the edition of a suffix |
| `detector` | interval 2, 3 samples, clock modulo 5, 14 ms | the filter refines `DebouncedInput`; a flip takes n - 2 whole intervals |
| `detector_promised_time` | the same | **finding**: a flip does not take the n intervals that are promised |
| `stepper` | trapezoid 2/1/3 ms of 7 units, step of 4 units, clock modulo 14, moves of 1 and 2 steps | position by elapsed time, no drift, no wrap below zero, speed against distance, every call returns |
| `stepper_inverted` | the same, `DIRECTION_INVERTED` | **finding**: the first backward move goes forward |
| `firmware` | two motors (one with invalid pins), 3 samples, 4 commands | the enable line and the profiles follow supply and panic button, events inform the host |
| `firmware_steps_undriven` | the same | **finding**: `motordriver enable` and `steps` in one poll move a motor without power |
| `device_control` | a serial and a BLE port, one appearance or disappearance, two commands on their way, a box per device | addressing, focus, no port opened twice, `connected` settles on whether a live device is connected (or on TRUE, if a terminal died unnoticed), the console ends |
| `servo_ble` | range 0..5 in strides of 2, numbers modulo 16, three characters and the terminator, two links, two writes of four kinds | what a client was told holds, duty is of the position, boot message first, found again, whole commands executed, both tasks go on, both ends reached |
| `element_mirror` | either device, one motor, digits 0 and 5, two of: a key that changes something, a line typed in the console, a new report, a change of supply, a loss | typed numbers stay in range, the selected widget exists, boxes and devices agree at rest unless a changing line was typed since the console last asked, polling repairs the supply's box after losses and typed lines |
| `element_mirror_two_motors` | two motors | **finding**: an answer about one motor changes the box of the other |
| `rasterizer` | lines from the origin to every point within 8, outlines, all triangles on 3x5 and 5x5 grids all quadrilaterals with a fixed fourth corner on a 4x4 grid, tall triangles with an edge from 0 to -6 over nine rows; doubles with 17 bits | lines stay nearest and end, fills are even-odd in spite of rounding, calls return |

With two workers the longest runs take about three minutes (`device_control`) and two
(`element_mirror`).

**Why these bounds are enough.** Every counter has the values where the code
compares it, plus one on each side. The ring wraps several times and is full and
empty at each position of its indices; a buffer of one character makes both "fits"
and "too long" happen within a line of three. The detector's clock wraps twice and
three samples give the window room for a flicker at each place. The trapezoid
has three different phase lengths, a speed that no phase divides and a step that
no cycle's distance divides, so that roundings and left-over fractions differ in
each phase; a delay may be up to the clock's modulus, more than two cycles,
so that one call catches up with several. `MaxPosition` only limits where profiles
and moves begin. Four firmware commands are enough to enable, move, request
and press the button within one loop. Two connections and one change exercise the
use of ids, for a device may also be missed at the start and found later; that
no id is ever given to a second device is proved for any number of changes. With one
change a device that is lost and returns is outside the run.
`MaxQueued` delays the interface when the queue is full; the code's queue is
unbounded.

The servo's range of 0..5 in strides of 2 has the remainder that 0..255 has in
strides of 32: the last stride up is one short, and the last stride down meets 0.
`servo 19` is a number that only modulo 16 is in range. The four writes are two
commands in one write, a bare command, a command with noise that is no text, and
one that is too long; two of them and two links make a second client find what the
first one left. In `ElementMirror` the two digits reach zero and the upper limit
of each number; two events are a key or a typed line and what can go wrong with it, or
two of them that cross. A run has one device; the proofs have any set. The polygons
include points, segments, concave quadrilaterals and crossing edges; every slope is one
of a small grid. Doubles have 17 bits in the place of 53, 36 fewer: the binary digits of
thirds, fifths, sevenths and ninths repeat after divisors of 12, so they are cut off at
the same place of their period and round the same way. The edge from 0 to -6 over nine
rows is in the run: after six rows a double is at -3.9999999999999996, so is the model,
and its ceiling is -3.

Not every constant is as general as its name. `MaxTime` limits a behaviour of the
detector, `MaxCommands` the commands of a behaviour: with an endless stream of
input `pollCommandInput` never returns, and no property about the rest of the loop
can hold. A profile is taken to run for less than the clock's modulus, 49.7 days;
there `profileElapsed` wraps and the cycle jumps, which no property here covers.

**Fairness.** The main program of the firmware runs for ever: weak fairness of its
steps (`ReadStep`, `HandleReceived`, `LoopStep`, `Proceed`). Nothing makes the host
send, a key be pressed or the supply change. `SF(SampleSupply)`: the loop comes by
again and again, and the timer interrupt advances the clock whatever the loop does,
so a sample falls due again and again. In the console both threads run
(`WF(DeviceStep)`, `WF(UiStep)`); `Quit` and the ports have no fairness. In the servo
firmware both tasks run (`WF(DemoStep)`, `WF(HostStep)`), and `SF(DemoTake)`,
`SF(HostTake)`: FreeRTOS wakes the task that waits for a mutex when it is given back,
and the other one first sleeps for a second or sends an answer, so that the waiting one
is not passed over for ever; clients and the radio have no fairness. In
`ElementMirror` the console takes what has arrived and polls the supply every ten
seconds, and the firmware reads and answers (`TakeAvrEvent`, `PollPsu`,
`HandleCommand`, `Answer`); keys, losses, reports and the servo have none. A call of
the rasterizer goes on (`WF(Draw)`).

**Deadlock** is checked in every run but the two of `ElementMirror`: with a servo
only, nothing happens until somebody presses a key. `Terminated` of `DeviceControl`,
`Returned` of `Rasterizer2D` and `Waiting` of `ServoBle` are the states in which the
program has ended or has nothing to do.

## 4. Findings

1. `STEPPER_MOTOR_Y_DIRECTION_INVERTED` and a first backward move: driver and
   controller start with different ideas of the direction
   (`AvrStepDirectionDriver.cpp:59`, `StepperMotorController.cpp:156-164`).
2. `motordriver <id> enable` with `steps` in the same poll: pulses without power,
   and a position that counts them (`main.cpp:443`, `main.cpp:769`).
3. The supply is said to be debounced for 100 ms (`README.md:241-243` of the firmware,
   its boot line in `main.cpp:594-596`). Ten samples are nine intervals apart, and the
   first reading may be almost an interval late, because the clock is read before the
   commands are handled and the input after them (`main.cpp:743`): contrary readings
   over little more than 80 ms flip the output
   (`AvrExternalPowerSupplyDetector.cpp:54-57`, `68-71`). What is left of the promise is
   `FlipNeedsStableTime`.
4. With two motors the boxes overwrite each other: a `MOTOR` line names no motor and
   is applied to every box (`interactiveConsole/src/main.cpp:751-753`).

Observed while modelling, without a run of its own:

* The console never refuses to start: `publishConnectionSnapshot` publishes
  `expected_found` as true whatever was found (`interactiveConsole/src/main.cpp:440-442`),
  the only other caller of `publishStartupResult` needs a shutdown request that nobody
  can make before the start, and so the error message (`main.cpp:813-816`) cannot be
  printed. `doc/README.md:45-47` says the console "starts only when it finds the expected
  device and role. If no expected firmware is found, it exits with an English error
  message." `DeviceControl` starts its screen without a device, too.
* A line typed in the console is sent to every device and followed by no request
  (`interactiveConsole/src/main.cpp:1083-1095`). After `motordriver 2 disable` the supply's
  box is wrong until the next poll; after `test off` or `servo 0 n` nothing asks for
  the servo's status, and its box stays wrong until the next key that sends a command, or
  hardware report. `PsuBoxAgreesAtRest` and `ServoBoxAgreesAtRest` except exactly this
  (`psuTyped`, `servoTyped`).
* `PowerSupplyUnitElement.h:6-8` says of the flag that "it is always forced off when the
  PSU is not present". Neither side does that: the firmware's flag is independent of the
  supply, as its own README says (254-267), and only the enable line is the conjunction
  (`main.cpp:764-769`); the box shows the flag. `PsuBoxAgreesAtRest` compares each with
  its own.
* A terminal whose device is gone reads as end of file, which `readAvailable` takes for
  silence (`SerialPort.cpp:117`): the connection stays listed and `connected` true.
  `ConnectedSettles` has it as its exception (`Unnoticed`).
* The firmware has one slot for a telemetry request; of several `. <id>` in one poll
  only the last is answered (`main.cpp:310-315`), although the console asks for
  every element at once. `PsuBoxAgreesAtRest` excepts requests lost in this way
  (`unasked`), and `PsuBoxSettles` shows that polling makes up for it, for the supply;
  nothing asks for a motor's status again.
* A command that a BLE client left unfinished is prefixed to the next client's
  first command: `commandBuffer` survives a disconnect. `CompleteWritesAreExecuted`
  is stated of writes that find the buffer empty.
* `startAdvertising` logs a failure and nothing tries again
  (`UnreachableOnlyAfterFailure` has the exception).
* An allocation failure in `fillPolygon` draws nothing and tells nobody
  (`AllocationFails`).
* The library for the TMC2209 neither flushes nor resynchronises its input after a
  timed-out reply; no program uses it.

## 5. What is proved

| Theorem | For every | Property |
|---|---|---|
| `CommandInputProofs!RingTypeCorrect`, `SlotBeingReadIsNeverOverwritten`, `RingImplementsLossyFifo` | capacity of at least two | `RingTypeOK`, `SlotBeingReadIsStable`, `ImplementsLossyFifo` |
| `CommandInputProofs!InputDrivesTheRing`, `PolledSlotIsNeverOverwritten`, `InputImplementsLossyFifo`, `CommandAlwaysFits`, `CommandIsEdited`, `InputTypeCorrect` | the same, any buffer size and length of line | the properties of the ring, of the whole input; `CommandFits`; `CommandIsTheEditedLine`; `TypeOK` |
| `AvrExternalPowerSupplyDetectorProofs!TypeCorrect`, `StableInputReported`, `DetectorImplementsDebouncedInput`, `FlipTakesStableTime` | interval, count, modulus | `TypeOK`, `StableInputIsReported`, `ImplementsDebouncedInput`, `FlipNeedsStableTime` |
| `StepperMotorControllerProofs!TypeCorrect`, `ShaftAtPosition`, `PositionOnlyDependsOnTime`, `SpeedIsSlope` | trapezoid, step, modulus (`ShaftAtPosition` without inversion) | `TypeOK`, `ShaftIsAtPosition`, `PositionFollowsProfile`, `SpeedIsTheSlope` |
| `FirmwareProofs!TypeCorrect`, `EventsTellTheSupply`, `SupplyGatesEnableLine`, `ProfilesNeedEnableLine` | set of motors, count, bounds | `TypeOK`, `HostKnowsSupply`, `SupplyGatesDrivers`, `ProfileNeedsDrivers` |
| `DeviceControlProofs!TypeCorrect`, `FocusAlwaysInRange`, `CommandsAlwaysReachTheirDevice` | set of ports, number of changes, length of queue, size of reports | `TypeOK`, `FocusInRange`, `CommandsReachTheirDevice` |
| `ServoBleProofs!TypeCorrect`, `ToldPositionStays`, `DutyFollowsPosition`, `BootMessageFirst`, `FoundAgain`, `WritesAreExecuted` | range, stride, buffer, modulus, set of writes, bounds | `TypeOK`, `ToldPositionHolds`, `DutyIsOfPosition`, `BootMessageOpensConnection`, `UnreachableOnlyAfterFailure`, `CompleteWritesAreExecuted` |
| `ElementMirrorProofs!TypeCorrect`, `SelectionIsShown`, `PsuBoxAgrees`, `ServoBoxAgrees` | devices connected, motors, digits, limits, bounds | `TypeOK`, `SelectedWidgetExists`, `PsuBoxAgreesAtRest`, `ServoBoxAgreesAtRest` |
| `Rasterizer2DProofs!LinesAreNearest`, `FillsAreEvenOdd` | set of calls with integer coordinates; unit, quanta and length of significands under `DoublesAssumption` | `LineIsNearest`, `FillIsEvenOdd` |

The assumptions are the named `ASSUME`s of the modules: sizes are natural numbers,
a cycle fits the clock, a line end is neither an erasure nor printable. TLC
evaluates them in every run.

**Arguments.**

* *Ring.* The abstract queue is the slots from tail to head. The invariant says
  that the slot loaded by `readChar` is the one at tail and still holds what was
  loaded; the interrupt writes at head, which is another slot whenever it writes.
  The lemmas about remainders (`FollowingIsNext`, `SlotIsRemainder`) carry the wrap.
* *Input.* Every step of host, interrupt and line editor is a step of the ring's
  specification or leaves the ring alone (`InputStepIsRingStep`), so its theorems
  hold of the composition. `CommandFits` is inductive by a case per kind of byte.
* *Line editor.* `CommandIsTheEditedLine` compares the command with a fold over
  the line. `Edited` is unfolded one byte at a time by its edition history: the
  function from the number of bytes to what is kept after them
  (`Edits`), which exists for every text and is unique. The type invariant needs the
  *stream*, what has been read of the line followed by what is still in the ring:
  its segments between line ends are no longer than the host's bound (`SegmentsFit`),
  whatever the ring drops, because losing a byte only shortens a segment that is
  still open.
* *Detector.* `StableInputIsReported` is not inductive: it says nothing about
  the counters. `CounterInv` says that the counter in use is the length of the
  window's run of contrary samples and that the other one is zero.
  `FlipTakesStableTime` needs `TimeInv`: the run's first reading lies before the second
  stamp and each further stamp adds an interval, which survives the modulus because a
  truncated difference never exceeds the true one (`DueMeansIntervalPassed`).
* *Controller.* `PositionFollowsProfile` speaks of the moments between calls;
  inside a call the fraction of a step and the time still to be made up count too.
  `AccumulatorInv` ties position and accumulator to the integral up to the segment
  that is being processed. Its steps rest on the monotone integral
  (`IntegralGrows`), on unique quotients and on `ClockInv`, which bounds
  what is unprocessed by what has elapsed. `ShaftAtPosition` needs `PinInv`: the
  DIR pin shows the direction that the controller believes. `SpeedIsTheSlope` reduces
  to one millisecond of one ramp (`RampSlope`): both sides are quotients with their
  remainders, and what remains of the difference is less than four divisors. At the
  seams of the phases two formulas give the same speed (`SpeedByPhase`), also when
  a phase lasts no time. A profile without deceleration stops at once; that last
  millisecond has no slope and is excepted (`HasSlope`).
* *Firmware.* `DetectorInv` says that an all-absent window means unavailable,
  `DriverInv` which of pin and profile may be on in which phase of the
  loop, `ReportInv` that the last reported state is the previous one.
* *Console.* `CommandsReachTheirDevice` speaks of the commands being written;
  `AddressInv` says of everything that is remembered of a device - texts, reports,
  boxes, queue, batch - that its id was given out, and to no other device (`Known`).
  It survives because ids only grow and a new connection takes one that nothing
  remembered can have (`KnownStays`). `FocusInRange` is inductive with `TypeOK`: each
  step that drops a box clamps the focus.
* *Servo.* `LockInv` places each task between take and give exactly while it holds
  the mutex. Under it `DutyInv` allows output and position to differ only between
  update and write, and `ToldInv` says that what a client was told, or is about to be
  told, is the position while the test is off, and that the demo does not advance
  then: the flag is read and the position moved under one hold of the mutex.
  `SessionInv`: a connection has been greeted or is owed the greeting, and is not
  subscribed before. `RadioInv`: while the radio is off without a failure, an event
  that restarts it is on its way.
* *Writes.* `CutInv` says how far a write of whole commands has been cut: what is
  left of it, the buffer as the line under way, and the commands taken, the one about
  to be executed included, as the lines before it. The buffer never overflows on the
  way because the line has an end further on (`NextLineEnd`) and is short
  enough as a whole (`LineFits`). The n-th line of the reference is found by counting
  line ends (`LaterLineEnd`, `LineAt`).
* *Boxes.* At rest nothing is on its way, so `PsuBoxAgreesAtRest` says nothing about
  the states before. `PsuInv`: each command that changes the flag is followed in the
  queue by a request for the status (`Followed`), unless it was typed, which
  `psuTyped` remembers; and unless an answer is still to be given (`PsuAnswerDue`),
  the box *after all lines on their way* will show the truth. Taking some of the
  lines leaves that box as it is, an answer makes it true, an event about the supply
  keeps it true, and a lost or forgotten request is what `unasked` remembers. The
  folds over lines are handled by one law, that lines may be applied in two parts
  (`PsuAfterLines`). `ServoInv` is the same for the servo, with `servoTyped`; its
  own movements matter only while the test is on. `SelectedWidgetExists` is
  inductive by a case per key and line, with a lemma for each function of
  `Elements`.
* *Lines.* `LineIsNearest` says nothing about `err`. `OnWay` says how far the line
  has got along both axes and that `err` is the deviation plus a constant of the line;
  a turn keeps the doubled deviation within the longer side
  (`FlatLineAdvances`, `SteepLineAdvances`), and with it the point cannot pass the end
  on one axis before it has reached it on the other.
* *Fills.* `FillIsEvenOdd` speaks of the end; `FillInv` says what is filled at each
  place in the loop. The x of an edge, row by row, is its *way* (`WayExists`). Each row
  adds a quantum to its error at most (`RowAddsQuantum`), and `DoublesAssumption` keeps
  the sum below the distance of the edge from any point beside it (`WayIsClose`): so the
  rounded edge has each point on the same side as the exact one, except the points that
  lie on an edge whose slope is no double (`SameSide`, `InDoubt`). Between rows the
  active edges are those that crossed the row above (`AdvancedCrossedAbove`); what joins
  and leaves makes them those that cross the row (`CrossedAreEdgesAt`). They are even
  in number, because each goes from above the row to below it or back and the vertices
  go round (`ChangesAreEven`); they are in order of their rounded x (`LessIsOrder`,
  `SortedIsInOrder`, `LessGoesRight`), so the exchange in the code never happens. Those
  at or left of a point are therefore the first so many (`FirstOnesAreLeft`). The
  span of the edges at `left` and `left + 1` holds the points with exactly `left` edges
  (`SpanBetweenEdges`), and `FilledLeft` counts the spans given out so far. As
  neighbouring spans round their common edge alike, no point is ever in two of them,
  points in doubt included.

Induction is used throughout in the one form that the provers can instantiate: a
non-empty set of natural numbers has a least element (`WFMin` with
`NatLessThanWellFounded`), applied to the set of counterexamples (`UpToInduction`).

**Only model-checked.** Liveness is out of the provers' reach: `AcceptedByteIsRead`,
`CallReturns`, `DriversStop`, `SupplyStartsDrivers`, `ConnectedSettles`,
`ConsoleExits`, `HostTaskReturns`, `SweepReachesBothEnds`, `PsuBoxSettles`,
`CallEnds`. Everything else that the passing runs check, invariants, action
properties and implementations of abstract specifications, is proved.

## 6. Not modelled

* Texts, formats and layout: help, device and hardware listings, widgets, colours,
  the split of lines into fields and of a hardware report into elements.
* Conversions of programs and numbers: straight-line arithmetic without state. Their
  results are constants of the models.
* Points in doubt. A point exactly on an edge whose slope is no double may be drawn or
  left out, depending on how the sums round: `FillIsEvenOdd` says nothing of it but that
  no two spans hold it. `DoublesAssumption` asks that the square of a polygon's height
  times the distance of doubles of its magnitude is below one: with 53 bits that is so
  for coordinates up to 2^16 either way, far beyond a plotter's raster; infinities and
  subnormal doubles cannot occur there.
* Typed lines as text. `TypedLines` are the commands that one of the firmwares knows
  and that matter to a box; every other line, `help`, `hardware`, `steps` or one that is
  malformed, is answered with text (`Other`), one line standing for all of its reply.
  Whether a typed `console enable` has turned the telemetry on is not kept:
  `PrintTelemetry` may happen at any time.
* Overflow of `int32_t` in parsed numbers and in the rasterizer's errors, far from
  what the console sends.
* Pulse widths and transmission: they take time and leave no state.
* The analogue supply measurement, which the build with the opto-isolator omits.
* The TMC2209 library: no program of the repository calls it, so there are no
  callers whose behaviour a model could have.
* The platform's BLE library of the console, which sees a port that may vanish at any
  time, and the opening and configuration of serial ports.
* Where a write on a serial port stops half way (`SerialPort.cpp:148`); the device
  then gets a truncated command.
* The status LED of the servo controller, which shares nothing.
* Scripts and build files.

## 7. Plan

Done, in this order: input, detector and controller with their abstractions and
proofs; `Firmware`; `DeviceControl`; `ServoBle`; `Elements` and `ElementMirror`;
`Rasterizer2D`; the proofs about `DeviceControl`, `ServoBle`, `Rasterizer2D`, the
composed input and `ElementMirror`. What would add most from here:

1. `Firmware` with the counters of `AvrExternalPowerSupplyDetector` in the place of
   the window, and the proof that it implements the present one.
2. `ElementMirror` with the ring of `AvrUartSerial` in the place of `LoseCommand`, so
   that how many commands may be lost follows from its size.
3. A profile that outlives the clock's wrap, and numbers that overflow on parsing.
4. A serial write that stops half way: what the device makes of half a command.
