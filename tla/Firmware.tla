------------------------------- MODULE Firmware -------------------------------
(****************************************************************************)
(* The main loop of the Arduino firmware (main.cpp): poll the serial input  *)
(* and execute the commands it holds, sample the power supply, drive the    *)
(* enable line that all motor drivers share, update every motor, print      *)
(* telemetry.                                                               *)
(*                                                                          *)
(* One poll executes however many commands have arrived (a command line is  *)
(* a few bytes and the ring of AvrUartSerial holds 63), so the commands are *)
(* actions here and not an inbox; how bytes become commands is module       *)
(* CommandInput.  The detector is the debounced input that                  *)
(* AvrExternalPowerSupplyDetector implements, and a motor's profile is in   *)
(* progress or not; which pulses that gives is StepperMotorController.      *)
(****************************************************************************)
EXTENDS Naturals

CONSTANTS Motors,            \* element ids 0 .. STEPPER_MOTOR_COUNT - 1
          Supply, Everything, \* the power supply's id; a "." without an id
          Ready,             \* motors whose pins are valid
          None,              \* no motor, no request
          StableSampleCount, \* of the detector
          MaxCommands,       \* bound: commands the host ever sends
          MaxSteps           \* bound: pulses of one `steps'

ASSUME FirmwareAssumption ==
  /\ Ready \subseteq Motors
  /\ None \notin Motors \cup {Supply, Everything}
  /\ StableSampleCount \in Nat \ {0}
  /\ MaxCommands \in Nat
  /\ MaxSteps \in Nat \ {0}

VARIABLES phase,      \* where the main loop is; "moving" is inside `steps'
          handled,    \* commands executed so far, for the bound
          flag,       \* motorDriverEnabledRequested
          test,       \* stepperMotorTestEnabled
          console,    \* consoleEnabled
          requested,  \* singleTelemetryId, or None if none is requested
          mover, remaining,  \* the motor of `steps' and its pulses to go
          present,    \* the level of the opto-isolated input
          window, available, \* the detector
          previous,   \* previousExternalPowerSupplyAvailable
          pin,        \* the enable line: TRUE powers the drivers
          running,    \* m_profileInitialized of each motor
          hostSupply  \* ghost: the supply as EVENT lines have told it

settings == <<flag, test, console>>
detector == <<window, available>>
move == <<mover, remaining>>
vars == <<phase, handled, settings, requested, move, present, detector,
          previous, pin, running, hostSupply>>

Detector == INSTANCE DebouncedInput WITH output <- available

Targets == Motors \cup {Supply, Everything}

Init ==
  /\ phase = "top"
  /\ handled = 0
  /\ flag = TRUE
  /\ test = [m \in Motors |-> TRUE]
  /\ console = FALSE
  /\ requested = None
  /\ mover = None /\ remaining = 0
  /\ present \in BOOLEAN
  /\ Detector!Init
  /\ previous = FALSE
  /\ pin = FALSE
  /\ running = [m \in Motors |-> FALSE]
  /\ hostSupply = FALSE

MotorsActuallyEnabled == flag /\ available

------------------------------------------------------------------------------
(* Commands.                                                                *)

Handling ==
  /\ phase = "poll"
  /\ handled < MaxCommands
  /\ handled' = handled + 1
  /\ UNCHANGED <<present, detector, previous, pin, running, hostSupply>>

\* help, device, hardware, get, an empty line and whatever is malformed only
\* print.
OtherCommand ==
  /\ Handling
  /\ UNCHANGED <<phase, settings, requested, move>>

ConsoleCommand(on) ==
  /\ Handling
  /\ console' = on
  /\ UNCHANGED <<phase, flag, test, requested, move>>

\* "." and ". <id>": there is one request, and a later one replaces it.
TelemetryCommand(target) ==
  /\ Handling
  /\ requested' = target
  /\ UNCHANGED <<phase, settings, move>>

\* Enabling a test is refused while the drivers are off.
TestCommand(m, on) ==
  /\ Handling
  /\ test' = IF on /\ ~ MotorsActuallyEnabled THEN test
                                             ELSE [test EXCEPT ![m] = on]
  /\ UNCHANGED <<phase, flag, console, requested, move>>

MotorDriverCommand(on) ==
  /\ Handling
  /\ flag' = on
  /\ UNCHANGED <<phase, test, console, requested, move>>

StepsCommand(m, n) ==
  /\ Handling
  /\ IF ~ test[m] /\ m \in Ready /\ MotorsActuallyEnabled
       THEN phase' = "moving" /\ mover' = m /\ remaining' = n
       ELSE UNCHANGED <<phase, move>>
  /\ UNCHANGED <<settings, requested>>

\* Mutant: one pulse too many.
MoveStepPastEnd ==
  /\ phase = "moving"
  /\ IF remaining = 0
       THEN phase' = "poll" /\ mover' = None /\ UNCHANGED remaining
       ELSE UNCHANGED <<phase, mover>> /\ remaining' = remaining - 1
  /\ UNCHANGED <<handled, settings, requested, present, detector, previous,
                 pin, running, hostSupply>>

\* One pulse of moveBlockingSteps.
MoveStep ==
  /\ phase = "moving"
  /\ remaining' = remaining - 1
  /\ IF remaining = 1 THEN phase' = "poll" /\ mover' = None
                      ELSE UNCHANGED <<phase, mover>>
  /\ UNCHANGED <<handled, settings, requested, present, detector, previous,
                 pin, running, hostSupply>>

Command ==
  \/ OtherCommand
  \/ \E on \in BOOLEAN : ConsoleCommand(on) \/ MotorDriverCommand(on)
  \/ \E target \in Targets : TelemetryCommand(target)
  \/ \E m \in Motors : \/ \E on \in BOOLEAN : TestCommand(m, on)
                       \/ \E n \in 1 .. MaxSteps : StepsCommand(m, n)

------------------------------------------------------------------------------
(* mainLoopBody.                                                            *)

BeginLoop ==
  /\ phase = "top"
  /\ phase' = "poll"
  /\ UNCHANGED <<handled, settings, requested, move, present, detector,
                 previous, pin, running, hostSupply>>

\* The ring is empty.
EndPoll ==
  /\ phase = "poll"
  /\ phase' = "supply"
  /\ UNCHANGED <<handled, settings, requested, move, present, detector,
                 previous, pin, running, hostSupply>>

\* Mutant: the event depends on the console setting, as telemetry does.
ReportSupplyToConsole ==
  /\ hostSupply' = IF available' # previous /\ console THEN available'
                                                       ELSE hostSupply
  /\ previous' = available'

\* A change since the last time is reported, and always remembered.
ReportSupply ==
  /\ hostSupply' = IF available' # previous THEN available' ELSE hostSupply
  /\ previous' = available'

SampleSupply ==
  /\ phase = "supply"
  /\ Detector!Sample(present)
  /\ ReportSupply
  /\ phase' = "drive"
  /\ UNCHANGED <<handled, settings, requested, move, present, pin, running>>

\* Less than a sample interval has passed; nothing is reported.
SupplyNotDue ==
  /\ phase = "supply"
  /\ phase' = "drive"
  /\ previous' = available
  /\ UNCHANGED <<handled, settings, requested, move, present, detector, pin,
                 running, hostSupply>>

\* Mutants: the enable line ignores the panic button; stays on once it is on
\* until the button is pressed; is written only when the supply has just changed.
EnableByButtonOnly == flag
EnableLatched == flag /\ (pin \/ available)
EnableOnChange == IF available # previous THEN flag /\ available ELSE pin

DriverEnable == MotorsActuallyEnabled

SetDriverEnable ==
  /\ phase = "drive"
  /\ pin' = DriverEnable
  /\ phase' = "motors"
  /\ UNCHANGED <<handled, settings, requested, move, present, detector,
                 previous, running, hostSupply>>

\* Mutant: a test goes on without its drivers.
UpdateMotorsUndriven ==
  /\ phase = "motors"
  /\ running' = [m \in Motors |-> test[m] /\ m \in Ready]
  /\ phase' = "telemetry"
  /\ UNCHANGED <<handled, settings, requested, move, present, detector,
                 previous, pin, hostSupply>>

\* Every controller is updated; one that is not enabled drops its profile.
UpdateMotors ==
  /\ phase = "motors"
  /\ running' = [m \in Motors |->
                   test[m] /\ MotorsActuallyEnabled /\ m \in Ready]
  /\ phase' = "telemetry"
  /\ UNCHANGED <<handled, settings, requested, move, present, detector,
                 previous, pin, hostSupply>>

\* The request is answered; without one the periodic line may be printed,
\* which changes nothing here.
Telemetry ==
  /\ phase = "telemetry"
  /\ requested' = None
  /\ phase' = "top"
  /\ UNCHANGED <<handled, settings, move, present, detector, previous, pin,
                 running, hostSupply>>

SupplyChanges ==
  /\ present' = ~ present
  /\ UNCHANGED <<phase, handled, settings, requested, move, detector,
                 previous, pin, running, hostSupply>>

LoopStep ==
  \/ BeginLoop
  \/ MoveStep
  \/ EndPoll
  \/ SampleSupply
  \/ SupplyNotDue
  \/ SetDriverEnable
  \/ UpdateMotors
  \/ Telemetry

Next == LoopStep \/ Command \/ SupplyChanges

\* The loop never stops (main, line 859).  The timer interrupt advances the
\* clock whatever the loop does, so a loop that goes round for ever finds a
\* sample due again and again.
Spec == Init /\ [][Next]_vars /\ WF_vars(LoopStep) /\ SF_vars(SampleSupply)

------------------------------------------------------------------------------
(* Properties.                                                              *)

\* The main loop's state has its types in every phase; a blocking move never
\* counts below zero.
TypeOK ==
  /\ phase \in {"top", "poll", "moving", "supply", "drive", "motors",
                "telemetry"}
  /\ handled \in 0 .. MaxCommands
  /\ flag \in BOOLEAN /\ console \in BOOLEAN
  /\ test \in [Motors -> BOOLEAN]
  /\ requested \in Targets \cup {None}
  /\ mover \in Motors \cup {None}
  /\ remaining \in 0 .. MaxSteps
  /\ remaining > 0 <=> phase = "moving"
  /\ mover # None <=> phase = "moving"
  /\ present \in BOOLEAN
  /\ window \in [1 .. StableSampleCount -> BOOLEAN]
  /\ available \in BOOLEAN /\ previous \in BOOLEAN
  /\ pin \in BOOLEAN
  /\ running \in [Motors -> BOOLEAN]
  /\ hostSupply \in BOOLEAN

\* A host that listens to nothing but EVENT lines always knows what the
\* firmware takes the supply for, whether or not it asked for the console
\* (updateExternalPowerSupplyStatus, lines 649-666).
HostKnowsSupply == hostSupply = available

\* From the moment StableSampleCount samples in a row have found no supply,
\* the drivers are off as soon as the enable line has been set, and they stay
\* off until a sample finds it ("no PSU always means DISABLED, regardless of
\* the flag", lines 764-766).
SupplyGatesDrivers ==
  phase # "drive" => (pin => ~ Detector!AllEqual(window, FALSE))

\* A motor is in the middle of a profile only while its driver is powered;
\* a profile interrupted by the panic button or the supply starts afresh, it
\* does not go on counting steps nobody took (lines 671-685 and 767-776).
ProfileNeedsDrivers ==
  phase # "motors" => \A m \in Motors : running[m] => pin

\* The drivers stop: after the panic button, unless the host has changed its
\* mind, and for good when the supply is gone for good, whatever the commands
\* and wherever the loop is (lines 393-402 and 642-669).
DriversStop ==
  /\ ~ flag ~> (flag \/ ~ pin)
  /\ <>[] ~ present => <>[] ~ pin

\* They start again: a supply that is back for good turns them on unless the
\* panic button is pressed (lines 764-769).
SupplyStartsDrivers == <>[] (present /\ flag) => <>[] pin

\* "`steps <id> <n> <speed>` moves motor `<id>` by exactly `n` microsteps"
\* (arduinoStepMotorsXYController/README.md:313): every pulse of a blocking
\* move finds the drivers enabled.
MoveIsDriven == phase = "moving" => pin
===============================================================================
