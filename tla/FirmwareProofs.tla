---------------------------- MODULE FirmwareProofs ----------------------------
(****************************************************************************)
(* Theorems about the main loop for any number of motors, commands and      *)
(* detector samples.                                                        *)
(****************************************************************************)
EXTENDS Firmware, TLAPS

\* What the loop remembers of the supply is what the detector says.
ReportInv ==
  /\ previous = available
  /\ hostSupply = available

\* The detector never takes a supply for present that every sample missed.
DetectorInv == Detector!AllEqual(window, FALSE) => ~ available

\* Outside the step between sampling the supply and setting the enable line,
\* the line is on only with the supply; and the controllers see the value
\* that has just been written to it.
DriverInv ==
  /\ phase # "drive" => (pin => available)
  /\ phase = "motors" => (pin <=> MotorsActuallyEnabled)

------------------------------------------------------------------------------
\* The variables keep their types.
THEOREM TypeCorrect == Spec => []TypeOK
<1> USE FirmwareAssumption
<1>1. Init => TypeOK
  <2> SUFFICES ASSUME Init PROVE TypeOK
    OBVIOUS
  <2>1. /\ flag \in BOOLEAN /\ console \in BOOLEAN /\ present \in BOOLEAN
        /\ available \in BOOLEAN /\ previous \in BOOLEAN
        /\ pin \in BOOLEAN /\ hostSupply \in BOOLEAN
        /\ test \in [Motors -> BOOLEAN] /\ running \in [Motors -> BOOLEAN]
        /\ window \in [1 .. StableSampleCount -> BOOLEAN]
    BY Zenon DEF Init, Detector!Init
  <2>2. QED
    BY <2>1 DEF Init, TypeOK
<1>2. TypeOK /\ [Next]_vars => TypeOK'
  <2> SUFFICES ASSUME TypeOK, [Next]_vars
               PROVE  TypeOK'
    OBVIOUS
  <2> USE DEF settings, move, detector
  <2>1. CASE OtherCommand
    BY <2>1 DEF OtherCommand, Handling, TypeOK
  <2>2. ASSUME NEW on \in BOOLEAN, ConsoleCommand(on)
        PROVE  TypeOK'
    BY <2>2 DEF ConsoleCommand, Handling, TypeOK
  <2>3. ASSUME NEW on \in BOOLEAN, MotorDriverCommand(on)
        PROVE  TypeOK'
    BY <2>3 DEF MotorDriverCommand, Handling, TypeOK
  <2>4. ASSUME NEW target \in Targets, TelemetryCommand(target)
        PROVE  TypeOK'
    BY <2>4 DEF TelemetryCommand, Handling, TypeOK
  <2>5. ASSUME NEW m \in Motors, NEW on \in BOOLEAN, TestCommand(m, on)
        PROVE  TypeOK'
    <3>1. test' \in [Motors -> BOOLEAN]
      BY <2>5 DEF TestCommand, TypeOK
    <3>2. QED
      BY <2>5, <3>1 DEF TestCommand, Handling, TypeOK
  <2>6. ASSUME NEW m \in Motors, NEW n \in 1 .. MaxSteps, StepsCommand(m, n)
        PROVE  TypeOK'
    BY <2>6 DEF StepsCommand, Handling, TypeOK
  <2>7. CASE MoveStep
    BY <2>7 DEF MoveStep, TypeOK
  <2>8. CASE BeginLoop
    BY <2>8 DEF BeginLoop, TypeOK
  <2>9. CASE EndPoll
    BY <2>9 DEF EndPoll, TypeOK
  <2>10. CASE SampleSupply
    <3>1. window' \in [1 .. StableSampleCount -> BOOLEAN]
      BY <2>10 DEF SampleSupply, Detector!Sample, Detector!Shifted,
                   Detector!Newest, TypeOK
    <3>2. available' \in BOOLEAN
      BY <2>10, Zenon DEF SampleSupply, Detector!Sample, TypeOK
    <3>3. previous' \in BOOLEAN /\ hostSupply' \in BOOLEAN
      BY <2>10, <3>2, Zenon DEF SampleSupply, ReportSupply, TypeOK
    <3>4. QED
      BY <2>10, <3>1, <3>2, <3>3 DEF SampleSupply, TypeOK
  <2>11. CASE SupplyNotDue
    BY <2>11 DEF SupplyNotDue, TypeOK
  <2>12. CASE SetDriverEnable
    <3>1. pin' \in BOOLEAN
      BY <2>12, Zenon
         DEF SetDriverEnable, DriverEnable, MotorsActuallyEnabled, TypeOK
    <3>2. QED
      BY <2>12, <3>1 DEF SetDriverEnable, TypeOK
  <2>13. CASE UpdateMotors
    <3>1. running' \in [Motors -> BOOLEAN]
      BY <2>13, Zenon DEF UpdateMotors
    <3>2. QED
      BY <2>13, <3>1 DEF UpdateMotors, TypeOK
  <2>14. CASE Telemetry
    BY <2>14 DEF Telemetry, TypeOK
  <2>15. CASE SupplyChanges
    BY <2>15 DEF SupplyChanges, TypeOK
  <2>16. CASE UNCHANGED vars
    BY <2>16 DEF vars, TypeOK
  <2>17. QED
    BY <2>1, <2>2, <2>3, <2>4, <2>5, <2>6, <2>7, <2>8, <2>9, <2>10, <2>11,
       <2>12, <2>13, <2>14, <2>15, <2>16 DEF Next, LoopStep, Command
<1>3. QED
  BY <1>1, <1>2, PTL DEF Spec

------------------------------------------------------------------------------
(* The supply.                                                              *)

\* Only one action of the loop touches what the detector and the reports
\* mention; the others are told apart by what they do to the phase.
LEMMA OtherSteps ==
  ASSUME [Next]_vars, ~ SampleSupply, ~ SupplyNotDue
  PROVE  UNCHANGED <<detector, previous, hostSupply>>
BY DEF Next, LoopStep, Command, vars, Handling, OtherCommand, ConsoleCommand,
       MotorDriverCommand, TelemetryCommand, TestCommand, StepsCommand,
       MoveStep, BeginLoop, EndPoll, SetDriverEnable, UpdateMotors,
       Telemetry, SupplyChanges

\* Whatever the host has asked for, the EVENT lines alone tell it what the
\* firmware takes the supply for.
THEOREM EventsTellTheSupply == Spec => []HostKnowsSupply
<1>1. Init => ReportInv
  BY DEF Init, Detector!Init, ReportInv
<1>2. ReportInv /\ [Next]_vars => ReportInv'
  <2> SUFFICES ASSUME ReportInv, [Next]_vars
               PROVE  ReportInv'
    OBVIOUS
  <2>1. CASE SampleSupply
    BY <2>1 DEF SampleSupply, ReportSupply, ReportInv
  <2>2. CASE SupplyNotDue
    BY <2>2 DEF SupplyNotDue, detector, ReportInv
  <2>3. CASE UNCHANGED <<detector, previous, hostSupply>>
    BY <2>3 DEF detector, ReportInv
  <2>4. QED
    BY <2>1, <2>2, <2>3, OtherSteps
<1>3. ReportInv => HostKnowsSupply
  BY DEF ReportInv, HostKnowsSupply
<1>4. QED
  BY <1>1, <1>2, <1>3, PTL DEF Spec

\* A window of FALSE samples only means that the detector says no.
LEMMA DetectorStep == DetectorInv /\ [Next]_vars => DetectorInv'
<1> SUFFICES ASSUME DetectorInv, [Next]_vars
             PROVE  DetectorInv'
  OBVIOUS
<1>1. CASE SampleSupply
  <2> SUFFICES ASSUME Detector!AllEqual(window', FALSE)
               PROVE  ~ available'
    BY DEF DetectorInv, Detector!AllEqual
  <2>1. window' = Detector!Shifted(present)
    BY <1>1 DEF SampleSupply, Detector!Sample
  <2>2. present = FALSE
    <3>1. StableSampleCount \in 1 .. StableSampleCount
      BY FirmwareAssumption
    <3>2. window'[StableSampleCount] = present
      BY <2>1, <3>1 DEF Detector!Shifted, Detector!Newest
    <3>3. QED
      BY <3>1, <3>2, Zenon DEF Detector!AllEqual
  <2>3. available' = FALSE
    BY <1>1, <2>1, <2>2, Zenon DEF SampleSupply, Detector!Sample
  <2>4. QED
    BY <2>3
<1>2. CASE UNCHANGED detector
  BY <1>2 DEF detector, DetectorInv, Detector!AllEqual
<1>3. QED
  BY <1>1, <1>2, OtherSteps DEF SupplyNotDue

------------------------------------------------------------------------------
(* The enable line.                                                         *)

\* The enable line follows the supply within the loop that has sampled it.
LEMMA DriverStep == DriverInv /\ [Next]_vars => DriverInv'
<1> SUFFICES ASSUME DriverInv, [Next]_vars
             PROVE  DriverInv'
  OBVIOUS
<1> USE DEF settings, move, detector
<1>1. CASE SampleSupply
  BY <1>1 DEF SampleSupply, DriverInv
<1>2. CASE SupplyNotDue
  BY <1>2 DEF SupplyNotDue, DriverInv
<1>3. CASE SetDriverEnable
  <2>1. pin' <=> MotorsActuallyEnabled
    BY <1>3 DEF SetDriverEnable, DriverEnable
  <2>2. phase' = "motors" /\ UNCHANGED <<flag, available>>
    BY <1>3 DEF SetDriverEnable
  <2>3. QED
    BY <2>1, <2>2 DEF DriverInv, MotorsActuallyEnabled
<1>4. CASE Command
  <2>1. /\ phase = "poll" /\ phase' \in {"poll", "moving"}
        /\ UNCHANGED <<pin, available>>
    BY <1>4 DEF Command, Handling, OtherCommand, ConsoleCommand,
                MotorDriverCommand, TelemetryCommand, TestCommand,
                StepsCommand
  <2>2. QED
    BY <2>1 DEF DriverInv
<1>5. CASE SupplyChanges \/ UNCHANGED vars
  BY <1>5 DEF SupplyChanges, vars, DriverInv, MotorsActuallyEnabled
<1>6. CASE MoveStep \/ BeginLoop \/ EndPoll \/ UpdateMotors \/ Telemetry
  <2>1. phase # "drive" /\ phase' # "motors" /\ UNCHANGED <<pin, available>>
    BY <1>6 DEF MoveStep, BeginLoop, EndPoll, UpdateMotors, Telemetry
  <2>2. QED
    BY <2>1 DEF DriverInv
<1>7. QED
  BY <1>1, <1>2, <1>3, <1>4, <1>5, <1>6 DEF Next, LoopStep

\* No supply, no drivers: once every sample of the window has missed the
\* supply, the enable line is off.
THEOREM SupplyGatesEnableLine == Spec => []SupplyGatesDrivers
<1>1. Init => DetectorInv /\ DriverInv
  BY DEF Init, Detector!Init, DetectorInv, DriverInv
<1>2. DetectorInv /\ DriverInv => SupplyGatesDrivers
  BY DEF DetectorInv, DriverInv, SupplyGatesDrivers
<1>3. QED
  BY <1>1, <1>2, DetectorStep, DriverStep, PTL DEF Spec

\* No motor is in the middle of a profile while its driver is off.
THEOREM ProfilesNeedEnableLine == Spec => []ProfileNeedsDrivers
<1>1. Init => DriverInv /\ ProfileNeedsDrivers
  BY DEF Init, DriverInv, ProfileNeedsDrivers
<1>2. DriverInv /\ ProfileNeedsDrivers /\ [Next]_vars => ProfileNeedsDrivers'
  <2> SUFFICES ASSUME DriverInv, ProfileNeedsDrivers, [Next]_vars
               PROVE  ProfileNeedsDrivers'
    OBVIOUS
  <2> USE DEF settings, move, detector
  <2>1. CASE SetDriverEnable
    BY <2>1 DEF SetDriverEnable, ProfileNeedsDrivers
  <2>2. CASE UpdateMotors
    <3>1. ASSUME NEW m \in Motors, running'[m]
          PROVE  pin'
      BY <2>2, <3>1 DEF UpdateMotors, DriverInv
    <3>2. QED
      BY <3>1 DEF ProfileNeedsDrivers
  <2>3. CASE UNCHANGED vars
    BY <2>3 DEF vars, ProfileNeedsDrivers
  <2>4. CASE Next /\ ~ SetDriverEnable /\ ~ UpdateMotors
    <3>1. UNCHANGED <<running, pin>> /\ (phase = "motors" => phase' = "motors")
      BY <2>4 DEF Next, LoopStep, Command, Handling, OtherCommand,
                  ConsoleCommand, MotorDriverCommand, TelemetryCommand,
                  TestCommand, StepsCommand, MoveStep, BeginLoop, EndPoll,
                  SampleSupply, SupplyNotDue, Telemetry, SupplyChanges
    <3>2. QED
      BY <3>1 DEF ProfileNeedsDrivers
  <2>5. QED
    BY <2>1, <2>2, <2>3, <2>4
<1>3. QED
  BY <1>1, <1>2, DriverStep, PTL DEF Spec
===============================================================================
