------------------------------ MODULE MCFirmware ------------------------------
(****************************************************************************)
(* Finite instance of Firmware: two motors, the second of which has invalid *)
(* pins, a detector that needs three samples, and four commands.             *)
(****************************************************************************)
EXTENDS Firmware

CONSTANTS x, y, psu, all, none

MCMotors == {x, y}
MCReady == {x}
===============================================================================
