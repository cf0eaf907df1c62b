---------------------------- MODULE DebouncedInput ----------------------------
(****************************************************************************)
(* What the power supply detector promises: a two-valued input is sampled,  *)
(* and the output changes exactly when the last StableSampleCount samples   *)
(* all contradict it (arduinoStepMotorsXYController/README.md, lines 242    *)
(* and 243: "requires 10 consecutive consistent samples (100 ms) before     *)
(* flipping").  The samples are counted here; how much time they take is a  *)
(* question to AvrExternalPowerSupplyDetector.                              *)
(*                                                                          *)
(* `window' holds those samples, the newest last.  The output starts FALSE, *)
(* so samples that were never taken can be counted as FALSE ones.           *)
(****************************************************************************)
EXTENDS Naturals

CONSTANT StableSampleCount \* how many samples decide, at least one

VARIABLES window, output

vars == <<window, output>>

Newest == StableSampleCount

Init ==
  /\ window = [i \in 1 .. StableSampleCount |-> FALSE]
  /\ output = FALSE

Shifted(raw) ==
  [i \in 1 .. StableSampleCount |-> IF i = Newest THEN raw ELSE window[i + 1]]

AllEqual(samples, level) ==
  \A i \in 1 .. StableSampleCount : samples[i] = level

Sample(raw) ==
  /\ window' = Shifted(raw)
  /\ output' = IF AllEqual(Shifted(raw), raw) THEN raw ELSE output

Next == \E raw \in BOOLEAN : Sample(raw)

Spec == Init /\ [][Next]_vars
===============================================================================
