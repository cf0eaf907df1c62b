-------------------- MODULE AvrExternalPowerSupplyDetector --------------------
(****************************************************************************)
(* The debounced reading of the opto-isolated power supply input            *)
(* (AvrExternalPowerSupplyDetector.cpp), driven by the main loop: the loop  *)
(* reads the millisecond clock at its top, spends any time on commands (a   *)
(* blocking `steps' takes seconds), and only then calls update with that    *)
(* reading.                                                                 *)
(*                                                                          *)
(* The clock is the interrupt-driven 32-bit counter of AvrSystemClock.  The *)
(* model keeps unbounded instants and reduces differences modulo            *)
(* ClockModulus, which is what subtracting two truncated instants yields.   *)
(****************************************************************************)
EXTENDS Integers

CONSTANTS SampleInterval,    \* sampleIntervalMilliseconds
          StableSampleCount, \* stableSampleCount
          ClockModulus,      \* 2^32
          MaxTime            \* bound: milliseconds a behaviour lasts

ASSUME DetectorAssumption ==
  /\ SampleInterval \in Nat
  /\ StableSampleCount \in Nat \ {0}
  /\ ClockModulus \in Nat \ {0}

VARIABLES time,       \* g_systemMillis, before truncation
          present,    \* the level of the opto-isolated input
          loop,       \* "top" or "update": where the main loop is
          now,        \* the loop's copy of the clock
          hasSample,  \* m_hasSample
          lastSample, \* m_lastSampleMilliseconds, before truncation
          goodSamples, badSamples,  \* m_consecutive{Good,Bad}Samples
          available,  \* m_externalPowerSupplyAvailable
          window,     \* ghost: the last StableSampleCount samples
          runStart    \* ghost: when the first of the trailing equal samples
                      \* was read

counters == <<hasSample, lastSample, goodSamples, badSamples, available>>
vars == <<time, present, loop, now, counters, window, runStart>>

Window == INSTANCE DebouncedInput WITH output <- available

Init ==
  /\ time = 0
  /\ present \in BOOLEAN
  /\ loop = "top"
  /\ now = 0
  /\ hasSample = FALSE
  /\ lastSample = 0
  /\ goodSamples = 0
  /\ badSamples = 0
  /\ available = FALSE
  /\ window = [i \in 1 .. StableSampleCount |-> FALSE]
  /\ runStart = 0

------------------------------------------------------------------------------
\* The timer interrupt.
OnTimerCompareMatch ==
  /\ time < MaxTime
  /\ time' = time + 1
  /\ UNCHANGED <<present, loop, now, counters, window, runStart>>

SupplyChanges ==
  /\ present' = ~ present
  /\ UNCHANGED <<time, loop, now, counters, window, runStart>>

\* The top of mainLoopBody.
ReadClock ==
  /\ loop = "top"
  /\ loop' = "update"
  /\ now' = time
  /\ UNCHANGED <<time, present, counters, window, runStart>>

\* Mutant: the interval between samples is forgotten.
AlwaysDue == hasSample => now >= lastSample

\* A sample is due once SampleInterval has passed on the truncated clock.
SampleDue ==
  hasSample => (now - lastSample) % ClockModulus >= SampleInterval

\* A counter that stops at StableSampleCount.
Counted(n) == IF n < StableSampleCount THEN n + 1 ELSE n

------------------------------------------------------------------------------
\* Mutants: the other counter is not cleared; the limit is passed instead of
\* reached.
FilterKeepingOther(raw) ==
  IF available
    THEN /\ UNCHANGED goodSamples
         /\ badSamples' = IF raw THEN 0 ELSE Counted(badSamples)
         /\ available' = IF badSamples' >= StableSampleCount THEN FALSE ELSE available
    ELSE /\ UNCHANGED badSamples
         /\ goodSamples' = IF raw THEN Counted(goodSamples) ELSE 0
         /\ available' = IF goodSamples' >= StableSampleCount THEN TRUE ELSE available

FilterPastLimit(raw) ==
  IF available
    THEN /\ goodSamples' = 0
         /\ badSamples' = IF raw THEN 0 ELSE Counted(badSamples)
         /\ available' = IF badSamples' > StableSampleCount THEN FALSE ELSE available
    ELSE /\ badSamples' = 0
         /\ goodSamples' = IF raw THEN Counted(goodSamples) ELSE 0
         /\ available' = IF goodSamples' > StableSampleCount THEN TRUE ELSE available
------------------------------------------------------------------------------

\* The filter: samples that contradict the current state are counted, one
\* that agrees starts the count again, and StableSampleCount of them flip it.
Filter(raw) ==
  IF available
    THEN /\ goodSamples' = 0
         /\ badSamples' = IF raw THEN 0 ELSE Counted(badSamples)
         /\ available' = IF badSamples' >= StableSampleCount THEN FALSE ELSE available
    ELSE /\ badSamples' = 0
         /\ goodSamples' = IF raw THEN Counted(goodSamples) ELSE 0
         /\ available' = IF goodSamples' >= StableSampleCount THEN TRUE ELSE available

TakeSample ==
  /\ SampleDue
  /\ lastSample' = now
  /\ hasSample' = TRUE
  /\ Filter(present)
  /\ window' = Window!Shifted(present)
  /\ runStart' = IF hasSample /\ window[StableSampleCount] = present
                   THEN runStart ELSE time

Update ==
  /\ loop = "update"
  /\ loop' = "top"
  /\ \/ TakeSample
     \/ ~ SampleDue /\ UNCHANGED <<counters, window, runStart>>
  /\ UNCHANGED <<time, present, now>>

Next == OnTimerCompareMatch \/ SupplyChanges \/ ReadClock \/ Update

Spec == Init /\ [][Next]_vars

------------------------------------------------------------------------------
(* Properties.                                                              *)

TypeOK ==
  /\ time \in Nat
  /\ present \in BOOLEAN
  /\ loop \in {"top", "update"}
  /\ now \in 0 .. time
  /\ hasSample \in BOOLEAN
  /\ lastSample \in 0 .. now
  /\ goodSamples \in 0 .. StableSampleCount
  /\ badSamples \in 0 .. StableSampleCount
  /\ available \in BOOLEAN
  /\ window \in [1 .. StableSampleCount -> BOOLEAN]
  /\ runStart \in 0 .. time

\* The two saturating counters, of which only one is meaningful at a time,
\* amount to the window of the last samples: the output flips on exactly
\* StableSampleCount consecutive contrary samples (update, lines 47-78).
ImplementsDebouncedInput == Window!Spec

\* Once StableSampleCount consecutive samples agree, so does the output.
StableInputIsReported ==
  \A level \in BOOLEAN :
    Window!AllEqual(window, level) => available = level

\* A flip takes StableSampleCount - 2 whole intervals of contrary readings: all
\* that is left, whatever the loop does, of the StableSampleCount intervals
\* that are promised (FlipNeedsPromisedTime).  One interval is lost because
\* n samples are n - 1 intervals apart, a second one because the instant
\* a sample is stamped with is read before the commands are handled
\* (main.cpp:743) and the input after them, so that the first reading can be as
\* late as the stamp of the second.
FlipNeedsStableTime ==
  [][available' # available =>
       time >= runStart' + (StableSampleCount - 2) * SampleInterval]_vars

\* "Requires 10 consecutive consistent samples (100 ms) before flipping"
\* (arduinoStepMotorsXYController/README.md:242-243; the boot line of
\* main.cpp:594-596 says 100 ms as well): StableSampleCount intervals of
\* contrary readings.  update does not keep that.
FlipNeedsPromisedTime ==
  [][available' # available =>
       time >= runStart' + StableSampleCount * SampleInterval]_vars
===============================================================================
