----------------- MODULE AvrExternalPowerSupplyDetectorProofs -----------------
(****************************************************************************)
(* Theorems about the power supply detector for every sample count, sample  *)
(* interval and clock width.                                                *)
(****************************************************************************)
EXTENDS AvrExternalPowerSupplyDetector, TLAPS

\* The counter that matters in the current state: how many of the newest
\* samples contradict the output.
Contrary == IF available THEN badSamples ELSE goodSamples

\* The counter in use says what the window looks like: Contrary samples
\* against the output, and before them one that agrees with it.
CounterInv ==
  /\ Contrary \in 0 .. StableSampleCount - 1
  /\ \A i \in 1 .. StableSampleCount :
       i > StableSampleCount - Contrary => window[i] = ~ available
  /\ window[StableSampleCount - Contrary] = available
  /\ Contrary > 0 => hasSample

\* How far back the run of contrary samples started.
TimeInv ==
  /\ loop = "update" => runStart <= now
  /\ Contrary >= 2 =>
       lastSample >= runStart + (Contrary - 2) * SampleInterval

------------------------------------------------------------------------------
\* The variables keep their types.
THEOREM TypeCorrect == Spec => []TypeOK
<1> USE DetectorAssumption
<1>1. Init => TypeOK
  <2> SUFFICES ASSUME Init PROVE TypeOK
    OBVIOUS
  <2>1. window \in [1 .. StableSampleCount -> BOOLEAN]
    BY Zenon DEF Init
  <2>2. present \in BOOLEAN /\ hasSample \in BOOLEAN /\ available \in BOOLEAN
    BY Zenon DEF Init
  <2>3. QED
    BY <2>1, <2>2 DEF Init, TypeOK
<1>2. TypeOK /\ [Next]_vars => TypeOK'
  <2> SUFFICES ASSUME TypeOK, [Next]_vars
               PROVE  TypeOK'
    OBVIOUS
  <2>1. CASE OnTimerCompareMatch
    BY <2>1 DEF OnTimerCompareMatch, counters, TypeOK
  <2>2. CASE SupplyChanges
    BY <2>2 DEF SupplyChanges, counters, TypeOK
  <2>3. CASE ReadClock
    BY <2>3 DEF ReadClock, counters, TypeOK
  <2>4. CASE Update
    <3>1. CASE TakeSample
      <4>1. /\ goodSamples' \in 0 .. StableSampleCount
            /\ badSamples' \in 0 .. StableSampleCount
        <5>1. /\ goodSamples' \in {0, Counted(goodSamples)}
              /\ badSamples' \in {0, Counted(badSamples)}
          BY <3>1, Zenon DEF TakeSample, Filter, TypeOK
        <5>2. QED
          BY <5>1 DEF Counted, TypeOK
      <4>2. available' \in BOOLEAN
        BY <3>1, Zenon DEF TakeSample, Filter, TypeOK
      <4>3. window' \in [1 .. StableSampleCount -> BOOLEAN]
        BY <3>1 DEF TakeSample, Window!Shifted, Window!Newest, TypeOK
      <4>4. QED
        BY <2>4, <3>1, <4>1, <4>2, <4>3 DEF Update, TakeSample, TypeOK
    <3>2. CASE UNCHANGED <<counters, window, runStart>>
      BY <2>4, <3>2 DEF Update, counters, TypeOK
    <3>3. QED
      BY <2>4, <3>1, <3>2 DEF Update
  <2>5. CASE UNCHANGED vars
    BY <2>5 DEF vars, counters, TypeOK
  <2>6. QED
    BY <2>1, <2>2, <2>3, <2>4, <2>5 DEF Next
<1>3. QED
  BY <1>1, <1>2, PTL DEF Spec

------------------------------------------------------------------------------
(* The counters and the window.                                             *)

\* Before the first sample the window is all FALSE, as the output is.
LEMMA CounterInit == Init => CounterInv
<1> SUFFICES ASSUME Init PROVE CounterInv
  OBVIOUS
<1>1. Contrary = 0 /\ ~ available
  BY DEF Init, Contrary
<1>2. window[StableSampleCount] = FALSE
  BY DetectorAssumption DEF Init
<1>3. window[StableSampleCount] = available
  BY <1>2, Zenon DEF Init
<1>4. QED
  BY <1>1, <1>3, DetectorAssumption DEF CounterInv

\* A sample that agrees with the output clears the counter in use.
LEMMA FilterRestarts ==
  ASSUME TypeOK, Filter(present), present = available
  PROVE  available' = available /\ Contrary' = 0
<1> USE DetectorAssumption
<1>1. CASE available
  <2>1. present = TRUE /\ available = TRUE
    BY <1>1, Zenon DEF TypeOK
  <2>2. badSamples' = 0
    BY <2>1 DEF Filter
  <2>3. available' = IF badSamples' >= StableSampleCount THEN FALSE ELSE TRUE
    BY <2>1, Zenon DEF Filter
  <2>4. available' = TRUE
    BY <2>2, <2>3
  <2>5. QED
    BY <2>1, <2>2, <2>4, Zenon DEF Contrary
<1>2. CASE ~ available
  <2>1. present = FALSE /\ available = FALSE
    BY <1>2, Zenon DEF TypeOK
  <2>2. goodSamples' = 0
    BY <2>1 DEF Filter
  <2>3. available' = IF goodSamples' >= StableSampleCount THEN TRUE ELSE FALSE
    BY <2>1, Zenon DEF Filter
  <2>4. available' = FALSE
    BY <2>2, <2>3
  <2>5. QED
    BY <2>1, <2>2, <2>4, Zenon DEF Contrary
<1>3. QED
  BY <1>1, <1>2

\* A sample that agrees with the output restarts the count.
LEMMA AgreeingSample ==
  ASSUME TypeOK, CounterInv, TakeSample, present = available
  PROVE  CounterInv' /\ Window!Sample(present) /\ available' = available
<1> USE DetectorAssumption
<1>0. Filter(present)
  BY DEF TakeSample
<1>1. available' = available /\ Contrary' = 0
  BY <1>0, FilterRestarts
<1>2. window'[StableSampleCount] = available
  BY DEF TakeSample, Window!Shifted, Window!Newest, TypeOK
<1>3. CounterInv'
  BY <1>1, <1>2 DEF CounterInv
<1>4. Window!Sample(present)
  BY <1>1 DEF TakeSample, Window!Sample
<1>5. QED
  BY <1>1, <1>3, <1>4

\* A contrary sample moves the counter in use by one, and the output with it
\* when that reaches the limit.
LEMMA FilterCounts ==
  ASSUME TypeOK, CounterInv, Filter(present), present = ~ available
  PROVE  IF Contrary + 1 < StableSampleCount
           THEN available' = available /\ Contrary' = Contrary + 1
           ELSE available' = (~ available) /\ Contrary' = 0
<1> USE DetectorAssumption
<1>1. CASE available
  <2>1. present = FALSE /\ available = TRUE
    BY <1>1, Zenon DEF TypeOK
  <2>2. Contrary = badSamples /\ badSamples < StableSampleCount
    BY <1>1 DEF Contrary, CounterInv
  <2>3. goodSamples' = 0 /\ badSamples' = badSamples + 1
    BY <2>1, <2>2 DEF Filter, Counted
  <2>4. available' = IF badSamples' >= StableSampleCount THEN FALSE ELSE TRUE
    BY <2>1, Zenon DEF Filter
  <2>5. CASE Contrary + 1 < StableSampleCount
    <3>1. available' = TRUE
      BY <2>2, <2>3, <2>4, <2>5 DEF TypeOK
    <3>2. Contrary' = badSamples'
      BY <3>1, Zenon DEF Contrary
    <3>3. available' = available
      BY <3>1, <2>1, Zenon
    <3>4. QED
      BY <2>2, <2>3, <2>5, <3>2, <3>3
  <2>6. CASE ~ (Contrary + 1 < StableSampleCount)
    <3>1. available' = FALSE
      BY <2>2, <2>3, <2>4, <2>6 DEF TypeOK
    <3>2. Contrary' = goodSamples'
      BY <3>1, Zenon DEF Contrary
    <3>3. available' = (~ available)
      BY <3>1, <2>1, Zenon
    <3>4. QED
      BY <2>3, <2>6, <3>2, <3>3
  <2>7. QED
    BY <2>5, <2>6
<1>2. CASE ~ available
  <2>1. present = TRUE /\ available = FALSE
    BY <1>2, Zenon DEF TypeOK
  <2>2. Contrary = goodSamples /\ goodSamples < StableSampleCount
    BY <1>2 DEF Contrary, CounterInv
  <2>3. badSamples' = 0 /\ goodSamples' = goodSamples + 1
    BY <2>1, <2>2 DEF Filter, Counted
  <2>4. available' = IF goodSamples' >= StableSampleCount THEN TRUE ELSE FALSE
    BY <2>1, Zenon DEF Filter
  <2>5. CASE Contrary + 1 < StableSampleCount
    <3>1. available' = FALSE
      BY <2>2, <2>3, <2>4, <2>5 DEF TypeOK
    <3>2. Contrary' = goodSamples'
      BY <3>1, Zenon DEF Contrary
    <3>3. available' = available
      BY <3>1, <2>1, Zenon
    <3>4. QED
      BY <2>2, <2>3, <2>5, <3>2, <3>3
  <2>6. CASE ~ (Contrary + 1 < StableSampleCount)
    <3>1. available' = TRUE
      BY <2>2, <2>3, <2>4, <2>6 DEF TypeOK
    <3>2. Contrary' = badSamples'
      BY <3>1, Zenon DEF Contrary
    <3>3. available' = (~ available)
      BY <3>1, <2>1, Zenon
    <3>4. QED
      BY <2>3, <2>6, <3>2, <3>3
  <2>7. QED
    BY <2>5, <2>6
<1>3. QED
  BY <1>1, <1>2

\* A sample that contradicts the output is counted, and the last one that is
\* needed flips it.
LEMMA ContrarySample ==
  ASSUME TypeOK, CounterInv, TakeSample, present # available
  PROVE  /\ CounterInv'
         /\ Window!Sample(present)
         /\ \/ /\ available' = available
               /\ Contrary' = Contrary + 1
            \/ /\ available' # available
               /\ Contrary = StableSampleCount - 1
               /\ Contrary' = 0
<1> USE DetectorAssumption
<1>1. present = ~ available
  BY DEF TypeOK
<1>2. /\ window' = Window!Shifted(present)
      /\ hasSample' = TRUE
      /\ Filter(present)
  BY DEF TakeSample
<1>3. \A i \in 1 .. StableSampleCount :
        window'[i] = IF i = StableSampleCount THEN ~ available
                                              ELSE window[i + 1]
  BY <1>1, <1>2 DEF Window!Shifted, Window!Newest
<1>4. \A i \in 1 .. StableSampleCount :
        i > StableSampleCount - Contrary - 1 => window'[i] = ~ available
  BY <1>3 DEF CounterInv
<1>5. CASE Contrary + 1 < StableSampleCount
  <2>1. available' = available /\ Contrary' = Contrary + 1
    BY <1>1, <1>2, <1>5, FilterCounts
  <2>2. window'[StableSampleCount - Contrary - 1] = available
    BY <1>3, <1>5 DEF CounterInv
  <2>3. CounterInv'
    BY <1>2, <1>4, <1>5, <2>1, <2>2 DEF CounterInv
  <2>4. ~ Window!AllEqual(window', present)
    BY <1>1, <1>5, <2>2 DEF Window!AllEqual, CounterInv, TypeOK
  <2>5. Window!Sample(present)
    BY <1>2, <2>1, <2>4 DEF Window!Sample
  <2>6. QED
    BY <2>1, <2>3, <2>5
<1>6. CASE Contrary + 1 = StableSampleCount
  <2>1. available' = ~ available /\ Contrary' = 0
    BY <1>1, <1>2, <1>6, FilterCounts
  <2>2. \A i \in 1 .. StableSampleCount : window'[i] = ~ available
    BY <1>4, <1>6 DEF CounterInv
  <2>3. Window!AllEqual(window', present)
    BY <1>1, <2>2, Zenon DEF Window!AllEqual
  <2>4. window'[StableSampleCount] = available'
    BY <2>1, <2>2
  <2>5. CounterInv'
    BY <1>2, <2>1, <2>4 DEF CounterInv
  <2>6. Window!Sample(present)
    BY <1>1, <1>2, <2>1, <2>3, Zenon DEF Window!Sample
  <2>7. available' # available
    BY <2>1, Zenon
  <2>8. Contrary = StableSampleCount - 1
    BY <1>6 DEF CounterInv
  <2>9. QED
    BY <2>1, <2>5, <2>6, <2>7, <2>8
<1>7. QED
  BY <1>5, <1>6 DEF CounterInv

\* Every step preserves it; only TakeSample touches what it mentions.
LEMMA CounterStep == TypeOK /\ CounterInv /\ [Next]_vars => CounterInv'
<1> SUFFICES ASSUME TypeOK, CounterInv, [Next]_vars
             PROVE  CounterInv'
  OBVIOUS
<1>1. CASE TakeSample
  BY <1>1, AgreeingSample, ContrarySample
<1>2. CASE UNCHANGED <<counters, window>>
  BY <1>2 DEF counters, CounterInv, Contrary
<1>3. QED
  BY <1>1, <1>2
     DEF Next, OnTimerCompareMatch, SupplyChanges, ReadClock, Update, vars

\* The counters always describe the window of the last samples.
THEOREM CountersDescribeWindow == Spec => []CounterInv
BY CounterInit, CounterStep, TypeCorrect, PTL DEF Spec

\* Whatever the sample count, the output agrees with an input that has been
\* stable for that many samples.
THEOREM StableInputReported == Spec => []StableInputIsReported
<1>1. TypeOK /\ CounterInv => StableInputIsReported
  BY DetectorAssumption
     DEF TypeOK, CounterInv, StableInputIsReported, Window!AllEqual
<1>2. QED
  BY <1>1, TypeCorrect, CountersDescribeWindow, PTL

\* The detector implements the debounced input: it flips on, and only on,
\* StableSampleCount consecutive contrary samples.
THEOREM DetectorImplementsDebouncedInput == Spec => ImplementsDebouncedInput
<1>1. Init => Window!Init
  BY DEF Init, Window!Init
<1>2. TypeOK /\ CounterInv /\ [Next]_vars => [Window!Next]_Window!vars
  <2> SUFFICES ASSUME TypeOK, CounterInv, [Next]_vars
               PROVE  [Window!Next]_Window!vars
    OBVIOUS
  <2>1. CASE TakeSample
    <3>1. Window!Sample(present) /\ present \in BOOLEAN
      BY <2>1, AgreeingSample, ContrarySample DEF TypeOK
    <3>2. QED
      BY <3>1 DEF Window!Next
  <2>2. CASE UNCHANGED <<counters, window>>
    BY <2>2 DEF counters, Window!vars
  <2>3. QED
    BY <2>1, <2>2
       DEF Next, OnTimerCompareMatch, SupplyChanges, ReadClock, Update, vars
<1>3. QED
  BY <1>1, <1>2, TypeCorrect, CountersDescribeWindow, PTL
     DEF Spec, ImplementsDebouncedInput, Window!Spec

------------------------------------------------------------------------------
(* How long a flip takes.                                                   *)

\* Two samples are a sample interval apart, however often the truncated
\* clock has wrapped in between.
LEMMA DueMeansIntervalPassed ==
  ASSUME TypeOK, SampleDue, hasSample
  PROVE  now >= lastSample + SampleInterval
<1>1. now - lastSample \in Nat
  BY DEF TypeOK
<1>2. \A n \in Nat : n % ClockModulus <= n
  BY DetectorAssumption
<1>3. QED
  BY <1>1, <1>2, DetectorAssumption DEF SampleDue, TypeOK

\* TimeInv is preserved: a sample that extends a run of two or more comes a
\* whole interval after the one before it, and the second of a run has been
\* stamped after the first was read.
LEMMA TimeStep ==
  TypeOK /\ CounterInv /\ TimeInv /\ [Next]_vars => TimeInv'
<1> SUFFICES ASSUME TypeOK, CounterInv, TimeInv, [Next]_vars
             PROVE  TimeInv'
  OBVIOUS
<1> USE DetectorAssumption
<1>1. CASE OnTimerCompareMatch
  BY <1>1 DEF OnTimerCompareMatch, counters, TimeInv, Contrary
<1>2. CASE SupplyChanges
  BY <1>2 DEF SupplyChanges, counters, TimeInv, Contrary
<1>3. CASE ReadClock
  BY <1>3 DEF ReadClock, counters, TimeInv, Contrary, TypeOK
<1>4. CASE Update
  <2>1. loop' = "top" /\ loop = "update" /\ runStart <= now
    BY <1>4 DEF Update, TimeInv
  <2>2. CASE TakeSample /\ present = available
    <3>1. Contrary' = 0
      <4>1. Filter(present)
        BY <2>2 DEF TakeSample
      <4>2. QED
        BY <2>2, <4>1, FilterRestarts
    <3>2. QED
      BY <2>1, <3>1 DEF TimeInv
  <2>3. CASE TakeSample /\ present # available
    <3>1. Contrary' = 0 \/ Contrary' = Contrary + 1
      BY <2>3, ContrarySample
    <3>2. CASE Contrary >= 1 /\ Contrary' = Contrary + 1
      <4>1. hasSample /\ window[StableSampleCount] = ~ available
        BY <3>2 DEF CounterInv
      <4>2. present = ~ available
        BY <2>3 DEF TypeOK
      <4>3. runStart' = runStart /\ lastSample' = now /\ SampleDue
        BY <2>3, <4>1, <4>2, Zenon DEF TakeSample
      <4>4. now >= lastSample + SampleInterval
        BY <4>1, <4>3, DueMeansIntervalPassed
      <4>5. CASE Contrary = 1
        BY <2>1, <3>2, <4>3, <4>5 DEF TimeInv, TypeOK
      <4>6. CASE Contrary >= 2
        <5>1. (Contrary - 1) * SampleInterval
                = (Contrary - 2) * SampleInterval + SampleInterval
          BY DEF CounterInv
        <5>2. (Contrary' - 2) * SampleInterval = (Contrary - 1) * SampleInterval
          BY <3>2 DEF CounterInv
        <5>3. (Contrary - 2) * SampleInterval \in Int
          BY DEF CounterInv
        <5>4. lastSample >= runStart + (Contrary - 2) * SampleInterval
          BY <4>6 DEF TimeInv
        <5>5. QED
          BY <2>1, <4>3, <4>4, <5>1, <5>2, <5>3, <5>4 DEF TimeInv, TypeOK
      <4>7. QED
        BY <3>2, <4>5, <4>6 DEF CounterInv
    <3>3. CASE ~ (Contrary >= 1 /\ Contrary' = Contrary + 1)
      BY <2>1, <3>1, <3>3 DEF TimeInv, CounterInv
    <3>4. QED
      BY <3>2, <3>3
  <2>4. CASE UNCHANGED <<counters, window, runStart>>
    BY <2>1, <2>4 DEF counters, TimeInv, Contrary
  <2>5. QED
    BY <1>4, <2>2, <2>3, <2>4 DEF Update
<1>5. CASE UNCHANGED vars
  BY <1>5 DEF vars, counters, TimeInv, Contrary
<1>6. QED
  BY <1>1, <1>2, <1>3, <1>4, <1>5 DEF Next

\* The debounce time has a lower bound: a flip happens at least
\* StableSampleCount - 2 sample intervals after the contrary run began.
THEOREM FlipTakesStableTime == Spec => FlipNeedsStableTime
<1> USE DetectorAssumption
<1>1. Init => TimeInv
  BY DEF Init, TimeInv, Contrary
<1>2. TypeOK /\ CounterInv /\ TimeInv /\ [Next]_vars
        => [available' # available =>
              time >= runStart' + (StableSampleCount - 2) * SampleInterval]_vars
  <2> SUFFICES ASSUME TypeOK, CounterInv, TimeInv, [Next]_vars,
                      available' # available
               PROVE  time >= runStart'
                              + (StableSampleCount - 2) * SampleInterval
    OBVIOUS
  <2>1. TakeSample /\ loop = "update"
    BY DEF Next, OnTimerCompareMatch, SupplyChanges, ReadClock, Update, vars,
           counters
  <2>2. present # available
    BY <2>1, AgreeingSample
  <2>3. Contrary = StableSampleCount - 1
    BY <2>1, <2>2, ContrarySample
  <2>4. runStart' = runStart \/ runStart' = time
    BY <2>1, Zenon DEF TakeSample
  <2>5. CASE Contrary >= 1
    <3>1. hasSample /\ window[StableSampleCount] = ~ available
      BY <2>5 DEF CounterInv
    <3>2. present = ~ available
      BY <2>2 DEF TypeOK
    <3>3. runStart' = runStart /\ SampleDue
      BY <2>1, <3>1, <3>2, Zenon DEF TakeSample
    <3>4. now >= lastSample + SampleInterval
      BY <3>1, <3>3, DueMeansIntervalPassed
    <3>5. CASE Contrary = 1
      BY <2>1, <2>3, <3>3, <3>5 DEF TimeInv, TypeOK
    <3>6. CASE Contrary >= 2
      <4>1. lastSample >= runStart + (Contrary - 2) * SampleInterval
        BY <3>6 DEF TimeInv
      <4>2. (StableSampleCount - 2) * SampleInterval
              = (Contrary - 2) * SampleInterval + SampleInterval
        BY <2>3
      <4>3. (Contrary - 2) * SampleInterval \in Int
        BY DEF CounterInv
      <4>4. QED
        BY <3>3, <3>4, <4>1, <4>2, <4>3 DEF TypeOK
    <3>7. QED
      BY <2>5, <3>5, <3>6 DEF CounterInv
  <2>6. CASE Contrary = 0
    <3>1. StableSampleCount - 2 = -1
      BY <2>3, <2>6
    <3>2. (StableSampleCount - 2) * SampleInterval = - SampleInterval
      BY <3>1
    <3>3. QED
      BY <2>4, <3>2 DEF TypeOK
  <2>7. QED
    BY <2>5, <2>6 DEF CounterInv
<1>3. QED
  BY <1>1, <1>2, TimeStep, TypeCorrect, CountersDescribeWindow, PTL
     DEF Spec, FlipNeedsStableTime
===============================================================================
