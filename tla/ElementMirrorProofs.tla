-------------------------- MODULE ElementMirrorProofs --------------------------
(****************************************************************************)
(* Theorems about the console's boxes and the devices they show, for every  *)
(* number of motors, every range of the numbers typed and every length of   *)
(* the queues: what is typed stays in range, the selected widget exists,    *)
(* and the boxes agree with their devices at rest.                          *)
(****************************************************************************)
EXTENDS ElementMirror, SequenceTheorems, WellFoundedInduction, TLAPS

\* The lines that may meet a box.
Lines == AvrLines \cup EspLines

\* The commands that may be on their way.
ToAvr == AvrCommands \cup TypedLines
ToEsp == EspCommands \cup TypedLines

------------------------------------------------------------------------------
(* Induction.  The library's theorems about it take an operator, which the  *)
(* provers cannot instantiate; a set does as well.                          *)

\* A set of numbers that holds zero and the successor of each number that it
\* holds, up to k, holds all numbers up to k: otherwise there were a smallest
\* one that it lacks.
LEMMA UpToInduction ==
  ASSUME NEW k \in Nat, NEW T, 0 \in T,
         \A n \in 1 .. k : n - 1 \in T => n \in T
  PROVE  \A n \in 0 .. k : n \in T
<1> DEFINE Missing == {n \in Nat : n <= k /\ n \notin T}
<1> SUFFICES ASSUME Missing # {} PROVE FALSE
  OBVIOUS
<1> Missing \subseteq Nat
  OBVIOUS
<1>1. \E x \in Missing : \A y \in Missing : ~ (<<y, x>> \in OpToRel(<, Nat))
  <2> HIDE DEF Missing
  <2> QED
    BY NatLessThanWellFounded, WFMin
<1>2. PICK x \in Missing :
        \A y \in Missing : ~ (<<y, x>> \in OpToRel(<, Nat))
  BY <1>1
<1>3. x \in 1 .. k /\ x - 1 \in Nat
  OBVIOUS
<1>4. x - 1 \in Missing
  BY <1>3
<1>5. <<x - 1, x>> \in OpToRel(<, Nat)
  BY <1>3 DEF OpToRel
<1> QED
  BY <1>2, <1>4, <1>5

\* h holds the values before, between and after the steps along s.
IsHistory(h, step, b, s) ==
  h[0] = b /\ \A n \in 1 .. Len(s) : h[n] = step[<<h[n - 1], s[n]>>]

\* Whatever one step makes of a value of S and an element, the steps along a
\* sequence have a history: a value of S before each of them and after the last.
LEMMA HistoryExists ==
  ASSUME NEW S, NEW A, NEW b \in S, NEW s \in Seq(A), NEW step \in [S \X A -> S]
  PROVE  \E h \in [0 .. Len(s) -> S] : IsHistory(h, step, b, s)
<1> DEFINE Reached(n) ==
      \E h \in [0 .. n -> S] :
        h[0] = b /\ \A i \in 1 .. n : h[i] = step[<<h[i - 1], s[i]>>]
    T == {n \in 0 .. Len(s) : Reached(n)}
<1>1. Len(s) \in Nat /\ \A i \in 1 .. Len(s) : s[i] \in A
  OBVIOUS
<1>2. 0 \in T
  <2> DEFINE first == [i \in 0 .. 0 |-> b]
  <2>1. first \in [0 .. 0 -> S] /\ first[0] = b
    OBVIOUS
  <2>2. \A i \in 1 .. 0 : first[i] = step[<<first[i - 1], s[i]>>]
    OBVIOUS
  <2>3. Reached(0)
    <3> HIDE DEF first
    <3> QED
      BY <2>1, <2>2
  <2> QED
    BY <1>1, <2>3
<1>3. ASSUME NEW n \in 1 .. Len(s), n - 1 \in T PROVE n \in T
  <2>1. PICK h \in [0 .. n - 1 -> S] :
          h[0] = b /\ \A i \in 1 .. n - 1 : h[i] = step[<<h[i - 1], s[i]>>]
    BY <1>3
  <2> DEFINE longer == [i \in 0 .. n |-> IF i = n THEN step[<<h[n - 1], s[n]>>]
                                                 ELSE h[i]]
  <2>2. h[n - 1] \in S /\ s[n] \in A
    BY <1>1
  <2>3. longer \in [0 .. n -> S]
    BY <2>2
  <2>4. longer[0] = b /\ \A i \in 1 .. n : longer[i] = step[<<longer[i - 1], s[i]>>]
    <3>1. longer[0] = h[0]
      OBVIOUS
    <3>2. ASSUME NEW i \in 1 .. n PROVE longer[i] = step[<<longer[i - 1], s[i]>>]
      <4>1. longer[i - 1] = h[i - 1]
        OBVIOUS
      <4>2. CASE i = n
        <5>1. longer[n] = step[<<h[n - 1], s[n]>>] /\ longer[n - 1] = h[n - 1]
          OBVIOUS
        <5> HIDE DEF longer
        <5> QED
          BY <4>2, <5>1
      <4>3. CASE i # n
        <5>1. i \in 1 .. n - 1 /\ longer[i] = h[i]
          BY <4>3
        <5> QED
          BY <2>1, <4>1, <5>1
      <4> QED
        BY <4>2, <4>3
    <3> QED
      BY <2>1, <3>1, <3>2
  <2>5. Reached(n)
    <3> HIDE DEF longer
    <3> QED
      BY <2>3, <2>4
  <2> QED
    BY <2>5
<1>4. \A n \in 0 .. Len(s) : n \in T
  <2> HIDE DEF T
  <2> QED
    BY <1>1, <1>2, <1>3, UpToInduction
<1> QED
  BY <1>1, <1>4 DEF IsHistory

\* A history is the only one.
LEMMA HistoryIsUnique ==
  ASSUME NEW s, Len(s) \in Nat, NEW step, NEW b,
         NEW h, IsHistory(h, step, b, s), NEW g, IsHistory(g, step, b, s)
  PROVE  h[Len(s)] = g[Len(s)]
<1> DEFINE T == {n \in 0 .. Len(s) : h[n] = g[n]}
<1>1. 0 \in T
  BY DEF IsHistory
<1>2. ASSUME NEW n \in 1 .. Len(s), n - 1 \in T PROVE n \in T
  <2>1. h[n - 1] = g[n - 1]
    BY <1>2
  <2>2. h[n] = step[<<h[n - 1], s[n]>>] /\ g[n] = step[<<g[n - 1], s[n]>>]
    BY DEF IsHistory
  <2> QED
    BY <2>1, <2>2
<1>3. \A n \in 0 .. Len(s) : n \in T
  <2> HIDE DEF T
  <2> QED
    BY <1>1, <1>2, UpToInduction
<1> QED
  BY <1>3

\* The value after the last step.
Fold(S, step, b, s) ==
  (CHOOSE h \in [0 .. Len(s) -> S] : IsHistory(h, step, b, s))[Len(s)]

\* Every history of the steps ends in the same value.
LEMMA FoldEndsHistory ==
  ASSUME NEW S, NEW A, NEW b \in S, NEW s \in Seq(A), NEW step,
         NEW h \in [0 .. Len(s) -> S], IsHistory(h, step, b, s)
  PROVE  Fold(S, step, b, s) = h[Len(s)] /\ Fold(S, step, b, s) \in S
<1> DEFINE g == CHOOSE g \in [0 .. Len(s) -> S] : IsHistory(g, step, b, s)
<1>1. g \in [0 .. Len(s) -> S] /\ IsHistory(g, step, b, s)
  OBVIOUS
<1>2. Fold(S, step, b, s) = g[Len(s)]
  BY DEF Fold
<1>3. Len(s) \in Nat
  OBVIOUS
<1> HIDE DEF g
<1>4. g[Len(s)] = h[Len(s)]
  BY <1>1, <1>3, HistoryIsUnique
<1> QED
  BY <1>2, <1>3, <1>4

\* Steps along a sequence stay in the set that every step stays in.
LEMMA FoldKeepsType ==
  ASSUME NEW S, NEW A, NEW b \in S, NEW s \in Seq(A), NEW step \in [S \X A -> S]
  PROVE  Fold(S, step, b, s) \in S
<1>1. PICK h \in [0 .. Len(s) -> S] : IsHistory(h, step, b, s)
  BY HistoryExists
<1> QED
  BY <1>1, FoldEndsHistory

\* One step more.
FoldTakesStep(S, step, b, s, e) ==
  Fold(S, step, b, Append(s, e)) = step[<<Fold(S, step, b, s), e>>]

\* One element more is one step more.
LEMMA FoldAppend ==
  ASSUME NEW S, NEW A, NEW b \in S, NEW s \in Seq(A), NEW e \in A,
         NEW step \in [S \X A -> S]
  PROVE  FoldTakesStep(S, step, b, s, e)
<1>1. PICK h \in [0 .. Len(s) -> S] : IsHistory(h, step, b, s)
  BY HistoryExists
<1> DEFINE longer == [i \in 0 .. Len(s) + 1 |->
                        IF i <= Len(s) THEN h[i] ELSE step[<<h[Len(s)], e>>]]
<1>2. /\ Append(s, e) \in Seq(A) /\ Len(s) \in Nat
      /\ Len(Append(s, e)) = Len(s) + 1
      /\ \A i \in 1 .. Len(s) : Append(s, e)[i] = s[i]
      /\ Append(s, e)[Len(s) + 1] = e
  OBVIOUS
<1>3. longer \in [0 .. Len(Append(s, e)) -> S]
  BY <1>2
<1>4. longer[Len(s) + 1] = step[<<h[Len(s)], e>>]
      /\ \A i \in 0 .. Len(s) : longer[i] = h[i]
  BY <1>2
<1>5. IsHistory(longer, step, b, Append(s, e))
  <2> HIDE DEF longer
  <2>1. longer[0] = b
    BY <1>1, <1>2, <1>4 DEF IsHistory
  <2>2. ASSUME NEW i \in 1 .. Len(s) + 1
        PROVE  longer[i] = step[<<longer[i - 1], Append(s, e)[i]>>]
    <3>1. CASE i = Len(s) + 1
      BY <1>2, <1>4, <3>1
    <3>2. CASE i # Len(s) + 1
      <4>1. i \in 1 .. Len(s) /\ i - 1 \in 0 .. Len(s) /\ i \in 0 .. Len(s)
        BY <1>2, <3>2
      <4> QED
        BY <1>1, <1>2, <1>4, <4>1 DEF IsHistory
    <3> QED
      BY <3>1, <3>2
  <2> QED
    BY <1>2, <2>1, <2>2 DEF IsHistory
<1> HIDE DEF longer
<1>6. Fold(S, step, b, Append(s, e)) = longer[Len(s) + 1]
  BY <1>2, <1>3, <1>5, FoldEndsHistory
<1>7. Fold(S, step, b, s) = h[Len(s)]
  BY <1>1, FoldEndsHistory
<1> QED
  BY <1>4, <1>6, <1>7 DEF FoldTakesStep

\* The steps along a first part, then those along the rest.
FoldGoesOn(S, step, b, s, n) ==
  /\ Fold(S, step, b, SubSeq(s, 1, n)) \in S
  /\ Fold(S, step, Fold(S, step, b, SubSeq(s, 1, n)), SubSeq(s, n + 1, Len(s)))
       = Fold(S, step, b, s)

\* The steps can be taken in two parts.
LEMMA FoldSplit ==
  ASSUME NEW S, NEW A, NEW b \in S, NEW s \in Seq(A), NEW n \in 0 .. Len(s),
         NEW step \in [S \X A -> S]
  PROVE  FoldGoesOn(S, step, b, s, n)
<1> DEFINE s1 == SubSeq(s, 1, n)
           s2 == SubSeq(s, n + 1, Len(s))
<1>1. PICK h \in [0 .. Len(s) -> S] : IsHistory(h, step, b, s)
  BY HistoryExists
<1>2. /\ s1 \in Seq(A) /\ Len(s1) = n
      /\ \A i \in 1 .. n : s1[i] = s[i]
  <2>1. \A i \in 1 .. n : s[i] \in A
    OBVIOUS
  <2> QED
    BY <2>1, SubSeqProperties
<1>3. /\ s2 \in Seq(A) /\ Len(s2) = Len(s) - n
      /\ \A i \in 1 .. Len(s) - n : s2[i] = s[n + i]
  <2>1. \A i \in n + 1 .. Len(s) : s[i] \in A
    OBVIOUS
  <2>2. n + 1 \in Nat /\ Len(s) \in Nat /\ n + 1 <= Len(s) + 1
    OBVIOUS
  <2> QED
    BY <2>1, <2>2, SubSeqProperties
<1> DEFINE h1 == [i \in 0 .. n |-> h[i]]
           h2 == [i \in 0 .. Len(s) - n |-> h[n + i]]
<1>4. h1 \in [0 .. Len(s1) -> S] /\ h2 \in [0 .. Len(s2) -> S]
  <2>1. /\ \A i \in 0 .. n : h[i] \in S
        /\ \A i \in 0 .. Len(s) - n : h[n + i] \in S
    BY <1>1
  <2>2. h1 \in [0 .. n -> S] /\ h2 \in [0 .. Len(s) - n -> S]
    BY <2>1
  <2> HIDE DEF h1, h2, s1, s2
  <2> QED
    BY <1>2, <1>3, <2>2
<1> HIDE DEF s1, s2
<1>5. IsHistory(h1, step, b, s1)
  BY <1>1, <1>2 DEF IsHistory
<1>6. IsHistory(h2, step, h[n], s2)
  <2>1. h2[0] = h[n]
    OBVIOUS
  <2>2. ASSUME NEW i \in 1 .. Len(s2) PROVE h2[i] = step[<<h2[i - 1], s2[i]>>]
    <3>1. i \in 1 .. Len(s) - n /\ n + i \in 1 .. Len(s) /\ (n + i) - 1 = n + (i - 1)
      BY <1>3
    <3>2. h2[i] = h[n + i] /\ h2[i - 1] = h[(n + i) - 1]
      BY <3>1
    <3>3. h[n + i] = step[<<h[(n + i) - 1], s[n + i]>>]
      BY <1>1, <3>1 DEF IsHistory
    <3> QED
      BY <1>3, <3>1, <3>2, <3>3
  <2> QED
    BY <2>1, <2>2 DEF IsHistory
<1>7. h1[n] = h[n] /\ h2[Len(s) - n] = h[Len(s)] /\ h[n] \in S
  OBVIOUS
<1> HIDE DEF h1, h2
<1>8. Fold(S, step, b, s1) = h[n]
  BY <1>2, <1>4, <1>5, <1>7, FoldEndsHistory
<1>9. Fold(S, step, h[n], s2) = h[Len(s)]
  <2>1. ASSUME NEW c \in S, IsHistory(h2, step, c, s2)
        PROVE  Fold(S, step, c, s2) = h2[Len(s2)]
    <3>1. s2 \in Seq(A) /\ h2 \in [0 .. Len(s2) -> S]
      BY <1>3, <1>4
    <3> QED
      BY <2>1, <3>1, FoldEndsHistory
  <2>2. Fold(S, step, h[n], s2) = h2[Len(s2)]
    BY <1>6, <1>7, <2>1
  <2> QED
    BY <1>3, <1>7, <2>2
<1>10. Fold(S, step, b, s) = h[Len(s)]
  BY <1>1, FoldEndsHistory
<1> QED
  BY <1>7, <1>8, <1>9, <1>10 DEF s1, s2, FoldGoesOn

\* Steps along elements that change nothing change nothing.
LEMMA FoldUnchanged ==
  ASSUME NEW S, NEW A, NEW b \in S, NEW s \in Seq(A), NEW step \in [S \X A -> S],
         \A i \in 1 .. Len(s), v \in S : step[<<v, s[i]>>] = v
  PROVE  Fold(S, step, b, s) = b
<1> DEFINE h == [i \in 0 .. Len(s) |-> b]
<1>1. h \in [0 .. Len(s) -> S] /\ Len(s) \in Nat
  OBVIOUS
<1>2. h[0] = b /\ h[Len(s)] = b
  BY <1>1
<1>3. ASSUME NEW i \in 1 .. Len(s) PROVE h[i] = step[<<h[i - 1], s[i]>>]
  OBVIOUS
<1>4. IsHistory(h, step, b, s)
  BY <1>2, <1>3 DEF IsHistory
<1> HIDE DEF h
<1> QED
  BY <1>1, <1>2, <1>4, FoldEndsHistory

------------------------------------------------------------------------------
(* What lines do to a box is such a fold.                                   *)

PsuStep == [p \in PsuBoxes \X Lines |-> PsuBoxApplies(p[1], p[2])]
ServoStep == [p \in ServoBoxes \X Lines |-> ServoBoxApplies(p[1], p[2])]
MotorStep == [p \in MotorBoxes \X Lines |-> MotorBoxApplies(p[1], p[2])]

\* The larger and the smaller of two numbers.
LEMMA MaxMinOfTwo ==
  ASSUME NEW i \in Int, NEW j \in Int
  PROVE  /\ Max({i, j}) = IF i >= j THEN i ELSE j
         /\ Min({i, j}) = IF i =< j THEN i ELSE j
<1>1. PICK m \in {i, j} : \A y \in {i, j} : m >= y
  OBVIOUS
<1>2. Max({i, j}) \in {i, j} /\ \A y \in {i, j} : Max({i, j}) >= y
  BY <1>1 DEF Max
<1>3. PICK k \in {i, j} : \A y \in {i, j} : k =< y
  OBVIOUS
<1>4. Min({i, j}) \in {i, j} /\ \A y \in {i, j} : Min({i, j}) =< y
  BY <1>3 DEF Min
<1> QED
  BY <1>2, <1>4

\* What is selected of a motor's box is shown, or is the test button.
SelectionShown(box) ==
  box.selected < WidgetCount(box) \/ box.selected = TestButton

\* The selection is brought back among the widgets that are shown.
LEMMA WithinWidgetsKeepsType ==
  ASSUME NEW box \in MotorBoxes
  PROVE  /\ WidgetCount(box) \in {0, 1, 4}
         /\ WithinWidgets(box) \in MotorBoxes
         /\ WithinWidgets(box).driverEnabled = box.driverEnabled
         /\ SelectionShown(WithinWidgets(box))
<1> DEFINE low == Min({box.selected, WidgetCount(box) - 1})
           at == Max({0, low})
<1>1. box.selected \in 0 .. 3 /\ box.driverEnabled \in BOOLEAN /\ box.testEnabled \in BOOLEAN
  BY DEF MotorBoxes, TestButton, MoveButton
<1>2. WidgetCount(box) \in {0, 1, 4}
  BY <1>1 DEF WidgetCount
<1>3. low = IF box.selected =< WidgetCount(box) - 1 THEN box.selected
            ELSE WidgetCount(box) - 1
  <2>1. box.selected \in Int /\ WidgetCount(box) - 1 \in Int
    BY <1>1, <1>2
  <2> QED
    BY <2>1, MaxMinOfTwo
<1>4. at = IF 0 >= low THEN 0 ELSE low
  BY <1>1, <1>2, <1>3, MaxMinOfTwo
<1>5. at \in 0 .. 3 /\ (at < WidgetCount(box) \/ at = 0)
  BY <1>1, <1>2, <1>3, <1>4
<1>6. WithinWidgets(box) = [box EXCEPT !.selected = at]
  BY DEF WithinWidgets
<1> HIDE DEF at
<1>7. WithinWidgets(box) \in MotorBoxes
  BY <1>5, <1>6 DEF MotorBoxes, TestButton, MoveButton
<1>8. /\ WithinWidgets(box).driverEnabled = box.driverEnabled
      /\ WithinWidgets(box).testEnabled = box.testEnabled
      /\ WithinWidgets(box).selected = at
  BY <1>6 DEF MotorBoxes
<1>9. WidgetCount(WithinWidgets(box)) = WidgetCount(box)
  BY <1>8 DEF WidgetCount
<1> QED
  BY <1>2, <1>5, <1>7, <1>8, <1>9 DEF SelectionShown, TestButton

\* A line leaves the supply's box a box.
LEMMA PsuLineKeepsType ==
  /\ PsuStep \in [PsuBoxes \X Lines -> PsuBoxes]
  /\ \A box \in PsuBoxes, l \in Lines :
       /\ PsuBoxApplies(box, l) \in PsuBoxes
       /\ PsuStep[<<box, l>>] = PsuBoxApplies(box, l)
<1>1. \A box \in PsuBoxes, l \in Lines : PsuBoxApplies(box, l) \in PsuBoxes
  BY DEF PsuBoxApplies, PsuBoxes, Lines, AvrLines, EspLines, Text
<1> QED
  BY <1>1 DEF PsuStep

\* Lines fold over the supply's box.
LEMMA PsuAfterIsFold ==
  ASSUME NEW box \in PsuBoxes, NEW lines \in Seq(Lines)
  PROVE  After(PsuBoxApplies, box, lines) = Fold(PsuBoxes, PsuStep, box, lines)
<1>1. PICK h \in [0 .. Len(lines) -> PsuBoxes] : IsHistory(h, PsuStep, box, lines)
  BY PsuLineKeepsType, HistoryExists
<1>2. h[0] = box
  BY <1>1 DEF IsHistory
<1>3. ASSUME NEW n \in 1 .. Len(lines)
      PROVE  h[n] = PsuBoxApplies(h[n - 1], lines[n])
  <2>1. h[n - 1] \in PsuBoxes /\ lines[n] \in Lines
    OBVIOUS
  <2> QED
    BY <1>1, <2>1, PsuLineKeepsType DEF IsHistory
<1> DEFINE Step(a) == [n \in 0 .. Len(lines) |->
                         IF n = 0 THEN box ELSE PsuBoxApplies(a[n - 1], lines[n])]
           a == CHOOSE a : a = Step(a)
           T == {n \in 0 .. Len(lines) : a[n] = h[n]}
<1>4. h = Step(h)
  BY <1>2, <1>3
<1>5. a = Step(a)
  <2> HIDE DEF Step
  <2> QED
    BY <1>4
<1>6. a[0] = box /\ \A n \in 1 .. Len(lines) : a[n] = PsuBoxApplies(a[n - 1], lines[n])
  <2> HIDE DEF a
  <2> QED
    BY <1>5
<1>7. After(PsuBoxApplies, box, lines) = a[Len(lines)]
  BY DEF After
<1> HIDE DEF a
<1>8. 0 \in T /\ \A n \in 1 .. Len(lines) : n - 1 \in T => n \in T
  BY <1>2, <1>3, <1>6
<1>9. Len(lines) \in 0 .. Len(lines) /\ Len(lines) \in Nat
  OBVIOUS
<1>10. \A n \in 0 .. Len(lines) : n \in T
  <2> HIDE DEF T
  <2> QED
    BY <1>8, <1>9, UpToInduction
<1>11. Fold(PsuBoxes, PsuStep, box, lines) = h[Len(lines)]
  BY <1>1, FoldEndsHistory
<1> QED
  BY <1>7, <1>9, <1>10, <1>11

\* A line leaves the servo's box a box.
LEMMA ServoLineKeepsType ==
  /\ ServoStep \in [ServoBoxes \X Lines -> ServoBoxes]
  /\ \A box \in ServoBoxes, l \in Lines :
       /\ ServoBoxApplies(box, l) \in ServoBoxes
       /\ ServoStep[<<box, l>>] = ServoBoxApplies(box, l)
<1>1. ASSUME NEW box \in ServoBoxes, NEW l \in Lines
      PROVE  ServoBoxApplies(box, l) \in ServoBoxes
  <2>1. CASE l.type # "SERVO"
    BY <2>1 DEF ServoBoxApplies
  <2>2. CASE l.type = "SERVO"
    <3>1. l.position \in 0 .. MaxPosition /\ l.testEnabled \in BOOLEAN
      BY <2>2 DEF Lines, AvrLines, EspLines, Text
    <3>2. Clamped(l.position, 0, MaxPosition) \in 0 .. MaxPosition
      BY <3>1, ElementsAssumption DEF Clamped
    <3> QED
      BY <2>2, <3>1, <3>2 DEF ServoBoxApplies, ServoBoxes
  <2> QED
    BY <2>1, <2>2
<1> QED
  BY <1>1 DEF ServoStep

\* Lines fold over the servo's box.
LEMMA ServoAfterIsFold ==
  ASSUME NEW box \in ServoBoxes, NEW lines \in Seq(Lines)
  PROVE  After(ServoBoxApplies, box, lines) = Fold(ServoBoxes, ServoStep, box, lines)
<1>1. PICK h \in [0 .. Len(lines) -> ServoBoxes] : IsHistory(h, ServoStep, box, lines)
  BY ServoLineKeepsType, HistoryExists
<1>2. h[0] = box
  BY <1>1 DEF IsHistory
<1>3. ASSUME NEW n \in 1 .. Len(lines)
      PROVE  h[n] = ServoBoxApplies(h[n - 1], lines[n])
  <2>1. h[n - 1] \in ServoBoxes /\ lines[n] \in Lines
    OBVIOUS
  <2> QED
    BY <1>1, <2>1, ServoLineKeepsType DEF IsHistory
<1> DEFINE Step(a) == [n \in 0 .. Len(lines) |->
                         IF n = 0 THEN box ELSE ServoBoxApplies(a[n - 1], lines[n])]
           a == CHOOSE a : a = Step(a)
           T == {n \in 0 .. Len(lines) : a[n] = h[n]}
<1>4. h = Step(h)
  BY <1>2, <1>3
<1>5. a = Step(a)
  <2> HIDE DEF Step
  <2> QED
    BY <1>4
<1>6. a[0] = box /\ \A n \in 1 .. Len(lines) : a[n] = ServoBoxApplies(a[n - 1], lines[n])
  <2> HIDE DEF a
  <2> QED
    BY <1>5
<1>7. After(ServoBoxApplies, box, lines) = a[Len(lines)]
  BY DEF After
<1> HIDE DEF a
<1>8. 0 \in T /\ \A n \in 1 .. Len(lines) : n - 1 \in T => n \in T
  BY <1>2, <1>3, <1>6
<1>9. Len(lines) \in 0 .. Len(lines) /\ Len(lines) \in Nat
  OBVIOUS
<1>10. \A n \in 0 .. Len(lines) : n \in T
  <2> HIDE DEF T
  <2> QED
    BY <1>8, <1>9, UpToInduction
<1>11. Fold(ServoBoxes, ServoStep, box, lines) = h[Len(lines)]
  BY <1>1, FoldEndsHistory
<1> QED
  BY <1>7, <1>9, <1>10, <1>11

\* A line leaves a motor's box a box.
LEMMA MotorLineKeepsType ==
  /\ MotorStep \in [MotorBoxes \X Lines -> MotorBoxes]
  /\ \A box \in MotorBoxes, l \in Lines :
       /\ MotorBoxApplies(box, l) \in MotorBoxes
       /\ MotorStep[<<box, l>>] = MotorBoxApplies(box, l)
<1>1. \A box \in MotorBoxes, l \in Lines : MotorBoxApplies(box, l) \in MotorBoxes
  BY WithinWidgetsKeepsType
     DEF MotorBoxApplies, MotorBoxes, Lines, AvrLines, EspLines, Text
<1> QED
  BY <1>1 DEF MotorStep

\* Lines fold over a motor's box.
LEMMA MotorAfterIsFold ==
  ASSUME NEW box \in MotorBoxes, NEW lines \in Seq(Lines)
  PROVE  After(MotorBoxApplies, box, lines) = Fold(MotorBoxes, MotorStep, box, lines)
<1>1. PICK h \in [0 .. Len(lines) -> MotorBoxes] : IsHistory(h, MotorStep, box, lines)
  BY MotorLineKeepsType, HistoryExists
<1>2. h[0] = box
  BY <1>1 DEF IsHistory
<1>3. ASSUME NEW n \in 1 .. Len(lines)
      PROVE  h[n] = MotorBoxApplies(h[n - 1], lines[n])
  <2>1. h[n - 1] \in MotorBoxes /\ lines[n] \in Lines
    OBVIOUS
  <2> QED
    BY <1>1, <2>1, MotorLineKeepsType DEF IsHistory
<1> DEFINE Step(a) == [n \in 0 .. Len(lines) |->
                         IF n = 0 THEN box ELSE MotorBoxApplies(a[n - 1], lines[n])]
           a == CHOOSE a : a = Step(a)
           T == {n \in 0 .. Len(lines) : a[n] = h[n]}
<1>4. h = Step(h)
  BY <1>2, <1>3
<1>5. a = Step(a)
  <2> HIDE DEF Step
  <2> QED
    BY <1>4
<1>6. a[0] = box /\ \A n \in 1 .. Len(lines) : a[n] = MotorBoxApplies(a[n - 1], lines[n])
  <2> HIDE DEF a
  <2> QED
    BY <1>5
<1>7. After(MotorBoxApplies, box, lines) = a[Len(lines)]
  BY DEF After
<1> HIDE DEF a
<1>8. 0 \in T /\ \A n \in 1 .. Len(lines) : n - 1 \in T => n \in T
  BY <1>2, <1>3, <1>6
<1>9. Len(lines) \in 0 .. Len(lines) /\ Len(lines) \in Nat
  OBVIOUS
<1>10. \A n \in 0 .. Len(lines) : n \in T
  <2> HIDE DEF T
  <2> QED
    BY <1>8, <1>9, UpToInduction
<1>11. Fold(MotorBoxes, MotorStep, box, lines) = h[Len(lines)]
  BY <1>1, FoldEndsHistory
<1> QED
  BY <1>7, <1>9, <1>10, <1>11
------------------------------------------------------------------------------
(* Lines one at a time, in parts, and of another device.                    *)

\* Lines of one connection are lines.
LEMMA LinesOfAConnection ==
  /\ Seq(AvrLines) \subseteq Seq(Lines)
  /\ Seq(EspLines) \subseteq Seq(Lines)
  /\ \A l \in AvrLines : l \in Lines /\ l.type # "SERVO"
  /\ \A l \in EspLines : l \in Lines /\ l.type # "PSU" /\ l.type # "MOTOR"
<1>1. AvrLines \subseteq Lines /\ EspLines \subseteq Lines
  BY DEF Lines
<1>2. Seq(AvrLines) \subseteq Seq(Lines) /\ Seq(EspLines) \subseteq Seq(Lines)
  BY <1>1
<1>3. \A l \in AvrLines : l.type # "SERVO"
  BY DEF AvrLines, Text
<1>4. \A l \in EspLines : l.type # "PSU" /\ l.type # "MOTOR"
  BY DEF EspLines, Text
<1> QED
  BY <1>1, <1>2, <1>3, <1>4

\* Lines leave the supply's box a box; they can be applied one at a time or in two
\* parts, and lines of other kinds change nothing.
LEMMA PsuAfterLines ==
  ASSUME NEW box \in PsuBoxes, NEW lines \in Seq(Lines)
  PROVE  /\ After(PsuBoxApplies, box, lines) \in PsuBoxes
         /\ \A l \in Lines :
              After(PsuBoxApplies, box, Append(lines, l))
                = PsuBoxApplies(After(PsuBoxApplies, box, lines), l)
         /\ \A n \in 0 .. Len(lines) :
              After(PsuBoxApplies, After(PsuBoxApplies, box, SubSeq(lines, 1, n)),
                    SubSeq(lines, n + 1, Len(lines)))
                = After(PsuBoxApplies, box, lines)
         /\ (\A i \in 1 .. Len(lines) : lines[i].type # "PSU")
              => After(PsuBoxApplies, box, lines) = box
<1> DEFINE Folded(b, s) == Fold(PsuBoxes, PsuStep, b, s)
<1>0. PsuStep \in [PsuBoxes \X Lines -> PsuBoxes]
  BY PsuLineKeepsType
<1>1. \A b \in PsuBoxes, s \in Seq(Lines) : After(PsuBoxApplies, b, s) = Folded(b, s)
  BY PsuAfterIsFold
<1>2. Folded(box, lines) \in PsuBoxes
  BY <1>0, FoldKeepsType
<1>3. ASSUME NEW l \in Lines
      PROVE  After(PsuBoxApplies, box, Append(lines, l))
               = PsuBoxApplies(After(PsuBoxApplies, box, lines), l)
  <2>1. Append(lines, l) \in Seq(Lines)
    OBVIOUS
  <2>2. FoldTakesStep(PsuBoxes, PsuStep, box, lines, l)
    BY <1>0, FoldAppend
  <2> QED
    BY <1>1, <1>2, <2>1, <2>2, PsuLineKeepsType DEF FoldTakesStep
<1>4. ASSUME NEW n \in 0 .. Len(lines)
      PROVE  After(PsuBoxApplies, After(PsuBoxApplies, box, SubSeq(lines, 1, n)),
                   SubSeq(lines, n + 1, Len(lines)))
               = After(PsuBoxApplies, box, lines)
  <2>1. SubSeq(lines, 1, n) \in Seq(Lines) /\ SubSeq(lines, n + 1, Len(lines)) \in Seq(Lines)
    <3>1. \A i \in 1 .. n : lines[i] \in Lines
      OBVIOUS
    <3>2. \A i \in n + 1 .. Len(lines) : lines[i] \in Lines
      OBVIOUS
    <3> QED
      BY <3>1, <3>2, SubSeqProperties
  <2>2. FoldGoesOn(PsuBoxes, PsuStep, box, lines, n)
    BY <1>0, FoldSplit
  <2> QED
    BY <1>1, <2>1, <2>2 DEF FoldGoesOn
<1>5. ASSUME \A i \in 1 .. Len(lines) : lines[i].type # "PSU"
      PROVE  After(PsuBoxApplies, box, lines) = box
  <2>1. ASSUME NEW i \in 1 .. Len(lines), NEW b \in PsuBoxes
        PROVE  PsuStep[<<b, lines[i]>>] = b
    <3>1. lines[i] \in Lines /\ lines[i].type # "PSU"
      BY <1>5
    <3>2. PsuBoxApplies(b, lines[i]) = b
      BY <3>1 DEF PsuBoxApplies
    <3> QED
      BY <3>1, <3>2, PsuLineKeepsType
  <2>2. Folded(box, lines) = box
    BY <2>1, PsuLineKeepsType, FoldUnchanged
  <2> QED
    BY <1>1, <2>2
<1> QED
  BY <1>1, <1>2, <1>3, <1>4, <1>5

\* The same of the servo's box.
LEMMA ServoAfterLines ==
  ASSUME NEW box \in ServoBoxes, NEW lines \in Seq(Lines)
  PROVE  /\ After(ServoBoxApplies, box, lines) \in ServoBoxes
         /\ \A l \in Lines :
              After(ServoBoxApplies, box, Append(lines, l))
                = ServoBoxApplies(After(ServoBoxApplies, box, lines), l)
         /\ \A n \in 0 .. Len(lines) :
              After(ServoBoxApplies, After(ServoBoxApplies, box, SubSeq(lines, 1, n)),
                    SubSeq(lines, n + 1, Len(lines)))
                = After(ServoBoxApplies, box, lines)
         /\ (\A i \in 1 .. Len(lines) : lines[i].type # "SERVO")
              => After(ServoBoxApplies, box, lines) = box
<1> DEFINE Folded(b, s) == Fold(ServoBoxes, ServoStep, b, s)
<1>0. ServoStep \in [ServoBoxes \X Lines -> ServoBoxes]
  BY ServoLineKeepsType
<1>1. \A b \in ServoBoxes, s \in Seq(Lines) : After(ServoBoxApplies, b, s) = Folded(b, s)
  BY ServoAfterIsFold
<1>2. Folded(box, lines) \in ServoBoxes
  BY <1>0, FoldKeepsType
<1>3. ASSUME NEW l \in Lines
      PROVE  After(ServoBoxApplies, box, Append(lines, l))
               = ServoBoxApplies(After(ServoBoxApplies, box, lines), l)
  <2>1. Append(lines, l) \in Seq(Lines)
    OBVIOUS
  <2>2. FoldTakesStep(ServoBoxes, ServoStep, box, lines, l)
    BY <1>0, FoldAppend
  <2> QED
    BY <1>1, <1>2, <2>1, <2>2, ServoLineKeepsType DEF FoldTakesStep
<1>4. ASSUME NEW n \in 0 .. Len(lines)
      PROVE  After(ServoBoxApplies, After(ServoBoxApplies, box, SubSeq(lines, 1, n)),
                   SubSeq(lines, n + 1, Len(lines)))
               = After(ServoBoxApplies, box, lines)
  <2>1. SubSeq(lines, 1, n) \in Seq(Lines) /\ SubSeq(lines, n + 1, Len(lines)) \in Seq(Lines)
    <3>1. \A i \in 1 .. n : lines[i] \in Lines
      OBVIOUS
    <3>2. \A i \in n + 1 .. Len(lines) : lines[i] \in Lines
      OBVIOUS
    <3> QED
      BY <3>1, <3>2, SubSeqProperties
  <2>2. FoldGoesOn(ServoBoxes, ServoStep, box, lines, n)
    BY <1>0, FoldSplit
  <2> QED
    BY <1>1, <2>1, <2>2 DEF FoldGoesOn
<1>5. ASSUME \A i \in 1 .. Len(lines) : lines[i].type # "SERVO"
      PROVE  After(ServoBoxApplies, box, lines) = box
  <2>1. ASSUME NEW i \in 1 .. Len(lines), NEW b \in ServoBoxes
        PROVE  ServoStep[<<b, lines[i]>>] = b
    <3>1. lines[i] \in Lines /\ lines[i].type # "SERVO"
      BY <1>5
    <3>2. ServoBoxApplies(b, lines[i]) = b
      BY <3>1 DEF ServoBoxApplies
    <3> QED
      BY <3>1, <3>2, ServoLineKeepsType
  <2>2. Folded(box, lines) = box
    BY <2>1, ServoLineKeepsType, FoldUnchanged
  <2> QED
    BY <1>1, <2>2
<1> QED
  BY <1>1, <1>2, <1>3, <1>4, <1>5

\* What the servo's box shows of the servo after lines depends on what it showed
\* before, and on nothing else of the box.
LEMMA ServoAfterAgrees ==
  ASSUME NEW b \in ServoBoxes, NEW c \in ServoBoxes, NEW lines \in Seq(Lines),
         b.position = c.position, b.testEnabled = c.testEnabled
  PROVE  /\ After(ServoBoxApplies, b, lines).position
              = After(ServoBoxApplies, c, lines).position
         /\ After(ServoBoxApplies, b, lines).testEnabled
              = After(ServoBoxApplies, c, lines).testEnabled
<1>1. PICK h \in [0 .. Len(lines) -> ServoBoxes] : IsHistory(h, ServoStep, b, lines)
  BY ServoLineKeepsType, HistoryExists
<1>2. PICK g \in [0 .. Len(lines) -> ServoBoxes] : IsHistory(g, ServoStep, c, lines)
  BY ServoLineKeepsType, HistoryExists
<1> DEFINE T == {n \in 0 .. Len(lines) : /\ h[n].position = g[n].position
                                         /\ h[n].testEnabled = g[n].testEnabled}
<1>3. 0 \in T
  BY <1>1, <1>2 DEF IsHistory
<1>4. ASSUME NEW n \in 1 .. Len(lines), n - 1 \in T PROVE n \in T
  <2>1. h[n - 1] \in ServoBoxes /\ g[n - 1] \in ServoBoxes /\ lines[n] \in Lines
    OBVIOUS
  <2>2. /\ h[n] = ServoBoxApplies(h[n - 1], lines[n])
        /\ g[n] = ServoBoxApplies(g[n - 1], lines[n])
    BY <1>1, <1>2, <2>1, ServoLineKeepsType DEF IsHistory
  <2>3. h[n - 1].position = g[n - 1].position
        /\ h[n - 1].testEnabled = g[n - 1].testEnabled
    BY <1>4
  <2>4. /\ h[n].position = g[n].position
        /\ h[n].testEnabled = g[n].testEnabled
    BY <2>1, <2>2, <2>3 DEF ServoBoxApplies, ServoBoxes
  <2> QED
    BY <2>4
<1>5. Len(lines) \in Nat
  OBVIOUS
<1>6. \A n \in 0 .. Len(lines) : n \in T
  <2> HIDE DEF T
  <2> QED
    BY <1>3, <1>4, <1>5, UpToInduction
<1>7. /\ After(ServoBoxApplies, b, lines) = h[Len(lines)]
      /\ After(ServoBoxApplies, c, lines) = g[Len(lines)]
  BY <1>1, <1>2, ServoAfterIsFold, FoldEndsHistory
<1> QED
  BY <1>5, <1>6, <1>7

\* Lines leave a motor's box a box.
LEMMA MotorAfterLines ==
  ASSUME NEW box \in MotorBoxes, NEW lines \in Seq(Lines)
  PROVE  After(MotorBoxApplies, box, lines) \in MotorBoxes
<1>1. MotorStep \in [MotorBoxes \X Lines -> MotorBoxes]
  BY MotorLineKeepsType
<1>2. Fold(MotorBoxes, MotorStep, box, lines) \in MotorBoxes
  BY <1>1, FoldKeepsType
<1> QED
  BY <1>2, MotorAfterIsFold

------------------------------------------------------------------------------
(* Keys.                                                                    *)

\* A key on the supply's box: its command, or nothing at all.
LEMMA PsuKeyEffect ==
  ASSUME NEW box \in PsuBoxes, NEW key \in Keys
  PROVE  LET pressed == PsuBoxKey(box, Psu, key)
         IN  /\ pressed.box \in PsuBoxes
             /\ \/ pressed.send = <<>> /\ pressed.box = box
                \/ \E c \in AvrCommands : pressed.send = <<c>>
<1>1. CASE key.type # "space"
  BY <1>1 DEF PsuBoxKey, Consumed
<1>2. CASE key.type = "space"
  <2> DEFINE pressed == [box EXCEPT !.driverEnabled = ~ @]
             c == [type |-> "motordriver", id |-> Psu, on |-> pressed.driverEnabled]
  <2>1. pressed \in PsuBoxes /\ pressed.driverEnabled \in BOOLEAN
    BY DEF PsuBoxes
  <2>2. c \in AvrCommands
    BY <2>1 DEF AvrCommands
  <2>3. PsuBoxKey(box, Psu, key) = [box |-> pressed, send |-> <<c>>]
    BY <1>2 DEF PsuBoxKey, Sending
  <2> HIDE DEF pressed, c
  <2> QED
    BY <2>1, <2>2, <2>3
<1> QED
  BY <1>1, <1>2

\* A key on the servo's box: its command, or what the box shows of the servo
\* stays.
LEMMA ServoKeyEffect ==
  ASSUME NEW box \in ServoBoxes, NEW key \in Keys
  PROVE  LET pressed == ServoBoxKey(box, Servo, key)
         IN  /\ pressed.box \in ServoBoxes
             /\ \/ /\ pressed.send = <<>>
                   /\ pressed.box.position = box.position
                   /\ pressed.box.testEnabled = box.testEnabled
                \/ \E c \in EspCommands : pressed.send = <<c>>
<1> DEFINE pressed == ServoBoxKey(box, Servo, key)
           Goal == /\ pressed.box \in ServoBoxes
                   /\ \/ /\ pressed.send = <<>>
                         /\ pressed.box.position = box.position
                         /\ pressed.box.testEnabled = box.testEnabled
                      \/ \E c \in EspCommands : pressed.send = <<c>>
<1> SUFFICES Goal
  OBVIOUS
<1>0. key.type = "digit" => key.digit \in 0 .. 9
  BY ElementMirrorAssumption DEF Keys, Key, Digit
<1>1. CASE key.type \in {"left", "right"}
  <2>1. PICK at \in {PositionInput, SetButton} :
          pressed = Consumed([box EXCEPT !.selected = at])
    BY <1>1 DEF ServoBoxKey
  <2> HIDE DEF pressed
  <2> QED
    BY <2>1 DEF Consumed, ServoBoxes, PositionInput, SetButton
<1>2. CASE box.selected = PositionInput /\ key.type \in {"erase", "digit"}
  <2>1. pressed = Consumed(PositionKey(box, key))
    BY <1>2 DEF ServoBoxKey
  <2>2. PICK typed : PositionKey(box, key) = [box EXCEPT !.input = typed, !.touched = TRUE]
                     /\ typed \in 0 .. MaxPosition
    <3> DEFINE base == IF box.touched THEN box.input ELSE 0
               typed == IF key.type = "erase" THEN box.input \div 10
                        ELSE IF base < PositionRoom
                          THEN Clamped(base * 10 + key.digit, 0, MaxPosition)
                        ELSE base
    <3>1. box.input \in 0 .. MaxPosition /\ base \in 0 .. MaxPosition
      BY ElementsAssumption DEF ServoBoxes
    <3>2. CASE key.type = "erase"
      <4>1. box.input \div 10 \in 0 .. MaxPosition
        BY <3>1, ElementsAssumption
      <4>2. typed = box.input \div 10
        BY <3>2
      <4> QED
        BY <4>1, <4>2 DEF PositionKey
    <3>3. CASE key.type = "digit"
      <4>1. base * 10 + key.digit \in Int
        BY <1>0, <3>1, <3>3
      <4>2. Clamped(base * 10 + key.digit, 0, MaxPosition) \in 0 .. MaxPosition
        BY <4>1, ElementsAssumption DEF Clamped
      <4>3. typed \in 0 .. MaxPosition
        BY <3>1, <3>3, <4>2
      <4> QED
        BY <4>3 DEF PositionKey
    <3> QED
      BY <1>2, <3>2, <3>3
  <2> HIDE DEF pressed
  <2> QED
    BY <2>1, <2>2 DEF Consumed, ServoBoxes
<1>3. CASE box.selected = SetButton /\ key.type = "space"
  <2> DEFINE c == [type |-> "servo", id |-> Servo, position |-> box.input]
  <2>1. c \in EspCommands
    BY DEF EspCommands, ServoBoxes
  <2>2. pressed = Sending([box EXCEPT !.testEnabled = FALSE], c)
    BY <1>3 DEF ServoBoxKey, PositionInput, SetButton
  <2> HIDE DEF c, pressed
  <2> QED
    BY <2>1, <2>2 DEF Sending, ServoBoxes
<1>4. CASE pressed = Consumed(box)
  <2> HIDE DEF pressed
  <2> QED
    BY <1>4 DEF Consumed
<1> QED
  BY <1>1, <1>2, <1>3, <1>4 DEF ServoBoxKey

\* The text of a number is in range.
LEMMA StepsTextInRange ==
  ASSUME NEW v \in Int
  PROVE  StepsText(v) \in StepsTexts
<1> DEFINE value == IF v = 0 THEN 1 ELSE Clamped(v, - MaxSteps, MaxSteps)
<1>1. value \in - MaxSteps .. MaxSteps
  BY ElementsAssumption DEF Clamped
<1>2. StepsText(v) = [negative |-> value < 0,
                      digits |-> IF value < 0 THEN - value ELSE value]
  BY DEF StepsText
<1> HIDE DEF value
<1>3. (IF value < 0 THEN - value ELSE value) \in 0 .. MaxSteps
  BY <1>1, ElementsAssumption
<1>4. (value < 0) \in BOOLEAN
  OBVIOUS
<1> QED
  BY <1>2, <1>3, <1>4 DEF StepsTexts

\* A key in the field of the steps leaves a number in range.
LEMMA StepsKeyKeepsType ==
  ASSUME NEW box \in MotorBoxes, NEW key \in Keys,
         key.type \in {"erase", "minus", "digit"}
  PROVE  \E typed \in StepsTexts :
           StepsKey(box, key) = [box EXCEPT !.steps = typed, !.stepsTouched = TRUE]
<1> DEFINE old == box.steps
           base == IF box.stepsTouched THEN old ELSE [negative |-> FALSE, digits |-> 0]
           sign == IF base.negative THEN -1 ELSE 1
<1>0. key.type = "digit" => key.digit \in 0 .. 9
  BY ElementMirrorAssumption DEF Keys, Key, Digit
<1>1. old \in StepsTexts /\ base \in StepsTexts
  BY ElementsAssumption DEF MotorBoxes, StepsTexts
<1>2. CASE key.type = "minus"
  <2>1. [base EXCEPT !.negative = ~ @] \in StepsTexts
    BY <1>1 DEF StepsTexts
  <2>2. StepsKey(box, key)
          = [box EXCEPT !.steps = [base EXCEPT !.negative = ~ @], !.stepsTouched = TRUE]
    BY <1>2 DEF StepsKey
  <2> QED
    BY <2>1, <2>2
<1>3. CASE key.type = "digit"
  <2> DEFINE v == sign * (base.digits * 10 + key.digit)
  <2>1. v \in Int
    BY <1>0, <1>1, <1>3 DEF StepsTexts
  <2>2. StepsKey(box, key)
          = [box EXCEPT !.steps = StepsText(v), !.stepsTouched = TRUE]
    BY <1>3 DEF StepsKey
  <2>3. StepsText(v) \in StepsTexts
    <3> HIDE DEF v
    <3> QED
      BY <2>1, StepsTextInRange
  <2> HIDE DEF v
  <2> QED
    BY <2>2, <2>3
<1>4. CASE key.type = "erase"
  <2> DEFINE typed == [negative |-> old.negative /\ old.digits # 0,
                       digits |-> old.digits \div 10]
  <2>1. old.digits \div 10 \in 0 .. MaxSteps
    BY <1>1, ElementsAssumption DEF StepsTexts
  <2>2. (old.negative /\ old.digits # 0) \in BOOLEAN
    BY <1>1 DEF StepsTexts
  <2>3. typed \in StepsTexts
    BY <2>1, <2>2 DEF StepsTexts
  <2>4. StepsKey(box, key) = [box EXCEPT !.steps = typed, !.stepsTouched = TRUE]
    BY <1>4 DEF StepsKey
  <2> QED
    BY <2>3, <2>4
<1> QED
  BY <1>2, <1>3, <1>4

\* A key in the field of the speed leaves a number in range.
LEMMA SpeedKeyKeepsType ==
  ASSUME NEW box \in MotorBoxes, NEW key \in Keys, key.type \in {"erase", "digit"}
  PROVE  \E typed \in 0 .. 10 * SpeedRoom - 1 :
           SpeedKey(box, key) = [box EXCEPT !.speed = typed, !.speedTouched = TRUE]
<1> DEFINE base == IF box.speedTouched THEN box.speed ELSE 0
           typed == IF key.type = "erase" THEN box.speed \div 10
                    ELSE IF base < SpeedRoom THEN Max({1, base * 10 + key.digit})
                    ELSE base
<1>0. key.type = "digit" => key.digit \in 0 .. 9
  BY ElementMirrorAssumption DEF Keys, Key, Digit
<1>1. box.speed \in 0 .. 10 * SpeedRoom - 1 /\ base \in 0 .. 10 * SpeedRoom - 1
  BY ElementsAssumption DEF MotorBoxes
<1>2. SpeedKey(box, key) = [box EXCEPT !.speed = typed, !.speedTouched = TRUE]
  BY DEF SpeedKey
<1>3. CASE key.type = "erase"
  <2>1. box.speed \div 10 \in 0 .. 10 * SpeedRoom - 1
    BY <1>1, ElementsAssumption
  <2> QED
    BY <1>2, <1>3, <2>1
<1>4. CASE key.type = "digit" /\ base < SpeedRoom
  <2> DEFINE longer == base * 10 + key.digit
  <2>1. longer \in Int /\ longer >= 0 /\ longer <= 10 * SpeedRoom - 1
    BY <1>0, <1>1, <1>4, ElementsAssumption
  <2>2. typed = Max({1, longer})
    BY <1>4
  <2> HIDE DEF longer
  <2>3. Max({1, longer}) = IF 1 >= longer THEN 1 ELSE longer
    BY <2>1, MaxMinOfTwo
  <2>4. Max({1, longer}) \in 0 .. 10 * SpeedRoom - 1
    BY <2>1, <2>3, ElementsAssumption
  <2> HIDE DEF typedSince
  <2> QED
    BY <1>2, <2>2, <2>4
<1>5. CASE key.type = "digit" /\ ~ (base < SpeedRoom)
  BY <1>1, <1>2, <1>5
<1> QED
  BY <1>3, <1>4, <1>5

\* A move asks for at least one step and names a speed.
LEMMA MoveIsACommand ==
  ASSUME NEW box \in MotorBoxes, NEW m \in Motors
  PROVE  /\ Move(box, m, StepsValue(box.steps)) \in AvrCommands
         /\ Move(box, m, - StepsValue(box.steps)) \in AvrCommands
<1>1. box.steps \in StepsTexts /\ box.speed \in 0 .. 10 * SpeedRoom - 1
  BY DEF MotorBoxes
<1>2. StepsValue(box.steps) \in (- MaxSteps .. MaxSteps) \ {0}
  BY <1>1, ElementsAssumption DEF StepsValue, StepsTexts
<1>3. - StepsValue(box.steps) \in (- MaxSteps .. MaxSteps) \ {0}
  BY <1>2, ElementsAssumption
<1>4. SpeedValue(box.speed) \in 1 .. 10 * SpeedRoom - 1
  BY <1>1, ElementsAssumption DEF SpeedValue
<1> QED
  BY <1>2, <1>3, <1>4 DEF Move, AvrCommands

\* A key on a motor's box: the driver is as it was believed to be, what is
\* selected is shown, and a command, if any, is a test or a move.
LEMMA MotorKeyEffect ==
  ASSUME NEW box \in MotorBoxes, NEW m \in Motors, NEW key \in Keys
  PROVE  LET pressed == MotorBoxKey(box, m, key)
         IN  /\ pressed.box \in MotorBoxes
             /\ pressed.box.driverEnabled = box.driverEnabled
             /\ SelectionShown(box) => SelectionShown(pressed.box)
             /\ \/ pressed.send = <<>>
                \/ \E c \in AvrCommands : /\ c.type \in {"test", "steps"}
                                          /\ pressed.send = <<c>>
<1> DEFINE pressed == MotorBoxKey(box, m, key)
           Goal == /\ pressed.box \in MotorBoxes
                   /\ pressed.box.driverEnabled = box.driverEnabled
                   /\ SelectionShown(box) => SelectionShown(pressed.box)
                   /\ \/ pressed.send = <<>>
                      \/ \E c \in AvrCommands : /\ c.type \in {"test", "steps"}
                                                /\ pressed.send = <<c>>
<1> SUFFICES Goal
  OBVIOUS
<1>1. CASE ~ box.driverEnabled
  <2>1. pressed = Consumed(box)
    BY <1>1 DEF MotorBoxKey
  <2> HIDE DEF pressed
  <2> QED
    BY <2>1 DEF Consumed
<1>2. CASE box.driverEnabled
  <2> DEFINE shown == WithinWidgets(box)
             count == WidgetCount(shown)
  <2>1. /\ shown \in MotorBoxes /\ shown.driverEnabled = box.driverEnabled
        /\ SelectionShown(shown) /\ count \in {1, 4}
    <3>1. shown \in MotorBoxes /\ shown.driverEnabled = box.driverEnabled
          /\ SelectionShown(shown)
      BY WithinWidgetsKeepsType
    <3>2. count \in {0, 1, 4}
      BY <3>1, WithinWidgetsKeepsType
    <3>3. count # 0
      BY <1>2, <3>1 DEF WidgetCount
    <3> QED
      BY <3>1, <3>2, <3>3
  <2>2. pressed = EnabledMotorBoxKey(shown, m, key)
    BY <1>2 DEF MotorBoxKey
  <2>3. ASSUME NEW b \in MotorBoxes, b.driverEnabled = shown.driverEnabled,
               SelectionShown(b),
               \/ pressed = Consumed(b)
               \/ \E c \in AvrCommands : c.type \in {"test", "steps"}
                                         /\ pressed = Sending(b, c)
        PROVE  Goal
    <3> HIDE DEF pressed, shown
    <3> QED
      BY <2>1, <2>3 DEF Consumed, Sending
  <2> HIDE DEF Goal, pressed, shown
  <2>4. ASSUME NEW at \in TestButton .. MoveButton, at < count \/ at = TestButton,
               pressed = Consumed([shown EXCEPT !.selected = at])
        PROVE  Goal
    <3> DEFINE b == [shown EXCEPT !.selected = at]
    <3>1. b \in MotorBoxes
      BY <2>1 DEF MotorBoxes
    <3>2. /\ b.driverEnabled = shown.driverEnabled /\ b.testEnabled = shown.testEnabled
          /\ b.selected = at
      BY <2>1 DEF MotorBoxes
    <3>3. SelectionShown(b)
      BY <2>4, <3>2 DEF SelectionShown, WidgetCount
    <3> HIDE DEF b
    <3>4. pressed = Consumed(b)
      BY <2>4 DEF b
    <3> QED
      BY <2>3, <3>1, <3>2, <3>3, <3>4
  <2>5. shown.selected \in 0 .. 3
    BY <2>1 DEF MotorBoxes, TestButton, MoveButton
  <2>6. CASE key.type = "left"
    <3>1. pressed = Consumed([shown EXCEPT !.selected = Max({0, shown.selected - 1})])
      BY <2>2, <2>6 DEF EnabledMotorBoxKey
    <3>2. Max({0, shown.selected - 1})
            = IF 0 >= shown.selected - 1 THEN 0 ELSE shown.selected - 1
      BY <2>5, MaxMinOfTwo
    <3> DEFINE at == Max({0, shown.selected - 1})
    <3>3. at \in TestButton .. MoveButton /\ (at < count \/ at = TestButton)
      BY <2>1, <2>5, <3>2 DEF TestButton, MoveButton, SelectionShown
    <3> HIDE DEF at
    <3> QED
      BY <2>4, <3>1, <3>3 DEF at
  <2>7. CASE key.type = "right"
    <3>1. pressed = Consumed([shown EXCEPT !.selected = Min({shown.selected + 1, count - 1})])
      BY <2>2, <2>7 DEF EnabledMotorBoxKey
    <3>2. Min({shown.selected + 1, count - 1})
            = IF shown.selected + 1 =< count - 1 THEN shown.selected + 1 ELSE count - 1
      <4>1. shown.selected + 1 \in Int /\ count - 1 \in Int
        BY <2>1, <2>5
      <4> QED
        BY <4>1, MaxMinOfTwo
    <3> DEFINE at == Min({shown.selected + 1, count - 1})
    <3>3. at \in TestButton .. MoveButton /\ (at < count \/ at = TestButton)
      BY <2>1, <2>5, <3>2 DEF TestButton, MoveButton, SelectionShown
    <3> HIDE DEF at
    <3> QED
      BY <2>4, <3>1, <3>3 DEF at
  <2>8. CASE shown.selected = StepsInput /\ key.type \in {"erase", "minus", "digit"}
    <3>1. pressed = Consumed(StepsKey(shown, key))
      BY <2>2, <2>8
         DEF EnabledMotorBoxKey, TestButton, StepsInput, SpeedInput, MoveButton
    <3>2. PICK typed \in StepsTexts :
            StepsKey(shown, key) = [shown EXCEPT !.steps = typed, !.stepsTouched = TRUE]
      BY <2>1, <2>8, StepsKeyKeepsType
    <3> DEFINE b == [shown EXCEPT !.steps = typed, !.stepsTouched = TRUE]
    <3>3. b \in MotorBoxes
      BY <2>1 DEF MotorBoxes
    <3>4. /\ b.driverEnabled = shown.driverEnabled /\ b.testEnabled = shown.testEnabled
          /\ b.selected = shown.selected
      BY <2>1 DEF MotorBoxes
    <3>5. SelectionShown(b)
      BY <2>1, <3>4 DEF SelectionShown, WidgetCount
    <3> HIDE DEF b
    <3> QED
      BY <2>3, <3>1, <3>2, <3>3, <3>4, <3>5 DEF b
  <2>9. CASE shown.selected = SpeedInput /\ key.type \in {"erase", "digit"}
    <3>1. pressed = Consumed(SpeedKey(shown, key))
      BY <2>2, <2>9
         DEF EnabledMotorBoxKey, TestButton, StepsInput, SpeedInput, MoveButton
    <3>2. PICK typed \in 0 .. 10 * SpeedRoom - 1 :
            SpeedKey(shown, key) = [shown EXCEPT !.speed = typed, !.speedTouched = TRUE]
      BY <2>1, <2>9, SpeedKeyKeepsType
    <3> DEFINE b == [shown EXCEPT !.speed = typed, !.speedTouched = TRUE]
    <3>3. b \in MotorBoxes
      BY <2>1 DEF MotorBoxes
    <3>4. /\ b.driverEnabled = shown.driverEnabled /\ b.testEnabled = shown.testEnabled
          /\ b.selected = shown.selected
      BY <2>1 DEF MotorBoxes
    <3>5. SelectionShown(b)
      BY <2>1, <3>4 DEF SelectionShown, WidgetCount
    <3> HIDE DEF b
    <3> QED
      BY <2>3, <3>1, <3>2, <3>3, <3>4, <3>5 DEF b
  <2>10. CASE shown.selected = TestButton /\ key.type = "space"
    <3> DEFINE b == [shown EXCEPT !.testEnabled = ~ @]
               c == [type |-> "test", id |-> m, on |-> b.testEnabled]
    <3>1. b \in MotorBoxes /\ b.testEnabled \in BOOLEAN
      BY <2>1 DEF MotorBoxes
    <3>2. b.driverEnabled = shown.driverEnabled /\ b.selected = shown.selected
      BY <2>1 DEF MotorBoxes
    <3>3. SelectionShown(b)
      BY <2>10, <3>2 DEF SelectionShown
    <3>4. pressed = Sending(b, c)
      BY <2>2, <2>10
         DEF EnabledMotorBoxKey, TestButton, StepsInput, SpeedInput, MoveButton
    <3>5. c \in AvrCommands /\ c.type = "test"
      BY <3>1 DEF AvrCommands
    <3> HIDE DEF b, c
    <3> QED
      BY <2>3, <3>1, <3>2, <3>3, <3>4, <3>5
  <2>11. CASE /\ shown.selected = MoveButton /\ key.type \in {"space", "erase"}
    <3>1. \E c \in AvrCommands : c.type = "steps" /\ pressed = Sending(shown, c)
      <4>1. \/ pressed = Sending(shown, Move(shown, m, StepsValue(shown.steps)))
            \/ pressed = Sending(shown, Move(shown, m, - StepsValue(shown.steps)))
        BY <2>2, <2>11
           DEF EnabledMotorBoxKey, MoveButton, TestButton, StepsInput, SpeedInput
      <4>2. /\ Move(shown, m, StepsValue(shown.steps)) \in AvrCommands
            /\ Move(shown, m, - StepsValue(shown.steps)) \in AvrCommands
        BY <2>1, MoveIsACommand
      <4>3. /\ Move(shown, m, StepsValue(shown.steps)).type = "steps"
            /\ Move(shown, m, - StepsValue(shown.steps)).type = "steps"
        BY DEF Move
      <4> QED
        BY <4>1, <4>2, <4>3
    <3> QED
      BY <2>1, <2>3, <3>1
  <2>12. CASE pressed = Consumed(shown)
    BY <2>1, <2>3, <2>12
  <2> QED
    BY <2>2, <2>6, <2>7, <2>8, <2>9, <2>10, <2>11, <2>12 DEF EnabledMotorBoxKey
<1> QED
  BY <1>1, <1>2, WithinWidgetsKeepsType DEF MotorBoxes

------------------------------------------------------------------------------
(* Commands on their way.                                                   *)

\* Each command of the type is followed by a request for the status of id.
Followed(commands, type, id) ==
  \A i \in 1 .. Len(commands) : commands[i].type = type =>
    \E j \in i + 1 .. Len(commands) : commands[j] = Status(id)

\* Requests and what is followed by them when commands are added behind others.
LEMMA QueueAppend ==
  ASSUME NEW S, NEW q \in Seq(S), NEW r \in Seq(S), NEW id, NEW type
  PROVE  /\ Requests(q \o r, id) <=> Requests(q, id) \/ Requests(r, id)
         /\ Followed(q, type, id) \/ Requests(r, id)
              => (Followed(r, type, id) => Followed(q \o r, type, id))
<1>1. /\ Len(q) \in Nat /\ Len(r) \in Nat /\ Len(q \o r) = Len(q) + Len(r)
      /\ \A i \in 1 .. Len(q) : (q \o r)[i] = q[i]
      /\ \A i \in 1 .. Len(r) : (q \o r)[Len(q) + i] = r[i]
  BY ConcatProperties
<1> DEFINE all == q \o r
<1> HIDE DEF all
<1>2. \A i \in 1 .. Len(all) : \/ i \in 1 .. Len(q)
                               \/ i - Len(q) \in 1 .. Len(r) /\ i = Len(q) + (i - Len(q))
  BY <1>1 DEF all
<1>3. Requests(all, id) => Requests(q, id) \/ Requests(r, id)
  BY <1>1, <1>2 DEF Requests, all
<1>4. Requests(q, id) => Requests(all, id)
  BY <1>1 DEF Requests, all
<1>5. Requests(r, id) => Requests(all, id)
  <2> SUFFICES ASSUME NEW i \in 1 .. Len(r), r[i] = Status(id)
               PROVE  Requests(all, id)
    BY DEF Requests
  <2>1. Len(q) + i \in 1 .. Len(all) /\ all[Len(q) + i] = Status(id)
    BY <1>1 DEF all
  <2> QED
    BY <2>1 DEF Requests
<1>6. ASSUME Followed(q, type, id) \/ Requests(r, id), Followed(r, type, id),
             NEW i \in 1 .. Len(all), all[i].type = type
      PROVE  \E j \in i + 1 .. Len(all) : all[j] = Status(id)
  <2>1. CASE i \in 1 .. Len(q) /\ Followed(q, type, id)
    <3>1. PICK j \in i + 1 .. Len(q) : q[j] = Status(id)
      BY <1>1, <1>6, <2>1 DEF Followed, all
    <3>2. j \in 1 .. Len(q) /\ j \in i + 1 .. Len(all)
      BY <1>1, <2>1 DEF all
    <3> QED
      BY <1>1, <3>1, <3>2 DEF all
  <2>2. CASE i - Len(q) \in 1 .. Len(r)
    <3>1. all[i] = r[i - Len(q)]
      BY <1>1, <1>2, <2>2 DEF all
    <3>2. PICK j \in (i - Len(q)) + 1 .. Len(r) : r[j] = Status(id)
      BY <1>6, <2>2, <3>1 DEF Followed
    <3>3. j \in 1 .. Len(r) /\ Len(q) + j \in i + 1 .. Len(all)
      BY <1>1, <2>2 DEF all
    <3> QED
      BY <1>1, <3>2, <3>3 DEF all
  <2>3. CASE i \in 1 .. Len(q) /\ Requests(r, id)
    <3>1. PICK j \in 1 .. Len(r) : r[j] = Status(id)
      BY <2>3 DEF Requests
    <3>2. Len(q) + j \in i + 1 .. Len(all)
      BY <1>1, <2>3 DEF all
    <3> QED
      BY <1>1, <3>1, <3>2 DEF all
  <2> QED
    BY <1>2, <1>6, <2>1, <2>2, <2>3
<1>7. Followed(q, type, id) \/ Requests(r, id)
        => (Followed(r, type, id) => Followed(all, type, id))
  BY <1>6 DEF Followed
<1> QED
  BY <1>3, <1>4, <1>5, <1>7 DEF all

\* The same when the first command is taken.
LEMMA QueueTail ==
  ASSUME NEW S, NEW q \in Seq(S), q # <<>>, NEW id, NEW type
  PROVE  /\ Head(q) \in S /\ Tail(q) \in Seq(S)
         /\ Requests(q, id) <=> Head(q) = Status(id) \/ Requests(Tail(q), id)
         /\ Followed(q, type, id) => Followed(Tail(q), type, id)
         /\ Followed(q, type, id) /\ Head(q).type = type => Requests(Tail(q), id)
<1>1. /\ Len(q) \in Nat \ {0} /\ Tail(q) \in Seq(S) /\ Len(Tail(q)) = Len(q) - 1
      /\ \A i \in 1 .. Len(q) - 1 : Tail(q)[i] = q[i + 1]
      /\ Head(q) = q[1] /\ Head(q) \in S
  BY HeadTailProperties, EmptySeq
<1> DEFINE t == Tail(q)
<1> HIDE DEF t
<1>2. ASSUME NEW i \in 2 .. Len(q) PROVE i - 1 \in 1 .. Len(t) /\ t[i - 1] = q[i]
  BY <1>1 DEF t
<1>3. ASSUME NEW i \in 1 .. Len(t) PROVE i + 1 \in 2 .. Len(q) /\ t[i] = q[i + 1]
  BY <1>1 DEF t
<1>4. Requests(q, id) => Head(q) = Status(id) \/ Requests(t, id)
  <2> SUFFICES ASSUME NEW i \in 1 .. Len(q), q[i] = Status(id)
               PROVE  Head(q) = Status(id) \/ Requests(t, id)
    BY DEF Requests
  <2>1. CASE i = 1
    BY <1>1, <2>1
  <2>2. CASE i # 1
    BY <1>1, <1>2, <2>2 DEF Requests
  <2> QED
    BY <2>1, <2>2
<1>5. Head(q) = Status(id) \/ Requests(t, id) => Requests(q, id)
  <2>1. Head(q) = Status(id) => Requests(q, id)
    BY <1>1 DEF Requests
  <2>2. Requests(t, id) => Requests(q, id)
    BY <1>1, <1>3 DEF Requests
  <2> QED
    BY <2>1, <2>2
<1>6. ASSUME Followed(q, type, id), NEW i \in 1 .. Len(q), q[i].type = type
      PROVE  \E j \in i .. Len(t) : t[j] = Status(id)
  <2>1. PICK j \in i + 1 .. Len(q) : q[j] = Status(id)
    BY <1>6 DEF Followed
  <2>2. j \in 2 .. Len(q) /\ j - 1 \in i .. Len(t)
    BY <1>1 DEF t
  <2> QED
    BY <1>2, <2>1, <2>2
<1>7. Followed(q, type, id) => Followed(t, type, id)
  <2> SUFFICES ASSUME Followed(q, type, id),
                      NEW i \in 1 .. Len(t), t[i].type = type
               PROVE  \E j \in i + 1 .. Len(t) : t[j] = Status(id)
    BY DEF Followed
  <2>1. i + 1 \in 1 .. Len(q) /\ q[i + 1].type = type
    BY <1>1, <1>3
  <2> QED
    BY <1>6, <2>1
<1>8. Followed(q, type, id) /\ Head(q).type = type => Requests(t, id)
  <2> SUFFICES ASSUME Followed(q, type, id), Head(q).type = type
               PROVE  Requests(t, id)
    OBVIOUS
  <2>1. \E j \in 1 .. Len(t) : t[j] = Status(id)
    BY <1>1, <1>6
  <2> QED
    BY <2>1 DEF Requests
<1> QED
  BY <1>1, <1>4, <1>5, <1>7, <1>8 DEF t

\* A key sends nothing, or its command and a request.
LEMMA CommandsOfAKey ==
  ASSUME NEW S, NEW pressed, NEW id, Status(id) \in S,
         pressed.send = <<>> \/ \E c \in S : pressed.send = <<c>>
  PROVE  /\ Commands(pressed, id) \in Seq(S)
         /\ pressed.send = <<>> => Commands(pressed, id) = <<>>
         /\ \A c \in S : pressed.send = <<c>>
              => Commands(pressed, id) = <<c, Status(id)>>
<1>1. CASE pressed.send = <<>>
  BY <1>1 DEF Commands
<1>2. ASSUME NEW c \in S, pressed.send = <<c>>
      PROVE  Commands(pressed, id) = <<c, Status(id)>>
  <2>1. pressed.send # <<>>
    BY <1>2
  <2>2. <<c>> \o <<Status(id)>> = <<c, Status(id)>>
    <3> DEFINE p == <<c>> \o <<Status(id)>>
               q == <<c, Status(id)>>
    <3>1. <<c>> \in Seq(S) /\ <<Status(id)>> \in Seq(S) /\ q \in Seq(S)
      OBVIOUS
    <3>2. p \in Seq(S) /\ Len(p) = 2 /\ p[1] = c /\ p[2] = Status(id)
      BY <3>1, ConcatProperties
    <3>3. Len(q) = 2 /\ q[1] = c /\ q[2] = Status(id)
      OBVIOUS
    <3> HIDE DEF p, q
    <3>4. p = q
      BY <3>1, <3>2, <3>3, SeqEqual
    <3> QED
      BY <3>4 DEF p, q
  <2> QED
    BY <1>2, <2>1, <2>2 DEF Commands
<1>3. \A c \in S : <<c, Status(id)>> \in Seq(S)
  OBVIOUS
<1> QED
  BY <1>1, <1>2, <1>3

\* The commands of a key ask for the status and have what they change followed
\* by a request.
LEMMA PairIsFollowed ==
  ASSUME NEW c, NEW id
  PROVE  /\ Requests(<<c, Status(id)>>, id)
         /\ \A type : type # "status" => Followed(<<c, Status(id)>>, type, id)
         /\ \A type : type # "status" /\ c.type # type
              => \A other : Followed(<<c, Status(id)>>, type, other)
<1> DEFINE q == <<c, Status(id)>>
<1>1. Len(q) = 2 /\ q[1] = c /\ q[2] = Status(id)
  OBVIOUS
<1>2. Status(id).type = "status"
  BY DEF Status
<1> HIDE DEF q
<1>3. \A i \in 1 .. Len(q) : i = 1 \/ i = 2
  BY <1>1
<1>4. Requests(q, id)
  BY <1>1 DEF Requests
<1>5. ASSUME NEW type, type # "status" PROVE Followed(q, type, id)
  <2> SUFFICES ASSUME NEW i \in 1 .. Len(q), q[i].type = type
               PROVE  \E j \in i + 1 .. Len(q) : q[j] = Status(id)
    BY DEF Followed
  <2>1. i = 1
    BY <1>1, <1>2, <1>3, <1>5
  <2> QED
    BY <1>1, <2>1
<1>6. \A type : type # "status" /\ c.type # type
        => \A other : Followed(q, type, other)
  BY <1>1, <1>2, <1>3 DEF Followed
<1> QED
  BY <1>4, <1>5, <1>6 DEF q

\* A hardware report asks for the status of every element.
LEMMA ReportAsksForAll ==
  ASSUME NEW type, type # "status"
  PROVE  /\ AvrReportRequests \in Seq(AvrCommands)
         /\ EspReportRequests \in Seq(EspCommands)
         /\ "avr" \in connected => Requests(AvrReportRequests, Psu)
         /\ "esp" \in connected => Requests(EspReportRequests, Servo)
         /\ \A id : Followed(AvrReportRequests, type, id)
         /\ \A id : Followed(EspReportRequests, type, id)
<1> DEFINE AvrPart ==
      /\ AvrReportRequests \in Seq(AvrCommands)
      /\ "avr" \in connected => Requests(AvrReportRequests, Psu)
      /\ \A id : Followed(AvrReportRequests, type, id)
    EspPart ==
      /\ EspReportRequests \in Seq(EspCommands)
      /\ "esp" \in connected => Requests(EspReportRequests, Servo)
      /\ \A id : Followed(EspReportRequests, type, id)
<1>1. MotorCount \in Nat
  BY ElementMirrorAssumption
<1>2. \A id : Status(id).type = "status"
  BY DEF Status
<1>3. ASSUME "avr" \in connected PROVE AvrPart
  <2> DEFINE r == [i \in 1 .. MotorCount + 1 |-> Status(i - 1)]
  <2>1. AvrReportRequests = r
    BY <1>3 DEF AvrReportRequests, For
  <2>2. ASSUME NEW i \in 1 .. MotorCount + 1
        PROVE  Status(i - 1) \in AvrCommands
    <3>1. i - 1 \in Motors \cup {Psu}
      BY <1>1 DEF Motors, Psu
    <3> QED
      BY <3>1 DEF Status, AvrCommands
  <2>3. r \in [1 .. MotorCount + 1 -> AvrCommands]
    BY <2>2
  <2>4. r \in Seq(AvrCommands) /\ Len(r) = MotorCount + 1
    <3> HIDE DEF r
    <3> QED
      BY <1>1, <2>3, SeqDef, LenProperties
  <2>5. r[MotorCount + 1] = Status(Psu)
    BY <1>1 DEF Psu
  <2>6. \A i \in 1 .. MotorCount + 1 : r[i].type = "status"
    BY <1>2
  <2> HIDE DEF r
  <2>7. Requests(r, Psu)
    BY <1>1, <2>4, <2>5 DEF Requests
  <2>8. \A id : Followed(r, type, id)
    BY <2>4, <2>6 DEF Followed
  <2> QED
    BY <2>1, <2>4, <2>7, <2>8
<1>4. ASSUME "avr" \notin connected PROVE AvrPart
  <2>1. AvrReportRequests = <<>>
    BY <1>4 DEF AvrReportRequests, For
  <2>2. \A id : Followed(<<>>, type, id)
    BY DEF Followed
  <2> QED
    BY <1>4, <2>1, <2>2
<1>5. ASSUME "esp" \in connected PROVE EspPart
  <2>1. EspReportRequests = <<Status(Servo)>>
    BY <1>5 DEF EspReportRequests, For
  <2>2. Status(Servo) \in EspCommands
    BY DEF Status, EspCommands
  <2> DEFINE r == <<Status(Servo)>>
  <2>3. r \in Seq(EspCommands) /\ Len(r) = 1 /\ r[1] = Status(Servo)
    BY <2>2
  <2> HIDE DEF r
  <2>4. Requests(r, Servo)
    BY <2>3 DEF Requests
  <2>5. \A id : Followed(r, type, id)
    BY <1>2, <2>3 DEF Followed
  <2> QED
    BY <2>1, <2>3, <2>4, <2>5 DEF r
<1>6. ASSUME "esp" \notin connected PROVE EspPart
  <2>1. EspReportRequests = <<>>
    BY <1>6 DEF EspReportRequests, For
  <2>2. \A id : Followed(<<>>, type, id)
    BY DEF Followed
  <2> QED
    BY <1>6, <2>1, <2>2
<1> QED
  BY <1>3, <1>4, <1>5, <1>6

\* A hardware report sends commands that the firmwares know.
LEMMA ReportSendsCommands ==
  AvrReportRequests \in Seq(AvrCommands) /\ EspReportRequests \in Seq(EspCommands)
<1>1. PICK type : type # "status"
  <2>1. "steps" # "status"
    OBVIOUS
  <2> QED
    BY <2>1
<1> QED
  BY <1>1, ReportAsksForAll

\* What keys and reports send, and what is typed, are commands; a typed line
\* goes to each device that is there.
LEMMA CommandsOnTheirWay ==
  /\ AvrCommands \subseteq ToAvr /\ EspCommands \subseteq ToEsp
  /\ Seq(AvrCommands) \subseteq Seq(ToAvr) /\ Seq(EspCommands) \subseteq Seq(ToEsp)
  /\ \A line \in TypedLines :
       /\ For("avr", <<line>>) \in Seq(ToAvr)
       /\ For("esp", <<line>>) \in Seq(ToEsp)
<1>1. AvrCommands \subseteq ToAvr /\ EspCommands \subseteq ToEsp
  BY DEF ToAvr, ToEsp
<1>2. Seq(AvrCommands) \subseteq Seq(ToAvr) /\ Seq(EspCommands) \subseteq Seq(ToEsp)
  BY <1>1
<1>3. ASSUME NEW line \in TypedLines
      PROVE  /\ For("avr", <<line>>) \in Seq(ToAvr)
             /\ For("esp", <<line>>) \in Seq(ToEsp)
  <2>1. line \in ToAvr /\ line \in ToEsp
    BY DEF ToAvr, ToEsp
  <2>2. <<line>> \in Seq(ToAvr) /\ <<>> \in Seq(ToAvr)
    BY <2>1
  <2>3. <<line>> \in Seq(ToEsp) /\ <<>> \in Seq(ToEsp)
    BY <2>1
  <2> QED
    BY <2>2, <2>3 DEF For
<1> QED
  BY <1>1, <1>2, <1>3

\* One command, or none, of another type changes nothing of that type.
LEMMA OneCommandIsFollowed ==
  ASSUME NEW device, NEW line, NEW type, line.type # type, NEW id
  PROVE  Followed(For(device, <<line>>), type, id)
<1> DEFINE one == <<line>>
           none == <<>>
<1>1. Len(one) = 1 /\ one[1] = line /\ Len(none) = 0
  OBVIOUS
<1>2. For(device, <<line>>) = one \/ For(device, <<line>>) = none
  BY DEF For
<1> HIDE DEF one, none
<1> QED
  BY <1>1, <1>2 DEF Followed

------------------------------------------------------------------------------
(* Types.                                                                   *)

\* New boxes are boxes, with nothing hidden selected.
LEMMA NewBoxes ==
  /\ NewPsuBox \in PsuBoxes
  /\ NewMotorBox \in MotorBoxes /\ SelectionShown(NewMotorBox)
  /\ NewServoBox \in ServoBoxes
  /\ NewMotorBox.driverEnabled = MotorsActuallyEnabled(NewPsuBox)
<1>1. NewPsuBox \in PsuBoxes /\ NewServoBox \in ServoBoxes
  BY ElementsAssumption
     DEF NewPsuBox, PsuBoxes, NewServoBox, ServoBoxes, PositionInput, SetButton
<1>2. [negative |-> FALSE, digits |-> 1] \in StepsTexts
  BY ElementsAssumption DEF StepsTexts
<1>3. FirstSpeed \in 0 .. 10 * SpeedRoom - 1
  BY ElementsAssumption
<1>4. NewMotorBox \in MotorBoxes
  BY <1>2, <1>3 DEF NewMotorBox, MotorBoxes, TestButton, MoveButton
<1> QED
  BY <1>1, <1>4
     DEF SelectionShown, NewMotorBox, TestButton, MotorsActuallyEnabled, NewPsuBox

\* Lines that have arrived leave boxes, with what is selected shown and the
\* motors' boxes informed about their drivers.
LEMMA LinesApplied ==
  ASSUME TypeOK, NEW lines \in Seq(Lines), ApplyToAll(lines)
  PROVE  /\ psuBox' \in PsuBoxes
         /\ motorBox' \in [Motors -> MotorBoxes]
         /\ servoBox' \in ServoBoxes
         /\ \A m \in Motors :
              /\ SelectionShown(motorBox'[m])
              /\ motorBox'[m].driverEnabled = MotorsActuallyEnabled(psuBox')
<1>1. psuBox' \in PsuBoxes
  BY PsuAfterLines DEF TypeOK, ApplyToAll
<1>2. servoBox' \in ServoBoxes
  BY ServoAfterLines DEF TypeOK, ApplyToAll
<1>3. MotorsActuallyEnabled(psuBox') \in BOOLEAN
  BY <1>1 DEF MotorsActuallyEnabled, PsuBoxes
<1>4. ASSUME NEW m \in Motors
      PROVE  /\ motorBox'[m] \in MotorBoxes
             /\ SelectionShown(motorBox'[m])
             /\ motorBox'[m].driverEnabled = MotorsActuallyEnabled(psuBox')
  <2> DEFINE after == After(MotorBoxApplies, motorBox[m], lines)
             told == [after EXCEPT !.driverEnabled = MotorsActuallyEnabled(psuBox')]
  <2>1. after \in MotorBoxes
    BY MotorAfterLines DEF TypeOK
  <2>2. motorBox'[m] = WithinWidgets(told)
    BY DEF ApplyToAll, SetMotorDriverEnabled
  <2> HIDE DEF after
  <2>3. told \in MotorBoxes /\ told.driverEnabled = MotorsActuallyEnabled(psuBox')
    BY <1>3, <2>1 DEF MotorBoxes
  <2> HIDE DEF told
  <2> QED
    BY <2>2, <2>3, WithinWidgetsKeepsType
<1>5. motorBox' = [m \in Motors |-> motorBox'[m]]
  BY DEF ApplyToAll
<1>6. motorBox' \in [Motors -> MotorBoxes]
  BY <1>4, <1>5
<1> QED
  BY <1>1, <1>2, <1>4, <1>6

\* What an event leaves of the lines are lines.
LEMMA RestOfLines ==
  ASSUME NEW S, NEW q \in Seq(S), NEW n \in 1 .. Len(q)
  PROVE  /\ SubSeq(q, 1, n) \in Seq(S) /\ SubSeq(q, n + 1, Len(q)) \in Seq(S)
         /\ \A i \in 1 .. Len(SubSeq(q, 1, n)) : SubSeq(q, 1, n)[i] \in S
<1>1. \A i \in 1 .. n : q[i] \in S
  OBVIOUS
<1>2. \A i \in n + 1 .. Len(q) : q[i] \in S
  OBVIOUS
<1> QED
  BY <1>1, <1>2, SubSeqProperties

\* What the motors' firmware takes out of a command.
LEMMA ArgumentsOfMotorCommands ==
  ASSUME NEW c \in ToAvr
  PROVE  /\ c.type = "status" => c.id \in Ids
         /\ c.type \in {"motordriver", "test"} => c.on \in BOOLEAN
<1>1. CASE c \in [type : {"status"}, id : Motors \cup {Psu}]
  BY <1>1, ElementMirrorAssumption DEF Ids, Motors, Psu
<1>2. CASE c \in [type : {"status", "get"}, id : Ids]
  BY <1>2
<1>3. CASE \/ c \in [type : {"motordriver"}, id : {Psu}, on : BOOLEAN]
           \/ c \in [type : {"test"}, id : Motors, on : BOOLEAN]
           \/ c \in [type : {"test"}, id : Motors \cup {Servo, None}, on : BOOLEAN]
  BY <1>3
<1>4. CASE \/ c \in [type : {"steps"}, id : Motors, n : (- MaxSteps .. MaxSteps) \ {0},
                     speed : 1 .. 10 * SpeedRoom - 1]
           \/ c \in [type : {"servo"}, id : {Servo}, position : 0 .. MaxPosition]
           \/ c = Other
  BY <1>4 DEF Other
<1> QED
  BY <1>1, <1>2, <1>3, <1>4 DEF ToAvr, AvrCommands, TypedLines

\* What the servo's firmware takes out of a command.
LEMMA ArgumentsOfServoCommands ==
  ASSUME NEW c \in ToEsp
  PROVE  /\ c.type = "servo" => c.position \in 0 .. MaxPosition
         /\ c.type = "test" => c.on \in BOOLEAN
<1>1. CASE c \in [type : {"servo"}, id : {Servo}, position : 0 .. MaxPosition]
  BY <1>1
<1>2. CASE c \in [type : {"test"}, id : Motors \cup {Servo, None}, on : BOOLEAN]
  BY <1>2
<1>3. CASE /\ c \notin [type : {"servo"}, id : {Servo}, position : 0 .. MaxPosition]
           /\ c \notin [type : {"test"}, id : Motors \cup {Servo, None}, on : BOOLEAN]
  <2>1. \/ c \in [type : {"status"}, id : {Servo}]
        \/ c \in [type : {"status", "get"}, id : Ids]
        \/ c \in [type : {"motordriver"}, id : {Psu}, on : BOOLEAN]
        \/ c = Other
    BY <1>3 DEF ToEsp, EspCommands, TypedLines
  <2> QED
    BY <2>1 DEF Other
<1> QED
  BY <1>1, <1>2, <1>3

\* An answer is a line.
LEMMA LinesOfAnAnswer ==
  ASSUME TypeOK
  PROVE  /\ Text \in AvrLines /\ Text \in EspLines
         /\ \A on \in BOOLEAN, flags \in SUBSET BOOLEAN : PsuLine(on, flags) \in AvrLines
         /\ \A id : StatusLine(id) \in AvrLines
         /\ [type |-> "SERVO", position |-> position, testEnabled |-> servoTest]
              \in EspLines
<1>1. \A on \in BOOLEAN, flags \in SUBSET BOOLEAN : PsuLine(on, flags) \in AvrLines
  BY DEF AvrLines, PsuLine
<1>2. Text \in AvrLines /\ Text \in EspLines
  BY DEF AvrLines, EspLines
<1>3. ASSUME NEW id PROVE StatusLine(id) \in AvrLines
  <2>1. CASE id \in Motors
    <3>1. test[id] \in BOOLEAN
      BY <2>1 DEF TypeOK
    <3>2. [type |-> "MOTOR", testEnabled |-> test[id], of |-> id] \in AvrLines
      BY <2>1, <3>1 DEF AvrLines
    <3> QED
      BY <2>1, <3>2 DEF StatusLine
  <2>2. CASE id \notin Motors
    BY <1>1, <1>2, <2>2 DEF StatusLine, TypeOK
  <2> QED
    BY <2>1, <2>2
<1>4. [type |-> "SERVO", position |-> position, testEnabled |-> servoTest]
        \in EspLines
  BY DEF TypeOK, EspLines
<1> QED
  BY <1>1, <1>2, <1>3, <1>4

\* The types hold at the start.
LEMMA InitTypeOK ==
  Init => TypeOK /\ SelectedWidgetExists
<1> SUFFICES ASSUME Init PROVE TypeOK /\ SelectedWidgetExists
  OBVIOUS
<1>1. /\ psuBox \in PsuBoxes /\ motorBox \in [Motors -> MotorBoxes]
      /\ servoBox \in ServoBoxes
  BY NewBoxes DEF Init
<1>2. /\ toAvr \in Seq(ToAvr) /\ toEsp \in Seq(ToEsp)
      /\ fromAvr \in Seq(AvrLines) /\ fromEsp \in Seq(EspLines)
  BY ReportSendsCommands, CommandsOnTheirWay DEF Init
<1>3. /\ position \in 0 .. MaxPosition /\ events \in 0 .. MaxEvents
      /\ requested \in Ids \cup {None}
  BY ElementsAssumption, ElementMirrorAssumption DEF Init
<1>4. TypeOK
  BY <1>1, <1>2, <1>3 DEF Init, TypeOK, ToAvr, ToEsp
<1>5. SelectedWidgetExists
  BY NewBoxes DEF Init, SelectedWidgetExists, SelectionShown
<1> QED
  BY <1>4, <1>5

\* No step leaves the types, and none leaves a hidden widget selected.
LEMMA StepKeepsTypes ==
  ASSUME TypeOK, SelectedWidgetExists, [Next]_vars
  PROVE  TypeOK' /\ SelectedWidgetExists'
<1> USE DEF TypeOK, SelectedWidgetExists, boxes, avr, esp, channels, typedSince, ToAvr, ToEsp
<1>0. /\ Status(Psu) \in AvrCommands /\ Status(Servo) \in EspCommands
      /\ \A m \in Motors : Status(m) \in AvrCommands
  BY DEF Status, AvrCommands, EspCommands
<1>1. ASSUME NEW key \in Keys, PsuKey(key) PROVE TypeOK' /\ SelectedWidgetExists'
  <2> DEFINE pressed == PsuBoxKey(psuBox, Psu, key)
  <2>1. pressed.box \in PsuBoxes
        /\ (pressed.send = <<>> \/ \E c \in AvrCommands : pressed.send = <<c>>)
    BY PsuKeyEffect
  <2>2. psuBox' = pressed.box /\ toAvr' = toAvr \o Commands(pressed, Psu)
    BY <1>1 DEF PsuKey, SendAvr
  <2> HIDE DEF pressed
  <2>3. Commands(pressed, Psu) \in Seq(ToAvr)
    BY <1>0, <2>1, CommandsOfAKey, CommandsOnTheirWay
  <2>4. toAvr' \in Seq(ToAvr) /\ psuBox' \in PsuBoxes
    BY <2>1, <2>2, <2>3
  <2>5. events' \in 0 .. MaxEvents /\ psuTyped' \in BOOLEAN
    BY <1>1, ElementMirrorAssumption DEF PsuKey, Press, Event, SendAvr
  <2> QED
    BY <1>1, <2>4, <2>5 DEF PsuKey
<1>2. ASSUME NEW key \in Keys, NEW m \in Motors, MotorKey(m, key)
      PROVE  TypeOK' /\ SelectedWidgetExists'
  <2> DEFINE pressed == MotorBoxKey(motorBox[m], m, key)
  <2>1. /\ pressed.box \in MotorBoxes
        /\ SelectionShown(motorBox[m]) => SelectionShown(pressed.box)
        /\ (pressed.send = <<>> \/ \E c \in AvrCommands : pressed.send = <<c>>)
    BY MotorKeyEffect
  <2>2. motorBox' = [motorBox EXCEPT ![m] = pressed.box]
        /\ toAvr' = toAvr \o Commands(pressed, m)
    BY <1>2 DEF MotorKey, SendAvr
  <2> HIDE DEF pressed
  <2>3. Commands(pressed, m) \in Seq(ToAvr)
    BY <1>0, <2>1, CommandsOfAKey, CommandsOnTheirWay
  <2>4. toAvr' \in Seq(ToAvr) /\ motorBox' \in [Motors -> MotorBoxes]
    BY <2>1, <2>2, <2>3
  <2>5. SelectedWidgetExists'
    BY <2>1, <2>2 DEF SelectionShown
  <2>6. events' \in 0 .. MaxEvents /\ psuTyped' \in BOOLEAN
    BY <1>2, ElementMirrorAssumption DEF MotorKey, Press, Event, SendAvr
  <2> QED
    BY <1>2, <2>4, <2>5, <2>6 DEF MotorKey
<1>3. ASSUME NEW key \in Keys, ServoKey(key) PROVE TypeOK' /\ SelectedWidgetExists'
  <2> DEFINE pressed == ServoBoxKey(servoBox, Servo, key)
  <2>1. pressed.box \in ServoBoxes
        /\ (pressed.send = <<>> \/ \E c \in EspCommands : pressed.send = <<c>>)
    BY ServoKeyEffect
  <2>2. servoBox' = pressed.box /\ toEsp' = toEsp \o Commands(pressed, Servo)
    BY <1>3 DEF ServoKey, SendEsp
  <2> HIDE DEF pressed
  <2>3. Commands(pressed, Servo) \in Seq(ToEsp)
    BY <1>0, <2>1, CommandsOfAKey, CommandsOnTheirWay
  <2>4. toEsp' \in Seq(ToEsp) /\ servoBox' \in ServoBoxes
    BY <2>1, <2>2, <2>3
  <2>5. events' \in 0 .. MaxEvents /\ servoTyped' \in BOOLEAN
    BY <1>3, ElementMirrorAssumption DEF ServoKey, Press, Event, SendEsp
  <2> QED
    BY <1>3, <2>4, <2>5 DEF ServoKey
<1>4. CASE FinishHardwareReport
  <2>1. toAvr' \in Seq(ToAvr) /\ toEsp' \in Seq(ToEsp)
    <3>1. AvrReportRequests \in Seq(ToAvr) /\ EspReportRequests \in Seq(ToEsp)
      BY ReportSendsCommands, CommandsOnTheirWay
    <3> QED
      BY <1>4, <3>1 DEF FinishHardwareReport, SendAvr, SendEsp
  <2>2. events' \in 0 .. MaxEvents /\ psuTyped' \in BOOLEAN /\ servoTyped' \in BOOLEAN
    BY <1>4, ElementMirrorAssumption DEF FinishHardwareReport, Event, SendAvr, SendEsp
  <2>3. /\ psuBox' \in PsuBoxes /\ motorBox' \in [Motors -> MotorBoxes]
        /\ servoBox' \in ServoBoxes
    BY <1>4, NewBoxes DEF FinishHardwareReport
  <2>4. SelectedWidgetExists'
    BY <1>4, NewBoxes DEF FinishHardwareReport, SelectionShown
  <2> QED
    BY <1>4, <2>1, <2>2, <2>3, <2>4 DEF FinishHardwareReport
<1>5. CASE PollPsu
  <2>1. toAvr' \in Seq(ToAvr) /\ psuTyped' \in BOOLEAN
    BY <1>0, <1>5, CommandsOnTheirWay DEF PollPsu, SendAvr
  <2> QED
    BY <1>5, <2>1 DEF PollPsu
<1>6. CASE TakeAvrEvent
  <2>1. PICK n \in 1 .. Len(fromAvr) :
          /\ ApplyToAll(SubSeq(fromAvr, 1, n))
          /\ fromAvr' = SubSeq(fromAvr, n + 1, Len(fromAvr))
          /\ UNCHANGED <<connected, toAvr, toEsp, fromEsp, avr, esp, events, typedSince>>
    BY <1>6 DEF TakeAvrEvent
  <2>2. SubSeq(fromAvr, 1, n) \in Seq(AvrLines) /\ fromAvr' \in Seq(AvrLines)
    BY <2>1, RestOfLines
  <2>3. SubSeq(fromAvr, 1, n) \in Seq(Lines)
    BY <2>2, LinesOfAConnection
  <2>4. /\ psuBox' \in PsuBoxes /\ motorBox' \in [Motors -> MotorBoxes]
        /\ servoBox' \in ServoBoxes /\ \A m \in Motors : SelectionShown(motorBox'[m])
    BY <2>1, <2>3, LinesApplied
  <2> QED
    BY <2>1, <2>2, <2>4 DEF SelectionShown
<1>7. CASE TakeEspEvent
  <2>1. PICK n \in 1 .. Len(fromEsp) :
          /\ ApplyToAll(SubSeq(fromEsp, 1, n))
          /\ fromEsp' = SubSeq(fromEsp, n + 1, Len(fromEsp))
          /\ UNCHANGED <<connected, toAvr, fromAvr, toEsp, avr, esp, events, typedSince>>
    BY <1>7 DEF TakeEspEvent
  <2>2. SubSeq(fromEsp, 1, n) \in Seq(EspLines) /\ fromEsp' \in Seq(EspLines)
    BY <2>1, RestOfLines
  <2>3. SubSeq(fromEsp, 1, n) \in Seq(Lines)
    BY <2>2, LinesOfAConnection
  <2>4. /\ psuBox' \in PsuBoxes /\ motorBox' \in [Motors -> MotorBoxes]
        /\ servoBox' \in ServoBoxes /\ \A m \in Motors : SelectionShown(motorBox'[m])
    BY <2>1, <2>3, LinesApplied
  <2> QED
    BY <2>1, <2>2, <2>4 DEF SelectionShown
<1>8. CASE HandleCommand
  <2>1. /\ toAvr # <<>> /\ toAvr' = Tail(toAvr)
        /\ UNCHANGED <<connected, boxes, toEsp, fromEsp, available, esp, events, typedSince>>
    BY <1>8 DEF HandleCommand, HandleStatus, HandleGet, HandleMotorDriver, HandleTest,
                HandleSteps, HandleUnknown, Handle
  <2>2. Head(toAvr) \in ToAvr /\ toAvr' \in Seq(ToAvr)
    BY <2>1, HeadTailProperties
  <2>3. fromAvr' \in Seq(AvrLines)
    <3>1. \/ fromAvr' = fromAvr \/ fromAvr' = Append(fromAvr, Text)
          \/ \E id : fromAvr' = Append(fromAvr, StatusLine(id))
      BY <1>8
         DEF HandleCommand, HandleStatus, HandleGet, HandleMotorDriver, HandleTest,
             HandleSteps, HandleUnknown, WriteLine
    <3>2. Text \in AvrLines /\ \A id : StatusLine(id) \in AvrLines
      BY LinesOfAnAnswer
    <3>3. \A l \in AvrLines : Append(fromAvr, l) \in Seq(AvrLines)
      BY AppendProperties
    <3> QED
      BY <3>1, <3>2, <3>3
  <2>4. /\ flag' \in BOOLEAN /\ test' \in [Motors -> BOOLEAN]
        /\ requested' \in Ids \cup {None} /\ unasked' \in BOOLEAN
    <3> DEFINE c == Head(toAvr)
    <3>5. /\ c.type = "status" => c.id \in Ids
          /\ c.type \in {"motordriver", "test"} => c.on \in BOOLEAN
      <4>1. c \in ToAvr
        BY <2>2
      <4> QED
        BY ONLY <4>1, ArgumentsOfMotorCommands
    <3>1. CASE HandleStatus
      BY <3>5, <3>1 DEF HandleStatus
    <3>2. CASE HandleMotorDriver
      BY <3>5, <3>2 DEF HandleMotorDriver
    <3>3. CASE HandleTest
      BY <3>5, <3>3 DEF HandleTest
    <3>4. CASE HandleSteps \/ HandleGet \/ HandleUnknown
      BY <3>4 DEF HandleSteps, HandleGet, HandleUnknown
    <3> QED
      BY <1>8, <3>1, <3>2, <3>3, <3>4 DEF HandleCommand
  <2> QED
    BY <2>1, <2>2, <2>3, <2>4
<1>9. CASE Answer
  <2>1. StatusLine(requested) \in AvrLines
    BY LinesOfAnAnswer
  <2>2. fromAvr' \in Seq(AvrLines)
    BY <1>9, <2>1 DEF Answer, WriteLine
  <2> QED
    BY <1>9, <2>2 DEF Answer
<1>10. CASE SupplyChanges
  <2>1. available' \in BOOLEAN
    BY <1>10 DEF SupplyChanges
  <2>2. fromAvr' \in Seq(AvrLines)
    <3>1. fromAvr' = Append(fromAvr, PsuLine(available', {}))
      BY <1>10 DEF SupplyChanges, WriteLine
    <3>2. PsuLine(available', {}) \in AvrLines
      BY <2>1, LinesOfAnAnswer
    <3> QED
      BY <3>1, <3>2
  <2>3. events' \in 0 .. MaxEvents
    BY <1>10, ElementMirrorAssumption DEF SupplyChanges, Event
  <2> QED
    BY <1>10, <2>1, <2>2, <2>3 DEF SupplyChanges
<1>11. CASE LoseCommand
  <2>1. toAvr' \in Seq(ToAvr)
    BY <1>11, HeadTailProperties DEF LoseCommand
  <2>2. events' \in 0 .. MaxEvents
    BY <1>11, ElementMirrorAssumption DEF LoseCommand, Event
  <2>3. unasked' \in BOOLEAN
    BY <1>11 DEF LoseCommand
  <2> QED
    BY <1>11, <2>1, <2>2, <2>3 DEF LoseCommand
<1>12. CASE HandleServoCommand
  <2>1. /\ toEsp # <<>> /\ toEsp' = Tail(toEsp)
        /\ UNCHANGED <<connected, boxes, toAvr, fromAvr, avr, events, typedSince>>
    BY <1>12 DEF HandleServoCommand, HandleServoStatus, HandleServo, HandleServoTest,
                 HandleServoUnknown, EspAnswers
  <2>2. Head(toEsp) \in ToEsp /\ toEsp' \in Seq(ToEsp)
    BY <2>1, HeadTailProperties
  <2>3. fromEsp' \in Seq(EspLines)
    <3>1. \/ fromEsp' = Append(fromEsp, Text)
          \/ fromEsp' = Append(fromEsp, [type |-> "SERVO", position |-> position,
                                         testEnabled |-> servoTest])
      BY <1>12 DEF HandleServoCommand, HandleServoStatus, HandleServo, HandleServoTest,
                   HandleServoUnknown, EspAnswers
    <3>2. /\ Text \in EspLines
          /\ [type |-> "SERVO", position |-> position, testEnabled |-> servoTest]
               \in EspLines
      BY LinesOfAnAnswer
    <3>3. \A l \in EspLines : Append(fromEsp, l) \in Seq(EspLines)
      BY AppendProperties
    <3> QED
      BY <3>1, <3>2, <3>3
  <2>4. position' \in 0 .. MaxPosition /\ servoTest' \in BOOLEAN
    <3> DEFINE c == Head(toEsp)
    <3>4. /\ c.type = "servo" => c.position \in 0 .. MaxPosition
          /\ c.type = "test" => c.on \in BOOLEAN
      <4>1. c \in ToEsp
        BY <2>2
      <4> QED
        BY ONLY <4>1, ArgumentsOfServoCommands
    <3>1. CASE HandleServo
      BY <3>4, <3>1 DEF HandleServo
    <3>2. CASE HandleServoTest
      BY <3>4, <3>2 DEF HandleServoTest
    <3>3. CASE HandleServoStatus \/ HandleServoUnknown
      BY <3>3 DEF HandleServoStatus, HandleServoUnknown
    <3> QED
      BY <1>12, <3>1, <3>2, <3>3 DEF HandleServoCommand
  <2> QED
    BY <2>1, <2>2, <2>3, <2>4
<1>13. CASE DemoMoves
  BY <1>13 DEF DemoMoves
<1>14. CASE UNCHANGED vars
  BY <1>14 DEF vars
<1>15. ASSUME NEW line \in TypedLines, TypedLine(line) PROVE TypeOK' /\ SelectedWidgetExists'
  <2>1. toAvr' \in Seq(ToAvr) /\ toEsp' \in Seq(ToEsp)
    <3>1. For("avr", <<line>>) \in Seq(ToAvr) /\ For("esp", <<line>>) \in Seq(ToEsp)
      BY CommandsOnTheirWay
    <3> QED
      BY <1>15, <3>1 DEF TypedLine, SendAvr, SendEsp
  <2>2. events' \in 0 .. MaxEvents /\ psuTyped' \in BOOLEAN /\ servoTyped' \in BOOLEAN
    BY <1>15, ElementMirrorAssumption DEF TypedLine, Event, SendAvr, SendEsp
  <2> QED
    BY <1>15, <2>1, <2>2 DEF TypedLine
<1>16. CASE PrintTelemetry
  <2>1. Text \in AvrLines
    BY LinesOfAnAnswer
  <2>2. fromAvr' \in Seq(AvrLines)
    BY <1>16, <2>1 DEF PrintTelemetry, WriteLine
  <2>3. events' \in 0 .. MaxEvents
    BY <1>16, ElementMirrorAssumption DEF PrintTelemetry, Event
  <2> QED
    BY <1>16, <2>2, <2>3 DEF PrintTelemetry
<1> QED
  BY <1>1, <1>2, <1>3, <1>4, <1>5, <1>6, <1>7, <1>8, <1>9, <1>10, <1>11, <1>12,
     <1>13, <1>14, <1>15, <1>16 DEF Next, UserStep

\* The devices stay.
LEMMA SessionKeepsDevices == [Next]_vars => connected' = connected
BY DEF Next, UserStep, HandleCommand, HandleServoCommand, PsuKey, MotorKey, ServoKey,
       TypedLine, FinishHardwareReport, PollPsu, TakeAvrEvent, TakeEspEvent,
       HandleStatus, HandleGet, HandleMotorDriver, HandleTest, HandleSteps,
       HandleUnknown, Handle, Answer, PrintTelemetry, SupplyChanges, LoseCommand,
       HandleServoStatus, HandleServo, HandleServoTest, HandleServoUnknown, EspAnswers,
       DemoMoves, vars

------------------------------------------------------------------------------
(* The supply's box and its device.                                         *)

\* The console will hear of the supply's status, or the last time it asked in
\* vain, or should ask because of what was typed.
PsuAnswerDue == Requests(toAvr, Psu) \/ requested = Psu \/ unasked \/ psuTyped

PsuTruth == [available |-> available, driverEnabled |-> flag]

MotorsKnow ==
  \A m \in Motors : motorBox[m].driverEnabled = MotorsActuallyEnabled(psuBox)

\* A command that changes the driver flag is followed by a request unless it was
\* typed; unless an answer is due, the lines under way make the box show the
\* truth, and the motors' boxes lag behind the supply's only while lines are
\* under way.
PsuInv ==
  "avr" \in connected =>
    /\ psuTyped \/ Followed(toAvr, "motordriver", Psu)
    /\ PsuAnswerDue \/ After(PsuBoxApplies, psuBox, fromAvr) = PsuTruth
    /\ PsuAnswerDue \/ fromAvr # <<>> \/ MotorsKnow

\* What each kind of line of the motors' firmware does to the supply's box.
LEMMA PsuLineEffects ==
  ASSUME NEW box \in PsuBoxes
  PROVE  /\ PsuBoxApplies(box, Text) = box
         /\ \A on \in BOOLEAN : \A m : PsuBoxApplies(box,
              [type |-> "MOTOR", testEnabled |-> on, of |-> m]) = box
         /\ \A on \in BOOLEAN, f \in BOOLEAN :
              PsuBoxApplies(box, PsuLine(on, {f})) = [available |-> on, driverEnabled |-> f]
         /\ \A on \in BOOLEAN :
              PsuBoxApplies(box, PsuLine(on, {}))
                = [available |-> on, driverEnabled |-> box.driverEnabled]
<1>1. PsuBoxApplies(box, Text) = box
  BY DEF PsuBoxApplies, Text
<1>2. ASSUME NEW on \in BOOLEAN, NEW m
      PROVE  PsuBoxApplies(box, [type |-> "MOTOR", testEnabled |-> on, of |-> m]) = box
  BY DEF PsuBoxApplies
<1>3. ASSUME NEW on \in BOOLEAN, NEW f \in BOOLEAN
      PROVE  PsuBoxApplies(box, PsuLine(on, {f})) = [available |-> on, driverEnabled |-> f]
  <2> DEFINE l == PsuLine(on, {f})
  <2>1. l.type = "PSU" /\ l.flag = {f} /\ l.available = on /\ l.flag # {}
    BY DEF PsuLine
  <2>2. (TRUE \in {f}) = f
    <3>1. CASE f = TRUE
      BY <3>1
    <3>2. CASE f = FALSE
      <4>1. (TRUE \in {FALSE}) = FALSE
        OBVIOUS
      <4> QED
        BY <3>2, <4>1
    <3> QED
      BY <3>1, <3>2
  <2> HIDE DEF l
  <2>3. PsuBoxApplies(box, l) = [available |-> l.available, driverEnabled |-> TRUE \in l.flag]
    BY <2>1 DEF PsuBoxApplies
  <2>4. [available |-> l.available, driverEnabled |-> TRUE \in l.flag]
          = [available |-> on, driverEnabled |-> f]
    BY <2>1, <2>2, Zenon
  <2> QED
    BY <2>3, <2>4 DEF l
<1>4. ASSUME NEW on \in BOOLEAN
      PROVE  PsuBoxApplies(box, PsuLine(on, {}))
               = [available |-> on, driverEnabled |-> box.driverEnabled]
  <2> DEFINE l == PsuLine(on, {})
  <2>1. l.type = "PSU" /\ l.flag = {} /\ l.available = on
    BY DEF PsuLine
  <2> HIDE DEF l
  <2>2. PsuBoxApplies(box, l) = [box EXCEPT !.available = l.available]
    BY <2>1 DEF PsuBoxApplies
  <2>3. [box EXCEPT !.available = on] = [available |-> on, driverEnabled |-> box.driverEnabled]
    BY DEF PsuBoxes
  <2> QED
    BY <2>1, <2>2, <2>3 DEF l
<1> QED
  BY <1>1, <1>2, <1>3, <1>4

\* Commands are added behind those under way: if one of them asks for the
\* supply's status, an answer is due; if none does and boxes, lines and device
\* stay, nothing has changed.
LEMMA PsuInvWithMoreCommands ==
  ASSUME TypeOK, PsuInv, "avr" \in connected,
         NEW r \in Seq(ToAvr), NEW changing \in BOOLEAN, SendAvr(r, changing),
         Followed(r, "motordriver", Psu) \/ (changing /\ ~ Requests(r, Psu)),
         UNCHANGED <<requested, unasked>>,
         \/ Requests(r, Psu)
         \/ /\ UNCHANGED <<psuBox, fromAvr, available, flag>>
            /\ MotorsKnow => MotorsKnow'
  PROVE  PsuInv'
<1>1. /\ toAvr \in Seq(ToAvr) /\ toAvr' = toAvr \o r /\ psuTyped \in BOOLEAN
      /\ psuTyped' = ((psuTyped \/ changing) /\ ~ Requests(r, Psu))
      /\ psuTyped \/ Followed(toAvr, "motordriver", Psu)
  BY DEF TypeOK, PsuInv, SendAvr, ToAvr
<1>2. Requests(toAvr', Psu) <=> Requests(toAvr, Psu) \/ Requests(r, Psu)
  BY <1>1, QueueAppend
<1>3. Followed(toAvr, "motordriver", Psu) \/ Requests(r, Psu)
        => (Followed(r, "motordriver", Psu) => Followed(toAvr', "motordriver", Psu))
  BY <1>1, QueueAppend
<1>4. CASE Requests(r, Psu) /\ Followed(r, "motordriver", Psu)
  BY <1>2, <1>3, <1>4 DEF PsuInv, PsuAnswerDue
<1>5. CASE psuTyped'
  <2>1. PsuAnswerDue'
    BY <1>5 DEF PsuAnswerDue
  <2> QED
    BY <1>5, <2>1 DEF PsuInv
<1>6. CASE /\ ~ Requests(r, Psu) /\ ~ psuTyped'
           /\ UNCHANGED <<psuBox, fromAvr, available, flag>> /\ (MotorsKnow => MotorsKnow')
  <2>1. ~ psuTyped /\ ~ changing
    BY <1>1, <1>6
  <2>2. Followed(toAvr', "motordriver", Psu)
    BY <1>1, <1>3, <2>1
  <2>3. PsuAnswerDue => PsuAnswerDue'
    BY <1>2, <2>1 DEF PsuAnswerDue
  <2>4. PsuTruth' = PsuTruth
    BY <1>6 DEF PsuTruth
  <2>5. After(PsuBoxApplies, psuBox, fromAvr)' = After(PsuBoxApplies, psuBox, fromAvr)
    BY <1>6
  <2> QED
    BY <1>6, <2>2, <2>3, <2>4, <2>5 DEF PsuInv
<1> QED
  BY <1>4, <1>5, <1>6

\* The first command has been taken or lost.  If the request that it was is now
\* remembered, or is known to be lost, an answer is due if one was before.
LEMMA PsuDueWithoutFirstCommand ==
  ASSUME TypeOK, PsuInv, "avr" \in connected,
         toAvr # <<>>, toAvr' = Tail(toAvr), psuTyped' = psuTyped
  PROVE  /\ psuTyped' \/ Followed(toAvr', "motordriver", Psu)
         /\ Head(toAvr).type = "motordriver" => PsuAnswerDue'
         /\ Head(toAvr) # Status(Psu) /\ UNCHANGED <<requested, unasked>>
              => (PsuAnswerDue => PsuAnswerDue')
<1>1. /\ toAvr \in Seq(ToAvr)
      /\ psuTyped \/ Followed(toAvr, "motordriver", Psu)
  BY DEF TypeOK, PsuInv, ToAvr
<1>2. Followed(toAvr, "motordriver", Psu) => Followed(Tail(toAvr), "motordriver", Psu)
  BY <1>1, QueueTail
<1>3. Followed(toAvr, "motordriver", Psu) /\ Head(toAvr).type = "motordriver"
        => Requests(Tail(toAvr), Psu)
  BY <1>1, QueueTail
<1>4. Requests(toAvr, Psu) <=> Head(toAvr) = Status(Psu) \/ Requests(Tail(toAvr), Psu)
  BY <1>1, QueueTail
<1> QED
  BY <1>1, <1>2, <1>3, <1>4 DEF PsuAnswerDue

\* A line is added behind those under way.
LEMMA PsuAfterOneMoreLine ==
  ASSUME TypeOK, NEW l \in AvrLines, fromAvr' = Append(fromAvr, l), psuBox' = psuBox
  PROVE  /\ fromAvr' # <<>>
         /\ After(PsuBoxApplies, psuBox, fromAvr) \in PsuBoxes
         /\ After(PsuBoxApplies, psuBox, fromAvr)'
              = PsuBoxApplies(After(PsuBoxApplies, psuBox, fromAvr), l)
<1>1. fromAvr \in Seq(Lines) /\ l \in Lines /\ psuBox \in PsuBoxes
  BY LinesOfAConnection DEF TypeOK
<1>2. fromAvr' # <<>>
  BY <1>1, AppendProperties
<1>3. After(PsuBoxApplies, psuBox, Append(fromAvr, l))
        = PsuBoxApplies(After(PsuBoxApplies, psuBox, fromAvr), l)
  BY <1>1, PsuAfterLines
<1>4. After(PsuBoxApplies, psuBox, fromAvr) \in PsuBoxes
  BY <1>1, PsuAfterLines
<1> QED
  BY <1>2, <1>3, <1>4

\* The firmware's answer makes the supply's box show the truth if it is about
\* the supply, and leaves it alone otherwise.
LEMMA StatusLineOfSupply ==
  ASSUME TypeOK, NEW id, fromAvr' = Append(fromAvr, StatusLine(id)), psuBox' = psuBox
  PROVE  /\ fromAvr' # <<>>
         /\ After(PsuBoxApplies, psuBox, fromAvr)'
              = IF id = Psu THEN PsuTruth ELSE After(PsuBoxApplies, psuBox, fromAvr)
<1> DEFINE l == StatusLine(id)
<1>1. l \in AvrLines
  BY LinesOfAnAnswer
<1>2. ASSUME NEW box \in PsuBoxes
      PROVE  PsuBoxApplies(box, l) = IF id = Psu THEN PsuTruth ELSE box
  <2>1. CASE id \in Motors
    <3>1. id # Psu /\ test[id] \in BOOLEAN
      BY <2>1, ElementMirrorAssumption DEF TypeOK, Motors, Psu
    <3>2. l = [type |-> "MOTOR", testEnabled |-> test[id], of |-> id]
      BY <2>1 DEF StatusLine
    <3> QED
      BY <3>1, <3>2, PsuLineEffects
  <2>2. CASE id = Psu
    <3>1. id \notin Motors
      BY <2>2, ElementMirrorAssumption DEF Motors, Psu
    <3>2. l = PsuLine(available, {flag})
      BY <2>2, <3>1 DEF StatusLine
    <3>3. available \in BOOLEAN /\ flag \in BOOLEAN
      BY DEF TypeOK
    <3>4. PsuBoxApplies(box, l) = [available |-> available, driverEnabled |-> flag]
      BY <3>2, <3>3, PsuLineEffects
    <3> QED
      BY <2>2, <3>4 DEF PsuTruth
  <2>3. CASE id \notin Motors /\ id # Psu
    <3>1. l = Text
      BY <2>3 DEF StatusLine
    <3> QED
      BY <2>3, <3>1, PsuLineEffects
  <2> QED
    BY <2>1, <2>2, <2>3
<1> HIDE DEF l
<1>3. fromAvr' = Append(fromAvr, l)
  BY DEF l
<1> QED
  BY <1>1, <1>2, <1>3, PsuAfterOneMoreLine

\* At the start a request for the supply's status is under way.
LEMMA InitPsuInv == Init => PsuInv
<1> SUFFICES ASSUME Init, "avr" \in connected
             PROVE  /\ Followed(toAvr, "motordriver", Psu)
                    /\ Requests(toAvr, Psu)
  BY DEF PsuInv, PsuAnswerDue
<1>1. "motordriver" # "status"
  OBVIOUS
<1> QED
  BY <1>1, ReportAsksForAll DEF Init

\* No step breaks it.
LEMMA StepKeepsPsuInv ==
  ASSUME TypeOK, TypeOK', PsuInv, [Next]_vars
  PROVE  PsuInv'
<1> SUFFICES ASSUME "avr" \in connected PROVE PsuInv'
  <2>1. connected' = connected
    BY SessionKeepsDevices
  <2> QED
    BY <2>1 DEF PsuInv
<1>0. /\ Status(Psu) \in AvrCommands /\ "motordriver" # "status"
      /\ \A m \in Motors : Status(m) \in AvrCommands /\ m # Psu
  BY ElementMirrorAssumption DEF Status, AvrCommands, Motors, Psu
<1>1. ASSUME NEW key \in Keys, PsuKey(key) PROVE PsuInv'
  <2> DEFINE pressed == PsuBoxKey(psuBox, Psu, key)
             r == Commands(pressed, Psu)
  <2>1. \/ pressed.send = <<>> /\ pressed.box = psuBox
        \/ \E c \in AvrCommands : pressed.send = <<c>>
    BY PsuKeyEffect DEF TypeOK
  <2>2. /\ psuBox' = pressed.box /\ SendAvr(r, FALSE)
        /\ UNCHANGED <<requested, unasked, fromAvr, available, flag, motorBox>>
    BY <1>1 DEF PsuKey, avr
  <2> HIDE DEF pressed
  <2>3. /\ r \in Seq(ToAvr)
        /\ pressed.send = <<>> => r = <<>>
        /\ \A c \in AvrCommands : pressed.send = <<c>> => r = <<c, Status(Psu)>>
    BY <1>0, <2>1, CommandsOfAKey, CommandsOnTheirWay
  <2> HIDE DEF r
  <2>4. CASE pressed.send = <<>> /\ pressed.box = psuBox
    <3>1. Followed(r, "motordriver", Psu)
      BY <2>3, <2>4 DEF Followed
    <3>2. UNCHANGED <<psuBox, fromAvr, available, flag>> /\ (MotorsKnow => MotorsKnow')
      BY <2>2, <2>4 DEF MotorsKnow
    <3> QED
      BY <2>2, <2>3, <3>1, <3>2, PsuInvWithMoreCommands
  <2>5. ASSUME NEW c \in AvrCommands, pressed.send = <<c>> PROVE PsuInv'
    <3>1. r = <<c, Status(Psu)>>
      BY <2>3, <2>5
    <3>2. Followed(r, "motordriver", Psu) /\ Requests(r, Psu)
      BY <1>0, <3>1, PairIsFollowed
    <3> QED
      BY <2>2, <2>3, <3>2, PsuInvWithMoreCommands
  <2> QED
    BY <2>1, <2>4, <2>5
<1>2. ASSUME NEW key \in Keys, NEW m \in Motors, MotorKey(m, key) PROVE PsuInv'
  <2> DEFINE pressed == MotorBoxKey(motorBox[m], m, key)
             r == Commands(pressed, m)
  <2>1. /\ pressed.box.driverEnabled = motorBox[m].driverEnabled
        /\ \/ pressed.send = <<>>
           \/ \E c \in AvrCommands : c.type \in {"test", "steps"} /\ pressed.send = <<c>>
    BY MotorKeyEffect DEF TypeOK
  <2>2. /\ motorBox' = [motorBox EXCEPT ![m] = pressed.box] /\ SendAvr(r, FALSE)
        /\ UNCHANGED <<requested, unasked, fromAvr, available, flag, psuBox>>
    BY <1>2 DEF MotorKey, avr
  <2> HIDE DEF pressed
  <2>3. /\ r \in Seq(ToAvr)
        /\ pressed.send = <<>> => r = <<>>
        /\ \A c \in AvrCommands : pressed.send = <<c>> => r = <<c, Status(m)>>
    <3>1. pressed.send = <<>> \/ \E c \in AvrCommands : pressed.send = <<c>>
      BY <2>1
    <3>2. Status(m) \in AvrCommands
      BY <1>0
    <3> QED
      BY <3>1, <3>2, CommandsOfAKey, CommandsOnTheirWay
  <2> HIDE DEF r
  <2>4. UNCHANGED <<psuBox, fromAvr, available, flag>> /\ (MotorsKnow => MotorsKnow')
    BY <2>1, <2>2 DEF MotorsKnow, TypeOK
  <2>5. Followed(r, "motordriver", Psu)
    <3>1. CASE pressed.send = <<>>
      BY <2>3, <3>1 DEF Followed
    <3>2. ASSUME NEW c \in AvrCommands, c.type \in {"test", "steps"}, pressed.send = <<c>>
          PROVE  Followed(r, "motordriver", Psu)
      <4>1. c.type # "motordriver"
        BY <3>2
      <4>2. r = <<c, Status(m)>>
        BY <2>3, <3>2
      <4> QED
        BY <1>0, <4>1, <4>2, PairIsFollowed
    <3> QED
      BY <2>1, <3>1, <3>2
  <2> QED
    BY <2>2, <2>3, <2>4, <2>5, PsuInvWithMoreCommands
<1>3. ASSUME NEW key \in Keys, ServoKey(key) PROVE PsuInv'
  BY <1>3 DEF ServoKey, PsuInv, PsuAnswerDue, PsuTruth, MotorsKnow, avr
<1>4. CASE FinishHardwareReport
  <2>1. SendAvr(AvrReportRequests, FALSE) /\ UNCHANGED <<requested, unasked>>
    BY <1>4 DEF FinishHardwareReport, avr
  <2>2. /\ AvrReportRequests \in Seq(ToAvr) /\ Requests(AvrReportRequests, Psu)
        /\ Followed(AvrReportRequests, "motordriver", Psu)
    <3>1. PICK type : type = "motordriver"
      OBVIOUS
    <3>2. type # "status"
      BY <3>1
    <3>3. /\ AvrReportRequests \in Seq(AvrCommands) /\ Requests(AvrReportRequests, Psu)
          /\ Followed(AvrReportRequests, type, Psu)
      BY <3>2, ReportAsksForAll
    <3> QED
      BY <3>1, <3>3, CommandsOnTheirWay
  <2> QED
    BY <2>1, <2>2, PsuInvWithMoreCommands
<1>5. CASE PollPsu
  <2> DEFINE r == <<Status(Psu)>>
  <2>1. SendAvr(r, FALSE) /\ UNCHANGED <<requested, unasked>>
    BY <1>5 DEF PollPsu, avr
  <2>2. r \in Seq(ToAvr) /\ Len(r) = 1 /\ r[1] = Status(Psu)
    BY <1>0, CommandsOnTheirWay
  <2> HIDE DEF r
  <2>3. Requests(r, Psu) /\ Followed(r, "motordriver", Psu)
    BY <1>0, <2>2 DEF Requests, Followed, Status
  <2> QED
    BY <2>1, <2>2, <2>3, PsuInvWithMoreCommands
<1>6. CASE TakeAvrEvent
  <2>1. PICK n \in 1 .. Len(fromAvr) :
          /\ ApplyToAll(SubSeq(fromAvr, 1, n))
          /\ fromAvr' = SubSeq(fromAvr, n + 1, Len(fromAvr))
          /\ UNCHANGED <<connected, toAvr, toEsp, fromEsp, avr, esp, events, typedSince>>
    BY <1>6 DEF TakeAvrEvent
  <2>2. /\ fromAvr \in Seq(Lines) /\ SubSeq(fromAvr, 1, n) \in Seq(Lines)
        /\ psuBox \in PsuBoxes /\ n \in 0 .. Len(fromAvr)
    BY LinesOfAConnection, RestOfLines DEF TypeOK
  <2>3. MotorsKnow'
    BY <2>1, <2>2, LinesApplied DEF MotorsKnow
  <2>4. psuBox' = After(PsuBoxApplies, psuBox, SubSeq(fromAvr, 1, n))
    BY <2>1 DEF ApplyToAll
  <2>5. After(PsuBoxApplies, psuBox, fromAvr)' = After(PsuBoxApplies, psuBox, fromAvr)
    <3>1. After(PsuBoxApplies, After(PsuBoxApplies, psuBox, SubSeq(fromAvr, 1, n)),
                SubSeq(fromAvr, n + 1, Len(fromAvr)))
            = After(PsuBoxApplies, psuBox, fromAvr)
      BY <2>2, PsuAfterLines
    <3> QED
      BY <2>1, <2>4, <3>1
  <2> QED
    BY <2>1, <2>3, <2>5 DEF PsuInv, PsuAnswerDue, PsuTruth, avr, typedSince
<1>7. CASE TakeEspEvent
  <2>1. PICK n \in 1 .. Len(fromEsp) :
          /\ ApplyToAll(SubSeq(fromEsp, 1, n))
          /\ UNCHANGED <<connected, toAvr, fromAvr, toEsp, avr, esp, events, typedSince>>
    BY <1>7 DEF TakeEspEvent
  <2> DEFINE lines == SubSeq(fromEsp, 1, n)
  <2>2. /\ lines \in Seq(Lines) /\ psuBox \in PsuBoxes
        /\ \A i \in 1 .. Len(lines) : lines[i].type # "PSU"
    BY LinesOfAConnection, RestOfLines DEF TypeOK
  <2>3. ApplyToAll(lines)
    BY <2>1
  <2> HIDE DEF lines
  <2>4. MotorsKnow'
    BY <2>2, <2>3, LinesApplied DEF MotorsKnow
  <2>5. psuBox' = psuBox
    BY <2>2, <2>3, PsuAfterLines DEF ApplyToAll
  <2> QED
    BY <2>1, <2>4, <2>5 DEF PsuInv, PsuAnswerDue, PsuTruth, avr, typedSince
<1>8. CASE HandleStatus
  <2>1. /\ toAvr # <<>> /\ toAvr' = Tail(toAvr) /\ requested' = Head(toAvr).id
        /\ unasked' = (requested' # Psu /\ (unasked \/ requested = Psu))
        /\ Head(toAvr).type = "status"
        /\ UNCHANGED <<psuBox, motorBox, fromAvr, available, flag, psuTyped>>
    BY <1>8 DEF HandleStatus, Handle, boxes, typedSince
  <2>2. psuTyped' \/ Followed(toAvr', "motordriver", Psu)
    BY <2>1, PsuDueWithoutFirstCommand
  <2>3. PsuAnswerDue => PsuAnswerDue'
    <3>1. CASE requested' = Psu
      BY <3>1 DEF PsuAnswerDue
    <3>2. CASE requested' # Psu
      <4>1. Head(toAvr) # Status(Psu)
        BY <2>1, <3>2 DEF Status
      <4>2. Requests(toAvr, Psu) => Requests(Tail(toAvr), Psu)
        BY <2>1, <4>1, QueueTail DEF TypeOK, ToAvr
      <4> QED
        BY <2>1, <3>2, <4>2 DEF PsuAnswerDue, TypeOK
    <3> QED
      BY <3>1, <3>2
  <2> QED
    BY <2>1, <2>2, <2>3 DEF PsuInv, PsuTruth, MotorsKnow
<1>9. CASE HandleMotorDriver
  <2>1. /\ toAvr # <<>> /\ toAvr' = Tail(toAvr) /\ Head(toAvr).type = "motordriver"
        /\ psuTyped' = psuTyped
    BY <1>9 DEF HandleMotorDriver, Handle, typedSince
  <2>2. (psuTyped' \/ Followed(toAvr', "motordriver", Psu)) /\ PsuAnswerDue'
    BY <2>1, PsuDueWithoutFirstCommand
  <2> QED
    BY <2>2 DEF PsuInv
<1>10. CASE HandleTest \/ HandleSteps \/ HandleUnknown
  <2>1. /\ toAvr # <<>> /\ toAvr' = Tail(toAvr) /\ Head(toAvr).type # "status"
        /\ fromAvr' = Append(fromAvr, Text)
        /\ UNCHANGED <<psuBox, motorBox, available, flag, requested, unasked, psuTyped>>
    BY <1>10 DEF HandleTest, HandleSteps, HandleUnknown, Handle, WriteLine, boxes, typedSince
  <2>2. Head(toAvr) # Status(Psu)
    BY <2>1 DEF Status
  <2>3. /\ psuTyped' \/ Followed(toAvr', "motordriver", Psu)
        /\ PsuAnswerDue => PsuAnswerDue'
    BY <2>1, <2>2, PsuDueWithoutFirstCommand
  <2>4. Text \in AvrLines
    BY LinesOfAnAnswer
  <2>5. fromAvr' # <<>>
        /\ After(PsuBoxApplies, psuBox, fromAvr)' = After(PsuBoxApplies, psuBox, fromAvr)
    BY <2>1, <2>4, PsuAfterOneMoreLine, PsuLineEffects
  <2> QED
    BY <2>1, <2>3, <2>5 DEF PsuInv, PsuTruth
<1>11. CASE Answer
  <2>1. /\ requested # None /\ requested' = None
        /\ UNCHANGED <<psuBox, motorBox, toAvr, available, flag, unasked, psuTyped>>
        /\ fromAvr' = Append(fromAvr, StatusLine(requested))
    BY <1>11 DEF Answer, WriteLine, boxes, typedSince
  <2>2. fromAvr' # <<>>
        /\ After(PsuBoxApplies, psuBox, fromAvr)'
             = IF requested = Psu THEN PsuTruth ELSE After(PsuBoxApplies, psuBox, fromAvr)
    BY <2>1, StatusLineOfSupply
  <2>3. requested # Psu => (PsuAnswerDue => PsuAnswerDue')
    BY <2>1 DEF PsuAnswerDue
  <2> QED
    BY <2>1, <2>2, <2>3 DEF PsuInv, PsuTruth
<1>12. CASE SupplyChanges
  <2>1. /\ UNCHANGED <<psuBox, motorBox, toAvr, flag, requested, unasked, psuTyped>>
        /\ fromAvr' = Append(fromAvr, PsuLine(available', {}))
        /\ available' \in BOOLEAN
    BY <1>12 DEF SupplyChanges, WriteLine, boxes, typedSince
  <2> DEFINE l == PsuLine(available', {})
  <2>2. l \in AvrLines
    BY <2>1, LinesOfAnAnswer
  <2>3. \A box \in PsuBoxes : box.driverEnabled = flag => PsuBoxApplies(box, l) = PsuTruth'
    BY <2>1, PsuLineEffects DEF PsuTruth
  <2> HIDE DEF l
  <2>4. /\ fromAvr' # <<>>
        /\ After(PsuBoxApplies, psuBox, fromAvr) \in PsuBoxes
        /\ After(PsuBoxApplies, psuBox, fromAvr)'
             = PsuBoxApplies(After(PsuBoxApplies, psuBox, fromAvr), l)
    BY <2>1, <2>2, PsuAfterOneMoreLine DEF l
  <2>5. PsuAnswerDue => PsuAnswerDue'
    BY <2>1 DEF PsuAnswerDue
  <2>6. PsuTruth.driverEnabled = flag
    BY DEF PsuTruth
  <2> QED
    BY <2>1, <2>3, <2>4, <2>5, <2>6 DEF PsuInv
<1>13. CASE LoseCommand
  <2>1. /\ toAvr # <<>> /\ toAvr' = Tail(toAvr)
        /\ unasked' = (unasked \/ Head(toAvr) = Status(Psu))
        /\ UNCHANGED <<psuBox, motorBox, fromAvr, available, flag, requested, psuTyped>>
    BY <1>13 DEF LoseCommand, boxes, typedSince
  <2>2. psuTyped' \/ Followed(toAvr', "motordriver", Psu)
    BY <2>1, PsuDueWithoutFirstCommand
  <2>3. PsuAnswerDue => PsuAnswerDue'
    <3>1. Requests(toAvr, Psu) => Head(toAvr) = Status(Psu) \/ Requests(Tail(toAvr), Psu)
      BY <2>1, QueueTail DEF TypeOK, ToAvr
    <3> QED
      BY <2>1, <3>1 DEF PsuAnswerDue
  <2> QED
    BY <2>1, <2>2, <2>3 DEF PsuInv, PsuTruth, MotorsKnow
<1>14. CASE HandleServoCommand \/ DemoMoves \/ UNCHANGED vars
  <2>1. UNCHANGED <<connected, psuBox, motorBox, toAvr, fromAvr, available, flag,
                    requested, unasked, psuTyped>>
    BY <1>14 DEF HandleServoCommand, HandleServoStatus, HandleServo, HandleServoTest,
                 HandleServoUnknown, EspAnswers, DemoMoves, vars, boxes, channels, avr,
                 typedSince
  <2> QED
    BY <2>1 DEF PsuInv, PsuAnswerDue, PsuTruth, MotorsKnow
<1>15. ASSUME NEW line \in TypedLines, TypedLine(line) PROVE PsuInv'
  <2> DEFINE r == For("avr", <<line>>)
             changing == line.type = "motordriver"
  <2>1. /\ SendAvr(r, changing)
        /\ UNCHANGED <<psuBox, motorBox, fromAvr, available, flag, requested, unasked>>
    BY <1>15 DEF TypedLine, boxes, avr
  <2>2. r \in Seq(ToAvr)
    BY CommandsOnTheirWay
  <2>3. Followed(r, "motordriver", Psu) \/ (changing /\ ~ Requests(r, Psu))
    <3>1. CASE changing
      <4> DEFINE one == <<line>>
      <4>1. r = one /\ Len(one) = 1 /\ one[1] = line
        BY DEF For
      <4>2. line # Status(Psu)
        BY <1>0, <3>1 DEF Status
      <4> HIDE DEF one, r
      <4>3. ~ Requests(r, Psu)
        BY <4>1, <4>2 DEF Requests
      <4> QED
        BY <3>1, <4>3
    <3>2. CASE ~ changing
      BY <3>2, OneCommandIsFollowed
    <3> QED
      BY <3>1, <3>2
  <2> HIDE DEF r
  <2>4. changing \in BOOLEAN
    OBVIOUS
  <2> HIDE DEF changing
  <2>5. MotorsKnow => MotorsKnow'
    BY <2>1 DEF MotorsKnow
  <2> QED
    BY <2>1, <2>2, <2>3, <2>4, <2>5, PsuInvWithMoreCommands
<1>16. CASE HandleGet
  <2>1. /\ toAvr # <<>> /\ toAvr' = Tail(toAvr) /\ Head(toAvr).type = "get"
        /\ fromAvr' = Append(fromAvr, StatusLine(Head(toAvr).id))
        /\ UNCHANGED <<psuBox, motorBox, available, flag, requested, unasked, psuTyped>>
    BY <1>16 DEF HandleGet, Handle, WriteLine, boxes, typedSince
  <2>2. Head(toAvr) # Status(Psu)
    BY <2>1 DEF Status
  <2>3. /\ psuTyped' \/ Followed(toAvr', "motordriver", Psu)
        /\ PsuAnswerDue => PsuAnswerDue'
    BY <2>1, <2>2, PsuDueWithoutFirstCommand
  <2>4. /\ fromAvr' # <<>>
        /\ \/ After(PsuBoxApplies, psuBox, fromAvr)' = PsuTruth
           \/ After(PsuBoxApplies, psuBox, fromAvr)' = After(PsuBoxApplies, psuBox, fromAvr)
    BY <2>1, StatusLineOfSupply
  <2> QED
    BY <2>1, <2>3, <2>4 DEF PsuInv, PsuTruth
<1>17. CASE PrintTelemetry
  <2>1. /\ fromAvr' = Append(fromAvr, Text)
        /\ UNCHANGED <<psuBox, motorBox, toAvr, available, flag, requested, unasked,
                       psuTyped>>
    BY <1>17 DEF PrintTelemetry, WriteLine, boxes, avr, typedSince
  <2>2. Text \in AvrLines
    BY LinesOfAnAnswer
  <2>3. fromAvr' # <<>>
        /\ After(PsuBoxApplies, psuBox, fromAvr)' = After(PsuBoxApplies, psuBox, fromAvr)
    BY <2>1, <2>2, PsuAfterOneMoreLine, PsuLineEffects
  <2> QED
    BY <2>1, <2>3 DEF PsuInv, PsuTruth, PsuAnswerDue
<1> QED
  BY <1>1, <1>2, <1>3, <1>4, <1>5, <1>6, <1>7, <1>8, <1>9, <1>10, <1>11, <1>12,
     <1>13, <1>14, <1>15, <1>16, <1>17 DEF Next, UserStep, HandleCommand

------------------------------------------------------------------------------
(* The servo's box and its device.                                          *)

\* The box shows whether the demonstration is on and, unless it is, where the
\* servo is.
ServoShows(box) ==
  /\ box.testEnabled = servoTest
  /\ servoTest \/ box.position = position

\* A command that moves the servo or turns the demonstration on or off is
\* followed by a request unless it was typed, and unless a request is under way,
\* the lines under way make the box show the truth.
ServoInv ==
  "esp" \in connected =>
    /\ \/ servoTyped
       \/ Followed(toEsp, "servo", Servo) /\ Followed(toEsp, "test", Servo)
    /\ \/ servoTyped \/ Requests(toEsp, Servo)
       \/ ServoShows(After(ServoBoxApplies, servoBox, fromEsp))

\* What each kind of line of the servo's firmware does to its box.
LEMMA ServoLineEffects ==
  ASSUME TypeOK, NEW box \in ServoBoxes
  PROVE  /\ ServoBoxApplies(box, Text) = box
         /\ ServoShows(ServoBoxApplies(box,
              [type |-> "SERVO", position |-> position, testEnabled |-> servoTest]))
<1>1. ServoBoxApplies(box, Text) = box
  BY DEF ServoBoxApplies, Text
<1> DEFINE l == [type |-> "SERVO", position |-> position, testEnabled |-> servoTest]
<1>2. l.type = "SERVO" /\ l.position = position /\ l.testEnabled = servoTest
  OBVIOUS
<1> HIDE DEF l
<1>3. ServoBoxApplies(box, l).testEnabled = servoTest
  BY <1>2 DEF ServoBoxApplies, ServoBoxes
<1>4. ServoBoxApplies(box, l).position = position
  <2>1. Clamped(position, 0, MaxPosition) = position
    BY ElementsAssumption DEF TypeOK, Clamped
  <2> QED
    BY <1>2, <2>1 DEF ServoBoxApplies, ServoBoxes
<1>5. ServoShows(ServoBoxApplies(box, l))
  BY <1>3, <1>4 DEF ServoShows
<1> QED
  BY <1>1, <1>5 DEF l

\* A line is added behind those under way.
LEMMA ServoAfterOneMoreLine ==
  ASSUME TypeOK, NEW l \in EspLines, fromEsp' = Append(fromEsp, l), servoBox' = servoBox
  PROVE  /\ After(ServoBoxApplies, servoBox, fromEsp) \in ServoBoxes
         /\ After(ServoBoxApplies, servoBox, fromEsp)'
              = ServoBoxApplies(After(ServoBoxApplies, servoBox, fromEsp), l)
<1>1. fromEsp \in Seq(Lines) /\ l \in Lines /\ servoBox \in ServoBoxes
  BY LinesOfAConnection DEF TypeOK
<1>2. After(ServoBoxApplies, servoBox, Append(fromEsp, l))
        = ServoBoxApplies(After(ServoBoxApplies, servoBox, fromEsp), l)
  BY <1>1, ServoAfterLines
<1>3. After(ServoBoxApplies, servoBox, fromEsp) \in ServoBoxes
  BY <1>1, ServoAfterLines
<1> QED
  BY <1>2, <1>3

\* Commands are added behind those under way: they ask for the servo's status, or
\* box, lines and device stay.
LEMMA ServoInvWithMoreCommands ==
  ASSUME TypeOK, ServoInv, connected' = connected,
         NEW r \in Seq(ToEsp), NEW changing \in BOOLEAN, SendEsp(r, changing),
         "esp" \in connected =>
           \/ Followed(r, "servo", Servo) /\ Followed(r, "test", Servo)
           \/ changing /\ ~ Requests(r, Servo),
         \/ "esp" \in connected => Requests(r, Servo)
         \/ UNCHANGED <<servoBox, fromEsp, position, servoTest>>
  PROVE  ServoInv'
<1> SUFFICES ASSUME "esp" \in connected, ~ servoTyped'
             PROVE  /\ Followed(toEsp', "servo", Servo)
                    /\ Followed(toEsp', "test", Servo)
                    /\ \/ Requests(toEsp', Servo)
                       \/ ServoShows(After(ServoBoxApplies, servoBox, fromEsp))'
  BY DEF ServoInv
<1>1. /\ toEsp \in Seq(ToEsp) /\ toEsp' = toEsp \o r
      /\ servoTyped' = ((servoTyped \/ changing) /\ ~ Requests(r, Servo))
  BY DEF TypeOK, SendEsp, ToEsp
<1>2. Requests(toEsp', Servo) <=> Requests(toEsp, Servo) \/ Requests(r, Servo)
  BY <1>1, QueueAppend
<1>3. /\ Followed(toEsp, "servo", Servo) \/ Requests(r, Servo)
           => (Followed(r, "servo", Servo) => Followed(toEsp', "servo", Servo))
      /\ Followed(toEsp, "test", Servo) \/ Requests(r, Servo)
           => (Followed(r, "test", Servo) => Followed(toEsp', "test", Servo))
  BY <1>1, QueueAppend
<1>4. Followed(r, "servo", Servo) /\ Followed(r, "test", Servo)
  BY <1>1
<1>5. CASE Requests(r, Servo)
  BY <1>2, <1>3, <1>4, <1>5
<1>6. CASE /\ ~ Requests(r, Servo)
           /\ UNCHANGED <<servoBox, fromEsp, position, servoTest>>
  <2>1. ~ servoTyped
    BY <1>1, <1>6
  <2>2. /\ Followed(toEsp, "servo", Servo) /\ Followed(toEsp, "test", Servo)
        /\ \/ Requests(toEsp, Servo)
           \/ ServoShows(After(ServoBoxApplies, servoBox, fromEsp))
    BY <2>1 DEF ServoInv
  <2> QED
    BY <1>2, <1>3, <1>4, <1>6, <2>2 DEF ServoShows
<1> QED
  BY <1>5, <1>6

\* The first command has been taken.
LEMMA ServoWithoutFirstCommand ==
  ASSUME TypeOK, ServoInv, "esp" \in connected,
         toEsp # <<>>, toEsp' = Tail(toEsp), servoTyped' = servoTyped
  PROVE  /\ \/ servoTyped'
            \/ Followed(toEsp', "servo", Servo) /\ Followed(toEsp', "test", Servo)
         /\ Head(toEsp).type \in {"servo", "test"}
              => servoTyped' \/ Requests(toEsp', Servo)
         /\ Head(toEsp) # Status(Servo)
              => (Requests(toEsp, Servo) => Requests(toEsp', Servo))
<1>1. toEsp \in Seq(ToEsp)
  BY DEF TypeOK, ToEsp
<1>2. /\ Followed(toEsp, "servo", Servo) => Followed(Tail(toEsp), "servo", Servo)
      /\ Followed(toEsp, "test", Servo) => Followed(Tail(toEsp), "test", Servo)
  BY <1>1, QueueTail
<1>3. /\ Followed(toEsp, "servo", Servo) /\ Head(toEsp).type = "servo"
           => Requests(Tail(toEsp), Servo)
      /\ Followed(toEsp, "test", Servo) /\ Head(toEsp).type = "test"
           => Requests(Tail(toEsp), Servo)
  BY <1>1, QueueTail
<1>4. Requests(toEsp, Servo) => Head(toEsp) = Status(Servo) \/ Requests(Tail(toEsp), Servo)
  BY <1>1, QueueTail
<1> QED
  BY <1>2, <1>3, <1>4 DEF ServoInv

\* A hardware report asks for the servo's status and changes nothing.
LEMMA ServoReport ==
  /\ EspReportRequests \in Seq(ToEsp)
  /\ "esp" \in connected =>
       /\ Requests(EspReportRequests, Servo)
       /\ Followed(EspReportRequests, "servo", Servo)
       /\ Followed(EspReportRequests, "test", Servo)
<1>1. "servo" # "status" /\ "test" # "status"
  OBVIOUS
<1>2. PICK type : type = "servo"
  OBVIOUS
<1>3. PICK other : other = "test"
  OBVIOUS
<1>4. "esp" \in connected => Requests(EspReportRequests, Servo)
  BY <1>1, <1>2, ReportAsksForAll
<1>5. Followed(EspReportRequests, type, Servo)
  BY <1>1, <1>2, ReportAsksForAll
<1>6. Followed(EspReportRequests, other, Servo)
  BY <1>1, <1>3, ReportAsksForAll
<1> QED
  BY <1>2, <1>3, <1>4, <1>5, <1>6, ReportSendsCommands, CommandsOnTheirWay

\* At the start a request for the servo's status is under way.
LEMMA InitServoInv == Init => ServoInv
<1> SUFFICES ASSUME Init, "esp" \in connected
             PROVE  /\ Followed(toEsp, "servo", Servo) /\ Followed(toEsp, "test", Servo)
                    /\ Requests(toEsp, Servo)
  BY DEF ServoInv
<1> QED
  BY ServoReport DEF Init

\* No step breaks it.
LEMMA StepKeepsServoInv ==
  ASSUME TypeOK, TypeOK', ServoInv, [Next]_vars
  PROVE  ServoInv'
<1>0. connected' = connected
  BY SessionKeepsDevices
<1> DEFINE Shown == After(ServoBoxApplies, servoBox, fromEsp)
<1>1. ASSUME UNCHANGED <<servoBox, toEsp, fromEsp, esp, servoTyped>> PROVE ServoInv'
  BY <1>0, <1>1 DEF ServoInv, ServoShows, esp
<1>2. CASE \/ \E key \in Keys : PsuKey(key) \/ \E m \in Motors : MotorKey(m, key)
           \/ PollPsu \/ HandleCommand \/ Answer \/ PrintTelemetry \/ SupplyChanges
           \/ LoseCommand \/ UNCHANGED vars
  <2>1. UNCHANGED <<servoBox, toEsp, fromEsp, esp, servoTyped>>
    BY <1>2 DEF PsuKey, MotorKey, PollPsu, HandleCommand, HandleStatus, HandleGet,
                HandleMotorDriver, HandleTest, HandleSteps, HandleUnknown, Handle,
                Answer, PrintTelemetry, SupplyChanges, LoseCommand, vars, boxes,
                channels, typedSince
  <2> QED
    BY <1>1, <2>1
<1>3. ASSUME NEW key \in Keys, ServoKey(key) PROVE ServoInv'
  <2> DEFINE pressed == ServoBoxKey(servoBox, Servo, key)
             r == Commands(pressed, Servo)
  <2>1. /\ pressed.box \in ServoBoxes
        /\ \/ /\ pressed.send = <<>>
              /\ pressed.box.position = servoBox.position
              /\ pressed.box.testEnabled = servoBox.testEnabled
           \/ \E c \in EspCommands : pressed.send = <<c>>
    BY ServoKeyEffect DEF TypeOK
  <2>2. /\ servoBox' = pressed.box /\ SendEsp(r, FALSE)
        /\ UNCHANGED <<fromEsp, esp>>
    BY <1>3 DEF ServoKey
  <2> HIDE DEF pressed
  <2>3. /\ r \in Seq(EspCommands) /\ r \in Seq(ToEsp)
        /\ pressed.send = <<>> => r = <<>>
        /\ \A c \in EspCommands : pressed.send = <<c>> => r = <<c, Status(Servo)>>
    <3>1. pressed.send = <<>> \/ \E c \in EspCommands : pressed.send = <<c>>
      BY <2>1
    <3>2. Status(Servo) \in EspCommands
      BY DEF Status, EspCommands
    <3> QED
      BY <3>1, <3>2, CommandsOfAKey, CommandsOnTheirWay
  <2> HIDE DEF r
  <2>4. CASE /\ pressed.send = <<>>
             /\ pressed.box.position = servoBox.position
             /\ pressed.box.testEnabled = servoBox.testEnabled
    <3>1. toEsp' = toEsp /\ servoTyped' = servoTyped
      <4>1. toEsp \in Seq(ToEsp) /\ toEsp' = toEsp \o <<>>
        BY <2>2, <2>3, <2>4 DEF TypeOK, SendEsp, ToEsp
      <4>2. ~ Requests(<<>>, Servo)
        BY DEF Requests
      <4>3. servoTyped' = servoTyped
        BY <2>2, <2>3, <2>4, <4>2 DEF SendEsp, TypeOK
      <4> QED
        BY <4>1, <4>3, ConcatEmptySeq
    <3>2. servoBox \in ServoBoxes /\ servoBox' \in ServoBoxes /\ fromEsp \in Seq(Lines)
      BY LinesOfAConnection DEF TypeOK
    <3>3. /\ servoBox'.position = servoBox.position
          /\ servoBox'.testEnabled = servoBox.testEnabled
      BY <2>2, <2>4
    <3>4. /\ After(ServoBoxApplies, servoBox', fromEsp).position
               = After(ServoBoxApplies, servoBox, fromEsp).position
          /\ After(ServoBoxApplies, servoBox', fromEsp).testEnabled
               = After(ServoBoxApplies, servoBox, fromEsp).testEnabled
      BY <3>2, <3>3, ServoAfterAgrees
    <3> QED
      BY <1>0, <2>2, <3>1, <3>4 DEF ServoInv, ServoShows, esp
  <2>5. ASSUME NEW c \in EspCommands, pressed.send = <<c>> PROVE ServoInv'
    <3>1. r = <<c, Status(Servo)>>
      BY <2>3, <2>5
    <3>2. /\ Requests(r, Servo)
          /\ Followed(r, "servo", Servo) /\ Followed(r, "test", Servo)
      <4>1. "servo" # "status" /\ "test" # "status"
        OBVIOUS
      <4> QED
        BY <3>1, <4>1, PairIsFollowed
    <3> QED
      BY <1>0, <2>2, <2>3, <3>2, ServoInvWithMoreCommands
  <2> QED
    BY <2>1, <2>4, <2>5
<1>4. CASE FinishHardwareReport
  <2>1. SendEsp(EspReportRequests, FALSE)
    BY <1>4 DEF FinishHardwareReport
  <2> QED
    BY <1>0, <2>1, ServoReport, ServoInvWithMoreCommands
<1>5. CASE TakeAvrEvent
  <2>1. PICK n \in 1 .. Len(fromAvr) :
          /\ ApplyToAll(SubSeq(fromAvr, 1, n))
          /\ UNCHANGED <<toEsp, fromEsp, esp, servoTyped>>
    BY <1>5 DEF TakeAvrEvent, typedSince
  <2> DEFINE lines == SubSeq(fromAvr, 1, n)
  <2>2. /\ lines \in Seq(Lines) /\ servoBox \in ServoBoxes
        /\ \A i \in 1 .. Len(lines) : lines[i].type # "SERVO"
    BY LinesOfAConnection, RestOfLines DEF TypeOK
  <2>3. ApplyToAll(lines)
    BY <2>1
  <2> HIDE DEF lines
  <2>4. servoBox' = servoBox
    BY <2>2, <2>3, ServoAfterLines DEF ApplyToAll
  <2> QED
    BY <1>1, <2>1, <2>4
<1>6. CASE TakeEspEvent
  <2>1. PICK n \in 1 .. Len(fromEsp) :
          /\ ApplyToAll(SubSeq(fromEsp, 1, n))
          /\ fromEsp' = SubSeq(fromEsp, n + 1, Len(fromEsp))
          /\ UNCHANGED <<toEsp, esp, servoTyped>>
    BY <1>6 DEF TakeEspEvent, typedSince
  <2>2. /\ fromEsp \in Seq(Lines) /\ servoBox \in ServoBoxes /\ n \in 0 .. Len(fromEsp)
    BY LinesOfAConnection DEF TypeOK
  <2>3. servoBox' = After(ServoBoxApplies, servoBox, SubSeq(fromEsp, 1, n))
    BY <2>1 DEF ApplyToAll
  <2>4. Shown' = Shown
    <3>1. After(ServoBoxApplies, After(ServoBoxApplies, servoBox, SubSeq(fromEsp, 1, n)),
                SubSeq(fromEsp, n + 1, Len(fromEsp)))
            = After(ServoBoxApplies, servoBox, fromEsp)
      BY <2>2, ServoAfterLines
    <3> QED
      BY <2>1, <2>3, <3>1
  <2> HIDE DEF Shown
  <2>5. Shown = After(ServoBoxApplies, servoBox, fromEsp)
        /\ Shown' = After(ServoBoxApplies, servoBox, fromEsp)'
    BY DEF Shown
  <2> QED
    BY <1>0, <2>1, <2>4, <2>5 DEF ServoInv, ServoShows, esp
<1>7. CASE HandleServoStatus
  <2> DEFINE l == [type |-> "SERVO", position |-> position, testEnabled |-> servoTest]
  <2>1. /\ toEsp # <<>> /\ toEsp' = Tail(toEsp) /\ fromEsp' = Append(fromEsp, l)
        /\ UNCHANGED <<servoBox, position, servoTest, servoTyped>>
    BY <1>7 DEF HandleServoStatus, EspAnswers, boxes, esp, typedSince
  <2>2. l \in EspLines /\ \A box \in ServoBoxes : ServoShows(ServoBoxApplies(box, l))
    BY LinesOfAnAnswer, ServoLineEffects
  <2> HIDE DEF l
  <2>3. ServoShows(After(ServoBoxApplies, servoBox, fromEsp)')
    BY <2>1, <2>2, ServoAfterOneMoreLine
  <2>4. "esp" \in connected =>
          \/ servoTyped'
          \/ Followed(toEsp', "servo", Servo) /\ Followed(toEsp', "test", Servo)
    BY <2>1, ServoWithoutFirstCommand
  <2> QED
    BY <1>0, <2>1, <2>3, <2>4 DEF ServoInv, ServoShows
<1>8. CASE HandleServo \/ HandleServoTest
  <2>1. /\ toEsp # <<>> /\ toEsp' = Tail(toEsp) /\ Head(toEsp).type \in {"servo", "test"}
        /\ servoTyped' = servoTyped
    BY <1>8 DEF HandleServo, HandleServoTest, EspAnswers, typedSince
  <2>2. "esp" \in connected =>
          /\ \/ servoTyped'
             \/ Followed(toEsp', "servo", Servo) /\ Followed(toEsp', "test", Servo)
          /\ servoTyped' \/ Requests(toEsp', Servo)
    BY <2>1, ServoWithoutFirstCommand
  <2> QED
    BY <1>0, <2>2 DEF ServoInv
<1>9. CASE DemoMoves
  <2>1. servoTest /\ UNCHANGED <<servoBox, toEsp, fromEsp, servoTest, servoTyped>>
    BY <1>9 DEF DemoMoves, boxes, channels, typedSince
  <2> QED
    BY <1>0, <2>1 DEF ServoInv, ServoShows
<1>10. ASSUME NEW line \in TypedLines, TypedLine(line) PROVE ServoInv'
  <2> DEFINE r == For("esp", <<line>>)
             changing == line.type \in {"servo", "test"}
  <2>1. SendEsp(r, changing) /\ UNCHANGED <<servoBox, fromEsp, position, servoTest>>
    BY <1>10 DEF TypedLine, boxes, esp
  <2>2. r \in Seq(ToEsp)
    BY CommandsOnTheirWay
  <2>3. \/ Followed(r, "servo", Servo) /\ Followed(r, "test", Servo)
        \/ changing /\ ~ Requests(r, Servo)
    <3>1. CASE changing
      <4> DEFINE one == <<line>>
                 none == <<>>
      <4>1. /\ r = one \/ r = none
            /\ Len(one) = 1 /\ one[1] = line /\ Len(none) = 0
        BY DEF For
      <4>2. line # Status(Servo)
        BY <3>1 DEF Status
      <4> HIDE DEF one, none, r
      <4>3. ~ Requests(r, Servo)
        BY <4>1, <4>2 DEF Requests
      <4> QED
        BY <3>1, <4>3
    <3>2. CASE ~ changing
      BY <3>2, OneCommandIsFollowed
    <3> QED
      BY <3>1, <3>2
  <2> HIDE DEF r
  <2>4. changing \in BOOLEAN
    OBVIOUS
  <2> HIDE DEF changing
  <2> QED
    BY <1>0, <2>1, <2>2, <2>3, <2>4, ServoInvWithMoreCommands
<1>11. CASE HandleServoUnknown
  <2>1. /\ toEsp # <<>> /\ toEsp' = Tail(toEsp) /\ fromEsp' = Append(fromEsp, Text)
        /\ UNCHANGED <<servoBox, position, servoTest, servoTyped>>
        /\ Head(toEsp) # Status(Servo)
    BY <1>11 DEF HandleServoUnknown, EspAnswers, boxes, esp, typedSince, Status
  <2>2. Text \in EspLines
    BY LinesOfAnAnswer
  <2>3. After(ServoBoxApplies, servoBox, fromEsp)' = After(ServoBoxApplies, servoBox, fromEsp)
    BY <2>1, <2>2, ServoLineEffects, ServoAfterOneMoreLine
  <2>4. "esp" \in connected =>
          /\ \/ servoTyped'
             \/ Followed(toEsp', "servo", Servo) /\ Followed(toEsp', "test", Servo)
          /\ Requests(toEsp, Servo) => Requests(toEsp', Servo)
    BY <2>1, ServoWithoutFirstCommand
  <2> QED
    BY <1>0, <2>1, <2>3, <2>4 DEF ServoInv, ServoShows
<1> QED
  BY <1>2, <1>3, <1>4, <1>5, <1>6, <1>7, <1>8, <1>9, <1>10, <1>11
     DEF Next, UserStep, HandleServoCommand

------------------------------------------------------------------------------
(* Theorems.                                                                *)

\* Whatever is typed and whatever arrives, the boxes hold what a box can hold,
\* every command sent is one that the firmware executes, and every line is one
\* that it writes.
THEOREM TypeCorrect == Spec => []TypeOK
<1>1. Init => TypeOK /\ SelectedWidgetExists
  BY InitTypeOK
<1>2. TypeOK /\ SelectedWidgetExists /\ [Next]_vars => TypeOK' /\ SelectedWidgetExists'
  BY StepKeepsTypes
<1> QED
  BY <1>1, <1>2, PTL DEF Spec

\* The selected widget of a motor's box is one that the box shows, although
\* lines about the motor and about the supply hide and show widgets while the
\* user is among them.
THEOREM SelectionIsShown == Spec => []SelectedWidgetExists
<1>1. Init => TypeOK /\ SelectedWidgetExists
  BY InitTypeOK
<1>2. TypeOK /\ SelectedWidgetExists /\ [Next]_vars => TypeOK' /\ SelectedWidgetExists'
  BY StepKeepsTypes
<1> QED
  BY <1>1, <1>2, PTL DEF Spec

\* With nothing on its way on the serial line and the newest request for the
\* supply's status not lost, and no "motordriver" typed since, the supply's box
\* shows what the firmware does, and the motors' boxes know whether their drivers
\* are on: for every number of motors, every bound and every order of keys, typed
\* lines, losses, changes and answers.
THEOREM PsuBoxAgrees == Spec => []PsuBoxAgreesAtRest
<1>1. Init => PsuInv
  BY InitPsuInv
<1>2. TypeOK /\ TypeOK' /\ PsuInv /\ [Next]_vars => PsuInv'
  BY StepKeepsPsuInv
<1>3. TypeOK /\ PsuInv => PsuBoxAgreesAtRest
  <2> SUFFICES ASSUME TypeOK, PsuInv, "avr" \in connected,
                      toAvr = <<>>, fromAvr = <<>>, requested = None, ~ unasked,
                      ~ psuTyped
               PROVE  /\ psuBox = [available |-> available, driverEnabled |-> flag]
                      /\ \A m \in Motors :
                           motorBox[m].driverEnabled = (available /\ flag)
    BY DEF PsuBoxAgreesAtRest
  <2>1. ~ PsuAnswerDue
    <3>1. Psu \in Ids /\ None \notin Ids
      BY ElementMirrorAssumption DEF Psu, Ids
    <3>2. None # Psu
      BY <3>1
    <3>3. ~ Requests(toAvr, Psu)
      BY DEF Requests
    <3> QED
      BY <3>2, <3>3 DEF PsuAnswerDue
  <2>2. After(PsuBoxApplies, psuBox, fromAvr) = psuBox
    <3>1. /\ psuBox \in PsuBoxes /\ fromAvr \in Seq(Lines)
          /\ \A i \in 1 .. Len(fromAvr) : fromAvr[i].type # "PSU"
      BY DEF TypeOK
    <3> QED
      BY <3>1, PsuAfterLines
  <2>3. psuBox = PsuTruth /\ MotorsKnow
    BY <2>1, <2>2 DEF PsuInv
  <2>4. MotorsActuallyEnabled(psuBox) = (available /\ flag)
    BY <2>3 DEF MotorsActuallyEnabled, PsuTruth
  <2> QED
    BY <2>3, <2>4 DEF PsuTruth, MotorsKnow
<1> QED
  BY <1>1, <1>2, <1>3, TypeCorrect, PTL DEF Spec

\* With nothing on its way over BLE, and no "servo" or "test" typed since the
\* console last asked for the servo's status, the servo's box shows whether the
\* demonstration is on and, unless it is, where the servo is.
THEOREM ServoBoxAgrees == Spec => []ServoBoxAgreesAtRest
<1>1. Init => ServoInv
  BY InitServoInv
<1>2. TypeOK /\ TypeOK' /\ ServoInv /\ [Next]_vars => ServoInv'
  BY StepKeepsServoInv
<1>3. TypeOK /\ ServoInv => ServoBoxAgreesAtRest
  <2> SUFFICES ASSUME TypeOK, ServoInv, "esp" \in connected,
                      toEsp = <<>>, fromEsp = <<>>, ~ servoTyped
               PROVE  ServoShows(servoBox)
    BY DEF ServoBoxAgreesAtRest, ServoShows
  <2>1. ~ Requests(toEsp, Servo)
    BY DEF Requests
  <2>2. After(ServoBoxApplies, servoBox, fromEsp) = servoBox
    <3>1. /\ servoBox \in ServoBoxes /\ fromEsp \in Seq(Lines)
          /\ \A i \in 1 .. Len(fromEsp) : fromEsp[i].type # "SERVO"
      BY DEF TypeOK
    <3> QED
      BY <3>1, ServoAfterLines
  <2> QED
    BY <2>1, <2>2 DEF ServoInv
<1> QED
  BY <1>1, <1>2, <1>3, TypeCorrect, PTL DEF Spec
==============================================================================
