-------------------------- MODULE CommandInputProofs --------------------------
(****************************************************************************)
(* Theorems about the firmware's input for every capacity of the ring, every*)
(* byte alphabet and every size of the command buffer.  First the receive   *)
(* ring with a reader that does no more than consume: its types, the        *)
(* stability of the slot readChar is reading, and that it implements        *)
(* LossyFifo.  Then host, ring and line editor together: the same with      *)
(* pollCommandInput as the reader, and what it makes of the bytes.          *)
(****************************************************************************)
EXTENDS CommandInput, SequenceTheorems, WellFoundedInduction, TLAPS

------------------------------------------------------------------------------
(* Index arithmetic.                                                        *)

\* The masked increment of the code either adds one or wraps to slot 0.
LEMMA FollowingIsNext ==
  ASSUME NEW i \in Slots
  PROVE  Following(i) = IF i + 1 = Capacity THEN 0 ELSE i + 1
BY RingAssumption DEF Slots, Following

\* The slot of the k-th waiting byte, without the remainder.
Slot(k) == IF tail + k - 1 < Capacity THEN tail + k - 1
                                      ELSE tail + k - 1 - Capacity

\* It is the slot the remainder by Capacity names.
LEMMA SlotIsRemainder ==
  ASSUME tail \in Slots, NEW k \in 1 .. Capacity
  PROVE  (tail + k - 1) % Capacity = Slot(k)
<1>1. CASE tail + k - 1 < Capacity
  BY <1>1, RingAssumption DEF Slots, Slot
<1>2. CASE ~ (tail + k - 1 < Capacity)
  <2> DEFINE r == tail + k - 1 - Capacity
  <2>1. r \in 0 .. Capacity - 1
    BY <1>2, RingAssumption DEF Slots
  <2>2. (r + Capacity) % Capacity = r
    BY <2>1, RingAssumption
  <2>3. QED
    BY <1>2, <2>1, <2>2, RingAssumption DEF Slots, Slot
<1>3. QED
  BY <1>1, <1>2

------------------------------------------------------------------------------
(* Types and the slot being read.                                           *)

\* Every step of the interrupt and of the main program preserves the types.
THEOREM RingTypeCorrect == RingSpec => []RingTypeOK
<1>1. RingInit => RingTypeOK
  BY RingAssumption DEF RingInit, RingTypeOK, Slots
<1>2. RingTypeOK /\ [RingNext]_ringVars => RingTypeOK'
  <2> SUFFICES ASSUME RingTypeOK, [RingNext]_ringVars
               PROVE  RingTypeOK'
    OBVIOUS
  <2>1. Following(head) \in Slots /\ Following(tail) \in Slots
    BY FollowingIsNext, RingAssumption DEF RingTypeOK, Slots
  <2>2. CASE IsReadAvailable
    BY <2>2 DEF IsReadAvailable, RingTypeOK
  <2>3. CASE LoadSlot
    BY <2>3 DEF LoadSlot, RingTypeOK
  <2>4. CASE AdvanceTail
    BY <2>1, <2>4 DEF AdvanceTail, RingTypeOK
  <2>5. CASE Consume
    BY <2>5 DEF Consume, RingTypeOK
  <2>6. ASSUME NEW b \in Bytes, OnReceiveComplete(b)
        PROVE  RingTypeOK'
    BY <2>1, <2>6 DEF OnReceiveComplete, RingTypeOK
  <2>7. CASE UNCHANGED ringVars
    BY <2>7 DEF ringVars, RingTypeOK
  <2>8. QED
    BY <2>2, <2>3, <2>4, <2>5, <2>6, <2>7 DEF RingNext
<1>3. QED
  BY <1>1, <1>2, PTL DEF RingSpec

\* The interrupt stores at head only, and head is not the slot the main
\* program is reading as long as the ring is not empty.
LEMMA SlotBeingReadStep ==
  RingTypeOK /\ SlotBeingReadIsStable /\ [RingNext]_ringVars
    => SlotBeingReadIsStable'
<1> SUFFICES ASSUME RingTypeOK, SlotBeingReadIsStable, [RingNext]_ringVars
             PROVE  SlotBeingReadIsStable'
  OBVIOUS
<1> USE DEF SlotBeingReadIsStable
<1>1. CASE IsReadAvailable
  BY <1>1 DEF IsReadAvailable
<1>2. CASE LoadSlot
  BY <1>2 DEF LoadSlot
<1>3. CASE AdvanceTail
  BY <1>3 DEF AdvanceTail
<1>4. CASE Consume
  BY <1>4 DEF Consume
<1>5. ASSUME NEW b \in Bytes, OnReceiveComplete(b)
      PROVE  SlotBeingReadIsStable'
  BY <1>5 DEF OnReceiveComplete, RingTypeOK
<1>6. CASE UNCHANGED ringVars
  BY <1>6 DEF ringVars
<1>7. QED
  BY <1>1, <1>2, <1>3, <1>4, <1>5, <1>6 DEF RingNext

\* Between the load of a slot and the store of the new tail the interrupt
\* cannot change what readChar is about to return.
THEOREM SlotBeingReadIsNeverOverwritten ==
  RingSpec => []SlotBeingReadIsStable
<1>1. RingInit => SlotBeingReadIsStable
  BY DEF RingInit, SlotBeingReadIsStable
<1>2. QED
  BY <1>1, SlotBeingReadStep, RingTypeCorrect, PTL DEF RingSpec

------------------------------------------------------------------------------
(* The ring is a lossy queue.                                               *)

\* What the bytes between tail and head amount to as a sequence.
LEMMA ContentsAreASequence ==
  RingTypeOK => /\ Occupied \in 0 .. Capacity - 1
                /\ Contents \in Seq(Bytes)
                /\ Len(Contents) = Occupied
                /\ \A k \in 1 .. Occupied : Contents[k] = buffer[Slot(k)]
                /\ \A k \in 1 .. Occupied : Slot(k) \in Slots
<1> SUFFICES ASSUME RingTypeOK
             PROVE  /\ Occupied \in 0 .. Capacity - 1
                    /\ Contents \in Seq(Bytes)
                    /\ Len(Contents) = Occupied
                    /\ \A k \in 1 .. Occupied : Contents[k] = buffer[Slot(k)]
                    /\ \A k \in 1 .. Occupied : Slot(k) \in Slots
  OBVIOUS
<1>1. Occupied \in 0 .. Capacity - 1
  BY RingAssumption DEF RingTypeOK, Slots, Occupied
<1>2. \A k \in 1 .. Occupied : Slot(k) \in Slots
  BY <1>1, RingAssumption DEF RingTypeOK, Slots, Slot
<1>3. \A k \in 1 .. Occupied : (tail + k - 1) % Capacity = Slot(k)
  BY <1>1, SlotIsRemainder, RingAssumption DEF RingTypeOK
<1>4. \A k \in 1 .. Occupied : Contents[k] = buffer[Slot(k)]
  BY <1>3 DEF Contents
<1>5. \A k \in 1 .. Occupied : Contents[k] \in Bytes
  BY <1>2, <1>4 DEF RingTypeOK
<1>6. Contents \in [1 .. Occupied -> Bytes]
  BY <1>5 DEF Contents
<1>7. Contents \in Seq(Bytes) /\ Len(Contents) = Occupied
  BY <1>1, <1>6, SeqDef, LenProperties
<1>8. QED
  BY <1>1, <1>2, <1>4, <1>7

\* An interrupt appends the byte, or leaves a full queue alone.
LEMMA ArrivalRefines ==
  ASSUME RingTypeOK, RingTypeOK', NEW b \in Bytes, OnReceiveComplete(b)
  PROVE  Fifo!Arrive(b)
<1>1. /\ Contents \in Seq(Bytes)
      /\ Len(Contents) = Occupied
      /\ Occupied \in 0 .. Capacity - 1
      /\ \A k \in 1 .. Occupied : Contents[k] = buffer[Slot(k)]
      /\ \A k \in 1 .. Occupied : Slot(k) \in Slots
  BY ContentsAreASequence
<1>2. /\ Contents' \in Seq(Bytes)
      /\ Len(Contents') = Occupied'
      /\ \A k \in 1 .. Occupied' : Contents'[k] = buffer'[Slot(k)']
  <2>1. (RingTypeOK => /\ Contents \in Seq(Bytes)
                       /\ Len(Contents) = Occupied
                       /\ \A k \in 1 .. Occupied :
                            Contents[k] = buffer[Slot(k)])'
    BY ContentsAreASequence, PTL
  <2>2. QED
    BY <2>1
<1>3. tail' = tail /\ received' = received /\ arrivals' = 1 - arrivals
  BY DEF OnReceiveComplete
<1>4. \A k : Slot(k)' = Slot(k)
  BY <1>3 DEF Slot
<1>0. /\ Capacity \in Nat /\ Capacity >= 2
      /\ head \in 0 .. Capacity - 1 /\ tail \in 0 .. Capacity - 1
      /\ Following(head) = IF head + 1 = Capacity THEN 0 ELSE head + 1
  BY FollowingIsNext, RingAssumption DEF RingTypeOK, Slots
<1>5. Following(head) # tail <=> Occupied < Capacity - 1
  BY <1>0 DEF Occupied
<1>6. CASE Following(head) # tail
  <2>1. /\ buffer' = [buffer EXCEPT ![head] = b]
        /\ head' = Following(head)
    BY <1>6 DEF OnReceiveComplete
  <2>2. Occupied' = Occupied + 1
    BY <1>0, <1>3, <1>6, <2>1 DEF Occupied
  <2>3. Slot(Occupied + 1) = head
    BY RingAssumption DEF RingTypeOK, Slots, Occupied, Slot
  <2>4. \A k \in 1 .. Occupied : Slot(k) # head
    BY <1>1, RingAssumption DEF RingTypeOK, Slots, Occupied, Slot
  <2>5. \A k \in 1 .. Occupied : Contents'[k] = Contents[k]
    BY <1>1, <1>2, <1>4, <2>1, <2>2, <2>4 DEF RingTypeOK
  <2>6. Contents'[Occupied + 1] = b
    BY <1>1, <1>2, <1>4, <2>1, <2>2, <2>3 DEF RingTypeOK
  <2>7. Contents' = Append(Contents, b)
    <3>1. Append(Contents, b) \in Seq(Bytes)
          /\ Len(Append(Contents, b)) = Occupied + 1
      BY <1>1
    <3>2. \A k \in 1 .. Occupied + 1 : Contents'[k] = Append(Contents, b)[k]
      BY <1>1, <2>5, <2>6
    <3>3. QED
      BY <1>2, <2>2, <3>1, <3>2, SeqEqual
  <2>8. QED
    BY <1>1, <1>3, <1>5, <1>6, <2>7 DEF Fifo!Arrive
<1>7. CASE Following(head) = tail
  <2>1. UNCHANGED <<buffer, head>>
    BY <1>7 DEF OnReceiveComplete
  <2>2. Contents' = Contents
    BY <1>3, <2>1 DEF Contents, Occupied
  <2>3. QED
    BY <1>1, <1>3, <1>5, <1>7, <2>2 DEF Fifo!Arrive
<1>8. QED
  BY <1>6, <1>7

\* The store of the new tail hands over the oldest byte of the queue.
LEMMA AdvanceTailRefines ==
  ASSUME RingTypeOK, RingTypeOK', SlotBeingReadIsStable, AdvanceTail
  PROVE  Fifo!HandOver
<1>1. /\ Contents \in Seq(Bytes)
      /\ Len(Contents) = Occupied
      /\ Occupied \in 0 .. Capacity - 1
      /\ \A k \in 1 .. Occupied : Contents[k] = buffer[Slot(k)]
  BY ContentsAreASequence
<1>2. /\ Contents' \in Seq(Bytes)
      /\ Len(Contents') = Occupied'
      /\ \A k \in 1 .. Occupied' : Contents'[k] = buffer'[Slot(k)']
  <2>1. (RingTypeOK => /\ Contents \in Seq(Bytes)
                       /\ Len(Contents) = Occupied
                       /\ \A k \in 1 .. Occupied :
                            Contents[k] = buffer[Slot(k)])'
    BY ContentsAreASequence, PTL
  <2>2. QED
    BY <2>1
<1>3. /\ tail' = Following(tail)
      /\ received' = value
      /\ UNCHANGED <<buffer, head, arrivals>>
      /\ head # tail
      /\ value = buffer[tail]
  BY DEF AdvanceTail, SlotBeingReadIsStable
<1>0. /\ Capacity \in Nat /\ Capacity >= 2
      /\ head \in 0 .. Capacity - 1 /\ tail \in 0 .. Capacity - 1
      /\ Following(tail) = IF tail + 1 = Capacity THEN 0 ELSE tail + 1
  BY FollowingIsNext, RingAssumption DEF RingTypeOK, Slots
<1>4. Occupied > 0 /\ Occupied' = Occupied - 1
  BY <1>0, <1>3 DEF Occupied
<1>5. Contents # <<>>
  BY <1>1, <1>4
<1>6. Slot(1) = tail
  BY RingAssumption DEF RingTypeOK, Slots, Slot
<1>7. \A k \in 1 .. Occupied - 1 : Slot(k)' = Slot(k + 1)
  BY <1>0, <1>1, <1>3 DEF Slot
<1>8. received' = Head(Contents)
  BY <1>1, <1>3, <1>4, <1>6
<1>9. Contents' = Tail(Contents)
  <2>1. /\ Tail(Contents) \in Seq(Bytes)
        /\ Len(Tail(Contents)) = Occupied - 1
        /\ \A k \in 1 .. Occupied - 1 : Tail(Contents)[k] = Contents[k + 1]
    BY <1>1, <1>5, HeadTailProperties
  <2>2. \A k \in 1 .. Occupied - 1 : Contents'[k] = Tail(Contents)[k]
    BY <1>1, <1>2, <1>3, <1>4, <1>7, <2>1
  <2>3. QED
    BY <1>2, <1>4, <2>1, <2>2, SeqEqual
<1>10. QED
  BY <1>3, <1>5, <1>8, <1>9 DEF Fifo!HandOver

\* The ring with its two-step read implements the lossy queue: a byte is lost
\* exactly when Capacity - 1 bytes wait, and what readChar returns is what
\* the interrupt accepted, in order and once.
THEOREM RingImplementsLossyFifo == RingSpec => ImplementsLossyFifo
<1>1. RingInit => Fifo!Init
  <2> SUFFICES ASSUME RingInit PROVE Fifo!Init
    OBVIOUS
  <2>1. RingTypeOK /\ Occupied = 0
    BY RingAssumption DEF RingInit, RingTypeOK, Slots, Occupied
  <2>2. Contents = <<>>
    BY <2>1, ContentsAreASequence, EmptySeq
  <2>3. QED
    BY <2>2 DEF RingInit, Fifo!Init
<1>2. /\ RingTypeOK /\ RingTypeOK'
      /\ SlotBeingReadIsStable
      /\ [RingNext]_ringVars
      => [Fifo!Next]_Fifo!vars
  <2> SUFFICES ASSUME RingTypeOK, RingTypeOK', SlotBeingReadIsStable,
                      [RingNext]_ringVars
               PROVE  [Fifo!Next]_Fifo!vars
    OBVIOUS
  <2>1. CASE IsReadAvailable \/ LoadSlot \/ Consume \/ UNCHANGED ringVars
    <3>1. UNCHANGED <<buffer, head, tail, received, arrivals>>
      BY <2>1 DEF IsReadAvailable, LoadSlot, Consume, ringVars
    <3>2. UNCHANGED Contents
      BY <3>1 DEF Contents, Occupied
    <3>3. QED
      BY <3>1, <3>2 DEF Fifo!vars
  <2>2. CASE AdvanceTail
    BY <2>2, AdvanceTailRefines DEF Fifo!Next
  <2>3. ASSUME NEW b \in Bytes, OnReceiveComplete(b)
        PROVE  Fifo!Next
    BY <2>3, ArrivalRefines DEF Fifo!Next
  <2>4. QED
    BY <2>1, <2>2, <2>3 DEF RingNext
<1>3. QED
  BY <1>1, <1>2, RingTypeCorrect, SlotBeingReadIsNeverOverwritten, PTL
     DEF RingSpec, ImplementsLossyFifo, Fifo!Spec

------------------------------------------------------------------------------
(* The whole input drives the ring.                                         *)

\* Every step of the whole is a step of the ring, or none.
LEMMA InputStepIsRingStep == ASSUME [Next]_vars PROVE [RingNext]_ringVars
<1>1. CASE ReadStep
  BY <1>1 DEF ReadStep, RingNext
<1>2. CASE HandleReceived
  BY <1>2 DEF HandleReceived, Consume, RingNext
<1>3. ASSUME NEW b \in Bytes, HostSends(b) PROVE RingNext
  BY <1>3 DEF HostSends, RingNext
<1>4. CASE UNCHANGED vars
  BY <1>4 DEF vars, ringVars
<1> QED
  BY <1>1, <1>2, <1>3, <1>4 DEF Next

\* The input drives the ring as the ring expects of its reader and its
\* interrupt.
THEOREM InputDrivesTheRing == Spec => RingSpec
<1>1. Init => RingInit
  BY DEF Init
<1>2. [Next]_vars => [RingNext]_ringVars
  BY InputStepIsRingStep
<1> QED
  BY <1>1, <1>2, PTL DEF Spec, RingSpec

\* The interrupt never overwrites the slot that pollCommandInput is reading
\* (SlotBeingReadIsStable, of the whole input).
THEOREM PolledSlotIsNeverOverwritten == Spec => []SlotBeingReadIsStable
BY InputDrivesTheRing, SlotBeingReadIsNeverOverwritten

\* Towards host and line editor the ring is a lossy queue of Capacity - 1 bytes
\* (ImplementsLossyFifo, of the whole input).
THEOREM InputImplementsLossyFifo == Spec => ImplementsLossyFifo
BY InputDrivesTheRing, RingImplementsLossyFifo

------------------------------------------------------------------------------
(* The line editor.                                                         *)

\* An erasure takes the last character.
LEMMA FrontIsShorter ==
  ASSUME NEW S, NEW text \in Seq(S), text # <<>>
  PROVE  Front(text) \in Seq(S) /\ Len(Front(text)) = Len(text) - 1
<1>1. Front(text) = SubSeq(text, 1, Len(text) - 1)
  BY DEF Front
<1>2. Len(text) \in Nat \ {0}
  BY EmptySeq
<1> DEFINE last == Len(text) - 1
<1>3. last \in Int /\ \A i \in 1 .. last : text[i] \in S
  BY <1>2
<1>4. /\ Len(SubSeq(text, 1, last)) = IF 1 <= last THEN last ELSE 0
      /\ SubSeq(text, 1, last) \in Seq(S)
  <2> HIDE DEF last
  <2> QED
    BY <1>3, SubSeqProperties
<1>5. 1 <= last \/ last = 0
  <2>1. ASSUME NEW k \in Nat \ {0} PROVE 1 <= k - 1 \/ k - 1 = 0
    OBVIOUS
  <2> QED
    BY <1>2, <2>1
<1> QED
  BY <1>1, <1>4, <1>5

\* One byte leaves the command printable, and short enough for its terminator.
LEMMA EditFits ==
  ASSUME NEW text \in Seq(Printable), Len(text) < CommandBufferSize,
         NEW b \in Bytes
  PROVE  /\ Edit(text, b) \in Seq(Printable)
         /\ Len(Edit(text, b)) < CommandBufferSize
<1>0. EndOfLine # Erase /\ EndOfLine \notin Printable /\ Erase \notin Printable
  BY CommandInputAssumption
<1>1. CommandBufferSize \in Nat /\ CommandBufferSize > 0 /\ Len(text) \in Nat
  BY CommandInputAssumption
<1>2. <<>> \in Seq(Printable) /\ Len(<<>>) < CommandBufferSize
  BY <1>1
<1>3. CASE b = EndOfLine
  BY <1>0, <1>2, <1>3 DEF Edit
<1>4. CASE b # EndOfLine /\ b = Erase
  <2>1. CASE text = <<>>
    BY <1>0, <1>4, <2>1 DEF Edit
  <2>2. CASE text # <<>>
    <3>1. Front(text) \in Seq(Printable) /\ Len(Front(text)) = Len(text) - 1
      BY <2>2, FrontIsShorter
    <3> QED
      BY <1>0, <1>1, <1>4, <2>2, <3>1 DEF Edit
  <2> QED
    BY <2>1, <2>2
<1>5. CASE b # EndOfLine /\ b # Erase /\ b \in Printable
  <2>1. CASE Fits(Len(text))
    BY <1>1, <1>5, <2>1 DEF Edit, Fits
  <2>2. CASE ~ Fits(Len(text))
    BY <1>2, <1>5, <2>2 DEF Edit
  <2> QED
    BY <2>1, <2>2
<1>6. CASE b # EndOfLine /\ b # Erase /\ b \notin Printable
  BY <1>6 DEF Edit
<1> QED
  BY <1>3, <1>4, <1>5, <1>6

\* Whatever is sent, the terminator of the command is written inside its buffer
\* (the CommandFits part of TypeOK).
THEOREM CommandAlwaysFits == Spec => []CommandFits
<1>1. Init => CommandFits
  BY CommandInputAssumption DEF Init, CommandFits
<1>2. CommandFits /\ RingTypeOK /\ [Next]_vars => CommandFits'
  <2> SUFFICES ASSUME CommandFits, RingTypeOK, [Next]_vars PROVE CommandFits'
    OBVIOUS
  <2>1. CASE HandleReceived
    BY <2>1, EditFits DEF HandleReceived, CommandFits, RingTypeOK
  <2>2. CASE UNCHANGED command
    BY <2>2 DEF CommandFits
  <2> QED
    BY <2>1, <2>2 DEF Next, ReadStep, HostSends, vars
<1>3. Spec => []RingTypeOK
  BY InputDrivesTheRing, RingTypeCorrect
<1> QED
  BY <1>1, <1>2, <1>3, PTL DEF Spec

------------------------------------------------------------------------------
(* What is kept of a line.                                                  *)

\* A set of numbers that holds zero and the successor of each number that it
\* holds, up to k, holds all numbers up to k: otherwise there were a smallest
\* one that it lacks.  (The induction theorems of the library take an operator,
\* which the provers cannot instantiate.)
LEMMA UpToInduction ==
  ASSUME NEW k \in Nat, NEW T, 0 \in T,
         \A n \in 1 .. k : n - 1 \in T => n \in T
  PROVE  \A n \in 0 .. k : n \in T
<1> DEFINE Missing == {n \in Nat : n <= k /\ n \notin T}
<1> SUFFICES ASSUME Missing # {} PROVE FALSE
  OBVIOUS
<1> Missing \subseteq Nat
  OBVIOUS
<1>1. \E x \in Missing : \A y \in Missing : ~ (<<y, x>> \in OpToRel(<, Nat))
  <2> HIDE DEF Missing
  <2> QED
    BY NatLessThanWellFounded, WFMin
<1>2. PICK x \in Missing :
        \A y \in Missing : ~ (<<y, x>> \in OpToRel(<, Nat))
  BY <1>1
<1>3. x \in 1 .. k /\ x - 1 \in Nat
  OBVIOUS
<1>4. x - 1 \in Missing
  BY <1>3
<1>5. <<x - 1, x>> \in OpToRel(<, Nat)
  BY <1>3 DEF OpToRel
<1> QED
  BY <1>2, <1>4, <1>5

\* h holds what has been kept before, between and after the bytes of text.
Edits(h, text) ==
  h[0] = <<>> /\ \A n \in 1 .. Len(text) : h[n] = Kept(h[n - 1], text[n])

\* What is kept is printable.
LEMMA KeptIsPrintable ==
  ASSUME NEW text \in Seq(Printable), NEW b
  PROVE  Kept(text, b) \in Seq(Printable)
<1>0. Erase \notin Printable
  BY CommandInputAssumption
<1>1. CASE b \in Printable
  BY <1>0, <1>1 DEF Kept
<1>2. CASE b = Erase /\ text # <<>>
  BY <1>0, <1>2, FrontIsShorter DEF Kept
<1>3. CASE b \notin Printable /\ ~ (b = Erase /\ text # <<>>)
  BY <1>3 DEF Kept
<1> QED
  BY <1>1, <1>2, <1>3

\* Every line can be edited byte by byte.
LEMMA EditionExists ==
  ASSUME NEW text \in Seq(Bytes)
  PROVE  \E h \in [0 .. Len(text) -> Seq(Printable)] : Edits(h, text)
<1> DEFINE Reached(n) ==
      \E h \in [0 .. n -> Seq(Printable)] :
        h[0] = <<>> /\ \A i \in 1 .. n : h[i] = Kept(h[i - 1], text[i])
    T == {n \in 0 .. Len(text) : Reached(n)}
<1>1. Len(text) \in Nat /\ <<>> \in Seq(Printable)
  OBVIOUS
<1>2. 0 \in T
  <2> DEFINE first == [i \in 0 .. 0 |-> <<>>]
  <2>1. first \in [0 .. 0 -> Seq(Printable)] /\ first[0] = <<>>
    BY <1>1
  <2>2. \A i \in 1 .. 0 : first[i] = Kept(first[i - 1], text[i])
    OBVIOUS
  <2>3. Reached(0)
    <3> HIDE DEF first
    <3> QED
      BY <2>1, <2>2
  <2> QED
    BY <1>1, <2>3
<1>3. ASSUME NEW n \in 1 .. Len(text), n - 1 \in T PROVE n \in T
  <2>1. PICK h \in [0 .. n - 1 -> Seq(Printable)] :
          h[0] = <<>> /\ \A i \in 1 .. n - 1 : h[i] = Kept(h[i - 1], text[i])
    BY <1>3
  <2> DEFINE last == Kept(h[n - 1], text[n])
             longer == [i \in 0 .. n |-> IF i = n THEN last ELSE h[i]]
  <2>2. n \in Nat \ {0} /\ h[n - 1] \in Seq(Printable)
    BY <1>1
  <2>3. last \in Seq(Printable)
    BY <2>2, KeptIsPrintable
  <2> HIDE DEF last
  <2>4. longer \in [0 .. n -> Seq(Printable)]
    BY <2>3
  <2>5. longer[0] = <<>>
    BY <2>1, <2>2
  <2>6. ASSUME NEW i \in 1 .. n PROVE longer[i] = Kept(longer[i - 1], text[i])
    <3>1. longer[i - 1] = h[i - 1]
      BY <2>2
    <3>2. CASE i = n
      BY <2>2, <3>1, <3>2 DEF last
    <3>3. CASE i # n
      <4>1. i \in 1 .. n - 1 /\ longer[i] = h[i]
        BY <2>2, <3>3
      <4> QED
        BY <2>1, <3>1, <4>1
    <3> QED
      BY <3>2, <3>3
  <2>7. Reached(n)
    <3> HIDE DEF longer
    <3> QED
      BY <2>4, <2>5, <2>6
  <2>8. n \in 0 .. Len(text)
    BY <1>1
  <2> HIDE DEF Reached
  <2> QED
    BY <2>7, <2>8
<1>4. \A n \in 0 .. Len(text) : n \in T
  <2> HIDE DEF T
  <2> QED
    BY <1>1, <1>2, <1>3, UpToInduction
<1>5. Reached(Len(text))
  <2> HIDE DEF Reached
  <2> QED
    BY <1>1, <1>4
<1> QED
  BY <1>5 DEF Edits

\* Whichever way it is, the edition ends in the edited line.
LEMMA EditionEndsInEdited ==
  ASSUME NEW text \in Seq(Bytes),
         NEW h \in [0 .. Len(text) -> Seq(Printable)], Edits(h, text)
  PROVE  Edited(text) = h[Len(text)]
<1> DEFINE Step(f) == [n \in 0 .. Len(text) |->
                         IF n = 0 THEN <<>> ELSE Kept(f[n - 1], text[n])]
           f == CHOOSE f : f = Step(f)
           T == {n \in 0 .. Len(text) : f[n] = h[n]}
<1>1. h = Step(h)
  <2>1. \A n \in 0 .. Len(text) : n = 0 \/ n \in 1 .. Len(text)
    OBVIOUS
  <2> QED
    BY <2>1 DEF Edits
<1>2. f = Step(f)
  <2> HIDE DEF Step
  <2> QED
    BY <1>1
<1>3. f[0] = <<>> /\ \A n \in 1 .. Len(text) : f[n] = Kept(f[n - 1], text[n])
  <2> HIDE DEF f
  <2> QED
    BY <1>2
<1>4. Edited(text) = f[Len(text)]
  BY DEF Edited
<1> HIDE DEF f
<1>5. 0 \in T /\ \A n \in 1 .. Len(text) : n - 1 \in T => n \in T
  BY <1>3 DEF Edits
<1>6. Len(text) \in 0 .. Len(text) /\ Len(text) \in Nat
  OBVIOUS
<1>7. \A n \in 0 .. Len(text) : n \in T
  <2> HIDE DEF T
  <2> QED
    BY <1>5, <1>6, UpToInduction
<1> QED
  BY <1>4, <1>6, <1>7

\* What is kept of one byte more.
LEMMA EditedAppend ==
  ASSUME NEW text \in Seq(Bytes), NEW b \in Bytes
  PROVE  /\ Edited(text) \in Seq(Printable)
         /\ Edited(Append(text, b)) = Kept(Edited(text), b)
<1> DEFINE more == Append(text, b)
<1>1. /\ more \in Seq(Bytes) /\ Len(more) = Len(text) + 1 /\ Len(text) \in Nat
      /\ \A n \in 1 .. Len(text) : more[n] = text[n]
      /\ more[Len(text) + 1] = b
  OBVIOUS
<1> HIDE DEF more
<1>2. PICK h \in [0 .. Len(text) -> Seq(Printable)] : Edits(h, text)
  BY EditionExists
<1>3. Edited(text) = h[Len(text)] /\ h[Len(text)] \in Seq(Printable)
  BY <1>1, <1>2, EditionEndsInEdited
<1> DEFINE last == Kept(h[Len(text)], b)
           longer == [i \in 0 .. Len(text) + 1 |->
                        IF i <= Len(text) THEN h[i] ELSE last]
<1>4. last \in Seq(Printable)
  BY <1>3, KeptIsPrintable
<1> HIDE DEF last
<1>5. longer \in [0 .. Len(more) -> Seq(Printable)]
  BY <1>1, <1>4
<1>6. /\ longer[Len(text) + 1] = last
      /\ \A i \in 0 .. Len(text) : longer[i] = h[i]
  BY <1>1
<1> HIDE DEF longer
<1>7. Edits(longer, more)
  <2>1. longer[0] = <<>>
    BY <1>1, <1>2, <1>6 DEF Edits
  <2>2. ASSUME NEW i \in 1 .. Len(text) + 1
        PROVE  longer[i] = Kept(longer[i - 1], more[i])
    <3>1. CASE i = Len(text) + 1
      <4>1. i - 1 = Len(text) /\ Len(text) \in 0 .. Len(text)
        BY <1>1, <3>1
      <4>2. longer[i - 1] = h[Len(text)] /\ more[i] = b /\ longer[i] = last
        BY <1>1, <1>6, <3>1, <4>1
      <4> QED
        BY <4>2 DEF last
    <3>2. CASE i # Len(text) + 1
      <4>1. i \in 1 .. Len(text) /\ i - 1 \in 0 .. Len(text) /\ i \in 0 .. Len(text)
        BY <1>1, <3>2
      <4> QED
        BY <1>1, <1>2, <1>6, <4>1 DEF Edits
    <3> QED
      BY <3>1, <3>2
  <2> QED
    BY <1>1, <2>1, <2>2 DEF Edits
<1>8. Edited(more) = longer[Len(text) + 1]
  BY <1>1, <1>5, <1>7, EditionEndsInEdited
<1> QED
  BY <1>3, <1>6, <1>8 DEF last, more

\* Nothing is kept of nothing, and it is not too long.
LEMMA NothingIsKept == Edited(<<>>) = <<>> /\ ~ TooLong(<<>>)
<1>1. <<>> \in Seq(Bytes) /\ Len(<<>>) = 0
  OBVIOUS
<1>2. PICK h \in [0 .. Len(<<>>) -> Seq(Printable)] : Edits(h, <<>>)
  BY <1>1, EditionExists
<1>3. Edited(<<>>) = h[Len(<<>>)]
  BY <1>1, <1>2, EditionEndsInEdited
<1>4. Edited(<<>>) = <<>>
  BY <1>1, <1>2, <1>3 DEF Edits
<1>5. ~ TooLong(<<>>)
  <2> SUFFICES ASSUME NEW n \in 0 .. Len(<<>>)
               PROVE  ~ (Len(Edited(SubSeq(<<>>, 1, n))) >= CommandBufferSize)
    BY Zenon DEF TooLong
  <2>1. n = 0
    BY <1>1
  <2>2. SubSeq(<<>>, 1, n) = <<>>
    BY <2>1, SubSeqEmpty
  <2>3. Len(Edited(SubSeq(<<>>, 1, n))) = 0
    BY <1>1, <1>4, <2>2, Zenon
  <2> QED
    BY <2>3, CommandInputAssumption
<1> QED
  BY <1>4, <1>5

\* The first and the last bytes of a line with one byte more.
LEMMA PartsOfAppend ==
  ASSUME NEW S, NEW text \in Seq(S), NEW b \in S, NEW n \in 0 .. Len(text)
  PROVE  /\ SubSeq(text, 1, n) \in Seq(S)
         /\ SubSeq(text, n + 1, Len(text)) \in Seq(S)
         /\ SubSeq(Append(text, b), 1, n) = SubSeq(text, 1, n)
         /\ SubSeq(Append(text, b), n + 1, Len(text) + 1)
              = Append(SubSeq(text, n + 1, Len(text)), b)
<1> DEFINE more == Append(text, b)
<1>1. /\ more \in Seq(S) /\ Len(more) = Len(text) + 1 /\ Len(text) \in Nat
      /\ \A i \in 1 .. Len(text) : more[i] = text[i]
      /\ more[Len(text) + 1] = b
  OBVIOUS
<1> HIDE DEF more
<1> DEFINE first == SubSeq(text, 1, n)
           rest == SubSeq(text, n + 1, Len(text))
           first2 == SubSeq(more, 1, n)
           rest2 == SubSeq(more, n + 1, Len(text) + 1)
<1>2. first \in Seq(S) /\ Len(first) = n /\ \A i \in 1 .. n : first[i] = text[i]
  <2>1. \A i \in 1 .. n : text[i] \in S
    OBVIOUS
  <2> QED
    BY <1>1, <2>1, SubSeqProperties
<1>3. first2 \in Seq(S) /\ Len(first2) = n /\ \A i \in 1 .. n : first2[i] = more[i]
  <2>1. \A i \in 1 .. n : more[i] \in S
    BY <1>1
  <2> QED
    BY <1>1, <2>1, SubSeqProperties
<1>4. /\ rest \in Seq(S) /\ Len(rest) = Len(text) - n
      /\ \A i \in 1 .. Len(text) - n : rest[i] = text[n + i]
  <2>1. \A i \in n + 1 .. Len(text) : text[i] \in S
    OBVIOUS
  <2> QED
    BY <1>1, <2>1, SubSeqProperties
<1>5. /\ rest2 \in Seq(S) /\ Len(rest2) = Len(text) + 1 - n
      /\ \A i \in 1 .. Len(text) + 1 - n : rest2[i] = more[n + i]
  <2>1. \A i \in n + 1 .. Len(text) + 1 : more[i] \in S
    BY <1>1
  <2> DEFINE end == Len(text) + 1
  <2>2. end \in Nat /\ n + 1 \in Nat /\ n + 1 <= end /\ end - n = Len(text) + 1 - n
    BY <1>1
  <2> HIDE DEF end
  <2> QED
    BY <1>1, <2>1, <2>2, SubSeqProperties DEF end
<1> HIDE DEF first, first2, rest, rest2
<1>6. first2 = first
  <2>1. \A i \in 1 .. n : first2[i] = first[i]
    BY <1>1, <1>2, <1>3
  <2> QED
    BY <1>2, <1>3, <2>1, SeqEqual
<1>7. rest2 = Append(rest, b)
  <2> DEFINE longer == Append(rest, b)
  <2>1. /\ longer \in Seq(S) /\ Len(longer) = Len(rest) + 1
        /\ \A i \in 1 .. Len(rest) : longer[i] = rest[i]
        /\ longer[Len(rest) + 1] = b
    BY <1>4
  <2> HIDE DEF longer
  <2>2. ASSUME NEW i \in 1 .. Len(rest2) PROVE rest2[i] = longer[i]
    <3>1. CASE i = Len(rest) + 1
      BY <1>1, <1>4, <1>5, <2>1, <3>1
    <3>2. CASE i # Len(rest) + 1
      <4>1. i \in 1 .. Len(rest)
        <5>1. Len(rest) \in Nat /\ Len(rest2) = Len(rest) + 1
          BY <1>1, <1>4, <1>5
        <5> QED
          BY <3>2, <5>1
      <4>2. i \in 1 .. Len(text) - n
        BY <1>4, <4>1
      <4>3. n + i \in 1 .. Len(text) /\ i \in 1 .. Len(text) + 1 - n
        BY <1>1, <4>2
      <4>4. rest2[i] = more[n + i] /\ more[n + i] = text[n + i]
        BY <1>1, <1>5, <4>3
      <4>5. longer[i] = rest[i] /\ rest[i] = text[n + i]
        BY <1>4, <2>1, <4>1, <4>2
      <4> QED
        BY <4>4, <4>5
    <3> QED
      BY <3>1, <3>2
  <2>3. Len(rest2) = Len(longer)
    BY <1>1, <1>4, <1>5, <2>1
  <2>4. rest2 = longer
    BY <1>5, <2>1, <2>2, <2>3, SeqEqual
  <2> QED
    BY <2>4 DEF longer
<1> QED
  BY <1>2, <1>4, <1>6, <1>7 DEF first, first2, rest, rest2, more

\* A line with one byte more was too long at some point if it was before or is
\* so now.
LEMMA TooLongAppend ==
  ASSUME NEW text \in Seq(Bytes), NEW b \in Bytes
  PROVE  /\ TooLong(Append(text, b))
              <=> TooLong(text) \/ Len(Kept(Edited(text), b)) >= CommandBufferSize
         /\ ~ TooLong(text) => Len(Edited(text)) < CommandBufferSize
<1> DEFINE more == Append(text, b)
<1>1. /\ more \in Seq(Bytes) /\ Len(more) = Len(text) + 1 /\ Len(text) \in Nat
      /\ \A n \in 0 .. Len(text) : SubSeq(more, 1, n) = SubSeq(text, 1, n)
  BY PartsOfAppend
<1>2. /\ \A t \in Seq(Bytes) : SubSeq(t, 1, Len(t)) = t
  BY SubSeqFull
<1>3. SubSeq(more, 1, Len(text) + 1) = more /\ SubSeq(text, 1, Len(text)) = text
  BY <1>1, <1>2
<1>4. Edited(more) = Kept(Edited(text), b) /\ Edited(text) \in Seq(Printable)
  BY EditedAppend
<1>5. CommandBufferSize \in Nat /\ Len(Edited(text)) \in Nat
  BY <1>4, CommandInputAssumption
<1> HIDE DEF more
<1>6. TooLong(text) => TooLong(more)
  <2> SUFFICES ASSUME NEW n \in 0 .. Len(text),
                      Len(Edited(SubSeq(text, 1, n))) >= CommandBufferSize
               PROVE  TooLong(more)
    BY DEF TooLong
  <2>1. n \in 0 .. Len(more) /\ SubSeq(more, 1, n) = SubSeq(text, 1, n)
    BY <1>1
  <2>2. Len(Edited(SubSeq(more, 1, n))) >= CommandBufferSize
    BY <2>1, Zenon
  <2> QED
    BY <2>1, <2>2, Zenon DEF TooLong
<1>7. Len(Edited(more)) >= CommandBufferSize => TooLong(more)
  <2>1. Len(more) \in 0 .. Len(more) /\ SubSeq(more, 1, Len(more)) = more
    BY <1>1, <1>2
  <2> QED
    BY <2>1, Zenon DEF TooLong
<1>8. TooLong(more) => TooLong(text) \/ Len(Edited(more)) >= CommandBufferSize
  <2> SUFFICES ASSUME NEW n \in 0 .. Len(text) + 1,
                      Len(Edited(SubSeq(more, 1, n))) >= CommandBufferSize
               PROVE  TooLong(text) \/ Len(Edited(more)) >= CommandBufferSize
    BY <1>1 DEF TooLong
  <2>1. CASE n = Len(text) + 1
    BY <1>3, <2>1
  <2>2. CASE n # Len(text) + 1
    <3>1. n \in 0 .. Len(text)
      BY <1>1, <2>2
    <3> QED
      BY <1>1, <3>1 DEF TooLong
  <2> QED
    BY <2>1, <2>2
<1>9. ~ TooLong(text) => Len(Edited(text)) < CommandBufferSize
  <2>1. Len(text) \in 0 .. Len(text)
    BY <1>1
  <2> QED
    <3>1. ASSUME ~ TooLong(text)
          PROVE  ~ (Len(Edited(SubSeq(text, 1, Len(text)))) >= CommandBufferSize)
      BY <2>1, <3>1, Zenon DEF TooLong
    <3>2. SubSeq(text, 1, Len(text)) = text
      BY <1>2
    <3>3. ASSUME ~ TooLong(text) PROVE ~ (Len(Edited(text)) >= CommandBufferSize)
      BY <3>1, <3>2, <3>3, Zenon
    <3> QED
      BY <1>5, <3>3
<1> QED
  BY <1>4, <1>6, <1>7, <1>8, <1>9 DEF more

\* Within a line the command buffer keeps what the unlimited line keeps, as long
\* as that fits, and else is emptied.
LEMMA EditKeepsWhatFits ==
  ASSUME NEW text \in Seq(Printable), Len(text) < CommandBufferSize,
         NEW b \in Bytes, b # EndOfLine
  PROVE  IF Len(Kept(text, b)) < CommandBufferSize
           THEN Edit(text, b) = Kept(text, b)
           ELSE Edit(text, b) = <<>>
<1>0. Erase \notin Printable /\ CommandBufferSize \in Nat /\ Len(text) \in Nat
  BY CommandInputAssumption
<1>1. CASE b \in Printable
  <2>1. Kept(text, b) = Append(text, b) /\ Len(Append(text, b)) = Len(text) + 1
    BY <1>0, <1>1 DEF Kept
  <2>2. Edit(text, b) = IF Fits(Len(text)) THEN Append(text, b) ELSE <<>>
    BY <1>0, <1>1 DEF Edit
  <2> QED
    BY <1>0, <2>1, <2>2 DEF Fits
<1>2. CASE b = Erase /\ text = <<>>
  BY <1>0, <1>2 DEF Kept, Edit
<1>3. CASE b = Erase /\ text # <<>>
  <2>1. Kept(text, b) = Front(text) /\ Edit(text, b) = Front(text)
    BY <1>0, <1>3 DEF Kept, Edit
  <2>2. Len(Front(text)) = Len(text) - 1
    BY <1>3, FrontIsShorter
  <2> QED
    BY <1>0, <2>1, <2>2
<1>4. CASE b \notin Printable /\ b # Erase
  BY <1>4 DEF Kept, Edit
<1> QED
  BY <1>1, <1>2, <1>3, <1>4

\* One turn of the poll loop keeps the command an edition of its line, or of
\* what followed the message.
LEMMA HandledByteKeepsTheEdition ==
  ASSUME line \in Seq(Bytes), CommandFits, CommandIsTheEditedLine,
         received \in Bytes, HandleReceived
  PROVE  line' \in Seq(Bytes) /\ CommandIsTheEditedLine'
<1> DEFINE b == received
<1>0. b \in Bytes /\ CommandBufferSize \in Nat \ {0}
  BY CommandInputAssumption
<1>1. /\ command' = Edit(command, b)
      /\ line' = IF b = EndOfLine THEN <<>> ELSE Append(line, b)
  BY DEF HandleReceived
<1> HIDE DEF b
<1>2. CASE b = EndOfLine
  <2>1. line' = <<>> /\ command' = <<>>
    BY <1>1, <1>2, CommandInputAssumption DEF Edit
  <2> QED
    BY <2>1, NothingIsKept DEF CommandIsTheEditedLine
<1>3. CASE b # EndOfLine
  <2> DEFINE more == Append(line, b)
  <2>1. /\ more \in Seq(Bytes) /\ Len(more) = Len(line) + 1 /\ Len(line) \in Nat
        /\ line' = more
    BY <1>0, <1>1, <1>3
  <2>2. /\ command \in Seq(Printable) /\ Len(command) < CommandBufferSize
        /\ IF Len(Kept(command, b)) < CommandBufferSize
             THEN command' = Kept(command, b)
             ELSE command' = <<>>
    BY <1>0, <1>1, <1>3, EditKeepsWhatFits DEF CommandFits
  <2>3. /\ TooLong(more)
             <=> TooLong(line) \/ Len(Kept(Edited(line), b)) >= CommandBufferSize
        /\ Edited(more) = Kept(Edited(line), b)
    BY <1>0, TooLongAppend, EditedAppend
  <2>4. \A n \in 0 .. Len(line) :
          Edited(SubSeq(more, n + 1, Len(line) + 1))
            = Kept(Edited(SubSeq(line, n + 1, Len(line))), b)
    <3> TAKE n \in 0 .. Len(line)
    <3>1. /\ SubSeq(line, n + 1, Len(line)) \in Seq(Bytes)
          /\ SubSeq(more, n + 1, Len(line) + 1)
               = Append(SubSeq(line, n + 1, Len(line)), b)
      <4>1. line \in Seq(Bytes) /\ b \in Bytes
        BY <1>0
      <4> QED
        BY <4>1, PartsOfAppend
    <3> QED
      BY <1>0, <3>1, EditedAppend
  <2>5. Edited(SubSeq(more, Len(line) + 2, Len(line) + 1)) = <<>>
    <3>1. SubSeq(more, Len(line) + 2, Len(line) + 1) = <<>>
      BY <2>1, SubSeqEmpty
    <3> QED
      BY <3>1, NothingIsKept
  <2> HIDE DEF more
  <2> DEFINE Suffix == \E n \in 1 .. Len(more) :
                command' = Edited(SubSeq(more, n + 1, Len(more)))
  <2>6. CASE ~ (Len(Kept(command, b)) < CommandBufferSize)
    <3>1. Suffix
      <4>1. /\ Len(line) + 1 \in 1 .. Len(more)
            /\ (Len(line) + 1) + 1 = Len(line) + 2 /\ command' = <<>>
        BY <2>1, <2>2, <2>6
      <4> QED
        BY <2>1, <2>5, <4>1
    <3>2. TooLong(more)
      <4>1. CASE TooLong(line)
        BY <2>3, <4>1
      <4>2. CASE ~ TooLong(line)
        <5>1. command = Edited(line)
          BY <4>2 DEF CommandIsTheEditedLine
        <5>2. Kept(command, b) \in Seq(Printable)
          BY <2>2, KeptIsPrintable
        <5>3. Len(Kept(Edited(line), b)) >= CommandBufferSize
          BY <1>0, <2>6, <5>1, <5>2
        <5> QED
          BY <2>3, <5>3
      <4> QED
        BY <4>1, <4>2
    <3> QED
      BY <2>1, <3>1, <3>2 DEF CommandIsTheEditedLine
  <2>7. CASE Len(Kept(command, b)) < CommandBufferSize
    <3>1. command' = Kept(command, b)
      BY <2>2, <2>7
    <3>2. CASE TooLong(line)
      <4>1. PICK n \in 1 .. Len(line) : command = Edited(SubSeq(line, n + 1, Len(line)))
        BY <3>2 DEF CommandIsTheEditedLine
      <4>2. n \in 1 .. Len(more) /\ n \in 0 .. Len(line)
        BY <2>1
      <4>3. Suffix
        BY <2>1, <2>4, <3>1, <4>1, <4>2
      <4>4. TooLong(more)
        BY <2>3, <3>2
      <4> QED
        BY <2>1, <4>3, <4>4 DEF CommandIsTheEditedLine
    <3>3. CASE ~ TooLong(line)
      <4>1. command = Edited(line)
        BY <3>3 DEF CommandIsTheEditedLine
      <4>2. Kept(command, b) \in Seq(Printable)
        BY <2>2, KeptIsPrintable
      <4>3. ~ (Len(Kept(Edited(line), b)) >= CommandBufferSize)
        BY <1>0, <2>7, <4>1, <4>2
      <4>4. ~ TooLong(more) /\ command' = Edited(more)
        BY <2>3, <3>1, <3>3, <4>1, <4>3
      <4> QED
        BY <2>1, <4>4 DEF CommandIsTheEditedLine
    <3> QED
      BY <3>2, <3>3
  <2> QED
    BY <2>6, <2>7
<1> QED
  BY <1>2, <1>3

\* handleCommand receives the line as it was edited, for every size of the
\* command buffer and however the interrupt and the poll loop interleave; of a
\* line that was too long at some point it receives the edition of what followed
\* the message (CommandIsTheEditedLine).
THEOREM CommandIsEdited == Spec => []CommandIsTheEditedLine
<1> DEFINE Inv == line \in Seq(Bytes) /\ CommandIsTheEditedLine
<1>1. Init => Inv
  <2> SUFFICES ASSUME Init PROVE Inv
    OBVIOUS
  <2>1. line = <<>> /\ command = <<>> /\ line \in Seq(Bytes)
    BY DEF Init
  <2> QED
    BY <2>1, NothingIsKept DEF CommandIsTheEditedLine
<1>2. CommandFits /\ RingTypeOK /\ Inv /\ [Next]_vars => Inv'
  <2> SUFFICES ASSUME CommandFits, RingTypeOK, Inv, [Next]_vars PROVE Inv'
    OBVIOUS
  <2>1. CASE HandleReceived
    BY <2>1, HandledByteKeepsTheEdition DEF RingTypeOK
  <2>2. CASE UNCHANGED <<command, line>>
    BY <2>2 DEF CommandIsTheEditedLine
  <2> QED
    BY <2>1, <2>2 DEF Next, ReadStep, HostSends, vars
<1>3. Spec => []RingTypeOK
  BY InputDrivesTheRing, RingTypeCorrect
<1> QED
  BY <1>1, <1>2, <1>3, CommandAlwaysFits, PTL DEF Spec

------------------------------------------------------------------------------
(* The length of a line.                                                    *)

\* The bytes from the start of the line to the newest one accepted: those
\* handled, the one that readChar has returned, and those in the ring.
Taken == IF reader = "return" THEN Append(line, received) ELSE line
Stream == Taken \o Contents

\* Between line ends there are no more bytes than the host may send, and after
\* the last one no more than u.
SegmentsFit(w, u) ==
  \A i \in 1 .. Len(w) : \A j \in i .. Len(w) :
    (\A k \in i .. j : w[k] # EndOfLine)
      => j - i + 1 <= MaxLine /\ (j = Len(w) => j - i + 1 <= u)

LineInv ==
  /\ line \in Seq(Bytes) /\ \A i \in 1 .. Len(line) : line[i] # EndOfLine
  /\ unterminated \in 0 .. MaxLine
  /\ SegmentsFit(Stream, unterminated)

\* A byte more, as the host sends it.
LEMMA SegmentsWithOneMore ==
  ASSUME NEW w \in Seq(Bytes), NEW b \in Bytes, NEW u \in 0 .. MaxLine,
         SegmentsFit(w, u), b = EndOfLine \/ u < MaxLine
  PROVE  SegmentsFit(Append(w, b), IF b = EndOfLine THEN 0 ELSE u + 1)
<1> DEFINE more == Append(w, b)
           v == IF b = EndOfLine THEN 0 ELSE u + 1
<1>1. /\ more \in Seq(Bytes) /\ Len(more) = Len(w) + 1 /\ Len(w) \in Nat
      /\ \A i \in 1 .. Len(w) : more[i] = w[i]
      /\ more[Len(w) + 1] = b
  OBVIOUS
<1> HIDE DEF more
<1>2. MaxLine \in Nat
  BY CommandInputAssumption
<1> SUFFICES ASSUME NEW i \in 1 .. Len(more), NEW j \in i .. Len(more),
                    \A k \in i .. j : more[k] # EndOfLine
             PROVE  j - i + 1 <= MaxLine /\ (j = Len(more) => j - i + 1 <= v)
  <2> HIDE DEF v
  <2>1. SegmentsFit(more, v)
    BY DEF SegmentsFit
  <2> QED
    BY <2>1 DEF more, v
<1>3. CASE j # Len(more)
  <2>1. /\ i \in 1 .. Len(w) /\ j \in i .. Len(w)
        /\ \A k \in i .. j : w[k] # EndOfLine
    BY <1>1, <1>3
  <2>2. j - i + 1 <= MaxLine
    BY <2>1 DEF SegmentsFit
  <2> QED
    BY <1>3, <2>2
<1>4. CASE j = Len(more)
  <2>1. b # EndOfLine /\ v = u + 1 /\ u < MaxLine
    BY <1>1, <1>4
  <2>2. CASE i = Len(more)
    BY <1>2, <1>4, <2>1, <2>2
  <2>3. CASE i # Len(more)
    <3>1. /\ i \in 1 .. Len(w) /\ Len(w) \in i .. Len(w)
          /\ \A k \in i .. Len(w) : w[k] # EndOfLine
      BY <1>1, <1>4, <2>3
    <3>2. Len(w) - i + 1 <= u
      BY <3>1 DEF SegmentsFit
    <3> QED
      BY <1>1, <1>2, <1>4, <2>1, <3>2
  <2> QED
    BY <2>2, <2>3
<1> QED
  BY <1>3, <1>4

\* The bytes behind others.
LEMMA SegmentsOfTheRest ==
  ASSUME NEW s \in Seq(Bytes), NEW t \in Seq(Bytes), NEW u,
         SegmentsFit(s \o t, u)
  PROVE  SegmentsFit(t, u)
<1> DEFINE w == s \o t
<1>1. /\ Len(w) = Len(s) + Len(t) /\ Len(s) \in Nat /\ Len(t) \in Nat
      /\ \A i \in 1 .. Len(t) : w[Len(s) + i] = t[i]
  BY ConcatProperties
<1> HIDE DEF w
<1>2. SegmentsFit(w, u)
  BY DEF w
<1> SUFFICES ASSUME NEW i \in 1 .. Len(t), NEW j \in i .. Len(t),
                    \A k \in i .. j : t[k] # EndOfLine
             PROVE  j - i + 1 <= MaxLine /\ (j = Len(t) => j - i + 1 <= u)
  BY DEF SegmentsFit
<1> DEFINE x == Len(s) + i
           y == Len(s) + j
<1>3. /\ x \in 1 .. Len(w) /\ y \in x .. Len(w) /\ y - x + 1 = j - i + 1
      /\ (j = Len(t) => y = Len(w))
  <2>1. i \in Nat \ {0} /\ j \in Nat /\ i <= j /\ j <= Len(t)
    BY <1>1
  <2>2. x \in Nat \ {0} /\ y \in Nat /\ x <= y /\ y <= Len(w) /\ Len(w) \in Nat
    BY <1>1, <2>1
  <2>3. y - x + 1 = j - i + 1
    <3>1. ASSUME NEW n \in Nat PROVE (n + j) - (n + i) + 1 = j - i + 1
      BY <2>1
    <3> QED
      BY <1>1, <3>1
  <2>4. j = Len(t) => y = Len(w)
    BY <1>1
  <2> HIDE DEF x, y
  <2>5. x \in 1 .. Len(w) /\ y \in x .. Len(w)
    BY <2>2
  <2> QED
    BY <2>3, <2>4, <2>5
<1>4. ASSUME NEW k \in x .. y PROVE w[k] # EndOfLine
  <2>1. k - Len(s) \in i .. j /\ k - Len(s) \in 1 .. Len(t)
        /\ k = Len(s) + (k - Len(s))
    BY <1>1
  <2> QED
    BY <1>1, <2>1
<1> HIDE DEF x, y
<1>5. y - x + 1 <= MaxLine /\ (y = Len(w) => y - x + 1 <= u)
  BY <1>2, <1>3, <1>4 DEF SegmentsFit
<1> QED
  BY <1>3, <1>5

\* The first bytes are a part of a line if none of them ends it.
LEMMA FirstSegmentFits ==
  ASSUME NEW s \in Seq(Bytes), NEW t \in Seq(Bytes), NEW u,
         SegmentsFit(s \o t, u), \A i \in 1 .. Len(s) : s[i] # EndOfLine
  PROVE  Len(s) <= MaxLine
<1> DEFINE w == s \o t
<1>1. /\ Len(w) = Len(s) + Len(t) /\ Len(s) \in Nat /\ Len(t) \in Nat
      /\ \A i \in 1 .. Len(s) : w[i] = s[i]
  BY ConcatProperties
<1> HIDE DEF w
<1>2. SegmentsFit(w, u)
  BY DEF w
<1>3. CASE Len(s) = 0
  BY <1>3, CommandInputAssumption
<1>4. CASE Len(s) # 0
  <2>1. /\ 1 \in 1 .. Len(w) /\ Len(s) \in 1 .. Len(w)
        /\ \A k \in 1 .. Len(s) : w[k] # EndOfLine
    BY <1>1, <1>4
  <2>2. Len(s) - 1 + 1 <= MaxLine
    BY <1>2, <2>1 DEF SegmentsFit
  <2> QED
    BY <1>1, <2>2
<1> QED
  BY <1>3, <1>4

\* The oldest byte of the ring goes to the end of those taken, and the newest
\* of all to the end of the ring.
LEMMA StreamStays ==
  ASSUME NEW S, NEW s \in Seq(S), NEW t \in Seq(S)
  PROVE  /\ t # <<>> => Append(s, Head(t)) \o Tail(t) = s \o t
         /\ \A b \in S : s \o Append(t, b) = Append(s \o t, b)
<1>1. ASSUME t # <<>> PROVE Append(s, Head(t)) \o Tail(t) = s \o t
  <2>1. Head(t) \in S /\ Tail(t) \in Seq(S) /\ t = <<Head(t)>> \o Tail(t)
    BY <1>1, HeadTailProperties
  <2>2. Append(s, Head(t)) = s \o <<Head(t)>>
    BY <2>1, AppendIsConcat
  <2>3. <<Head(t)>> \in Seq(S)
    BY <2>1
  <2>4. (s \o <<Head(t)>>) \o Tail(t) = s \o (<<Head(t)>> \o Tail(t))
    BY <2>1, <2>3, ConcatAssociative
  <2> QED
    BY <2>1, <2>2, <2>4
<1>2. ASSUME NEW b \in S PROVE s \o Append(t, b) = Append(s \o t, b)
  <2>1. Append(t, b) = t \o <<b>> /\ <<b>> \in Seq(S) /\ s \o t \in Seq(S)
    BY AppendIsConcat, ConcatProperties
  <2>2. Append(s \o t, b) = (s \o t) \o <<b>>
    BY <2>1, AppendIsConcat
  <2> QED
    BY <2>1, <2>2, ConcatAssociative
<1> QED
  BY <1>1, <1>2

\* What an arrival does to the bytes of the ring shows in head.
LEMMA ArrivalInTheRing ==
  ASSUME RingTypeOK, RingTypeOK', NEW b \in Bytes, OnReceiveComplete(b)
  PROVE  Contents' = IF head' = head THEN Contents ELSE Append(Contents, b)
<1>1. Contents' = IF Len(Contents) < Capacity - 1 THEN Append(Contents, b)
                                                  ELSE Contents
  BY ArrivalRefines DEF Fifo!Arrive
<1>2. Len(Contents) = Occupied
  BY ContentsAreASequence
<1>0. /\ Capacity \in Nat /\ Capacity >= 2
      /\ head \in 0 .. Capacity - 1 /\ tail \in 0 .. Capacity - 1
      /\ Following(head) = IF head + 1 = Capacity THEN 0 ELSE head + 1
  BY FollowingIsNext, RingAssumption DEF RingTypeOK, Slots
<1>3. Following(head) # tail <=> Occupied < Capacity - 1
  BY <1>0 DEF Occupied
<1>4. head' = head <=> Following(head) = tail
  BY <1>0 DEF OnReceiveComplete
<1> QED
  BY <1>1, <1>2, <1>3, <1>4

\* No step makes a line longer than the host may send.
LEMMA StepKeepsLineInv ==
  ASSUME RingTypeOK, RingTypeOK', SlotBeingReadIsStable, LineInv, [Next]_vars
  PROVE  LineInv'
<1>0. /\ Contents \in Seq(Bytes) /\ Contents' \in Seq(Bytes)
      /\ line \in Seq(Bytes) /\ Taken \in Seq(Bytes) /\ Stream \in Seq(Bytes)
      /\ MaxLine \in Nat
  <2>1. Contents \in Seq(Bytes)
    BY ContentsAreASequence
  <2>2. (RingTypeOK => Contents \in Seq(Bytes))'
    BY ContentsAreASequence, PTL
  <2>3. line \in Seq(Bytes) /\ Taken \in Seq(Bytes)
    BY DEF LineInv, Taken, RingTypeOK
  <2> QED
    BY <2>1, <2>2, <2>3, ConcatProperties, CommandInputAssumption DEF Stream
<1>1. ASSUME Stream' = Stream, UNCHANGED <<line, unterminated>> PROVE LineInv'
  BY <1>1 DEF LineInv
<1>2. CASE IsReadAvailable \/ LoadSlot
  <2>1. UNCHANGED <<buffer, head, tail, line, received, unterminated>>
        /\ reader # "return" /\ reader' # "return"
    BY <1>2, SMT DEF IsReadAvailable, LoadSlot, Next, ReadStep, HandleReceived, HostSends,
       OnReceiveComplete, vars, ringVars
  <2>2. Stream' = Stream
    BY <2>1 DEF Stream, Taken, Contents, Occupied
  <2> QED
    BY <1>1, <2>1, <2>2
<1>3. CASE AdvanceTail /\ UNCHANGED <<line, unterminated>>
  <2>1. /\ reader = "advance" /\ reader' = "return"
        /\ Contents # <<>> /\ received' = Head(Contents) /\ Contents' = Tail(Contents)
    BY <1>3, AdvanceTailRefines DEF AdvanceTail, Fifo!HandOver
  <2>2. Taken = line /\ Taken' = Append(line, Head(Contents))
    BY <1>3, <2>1 DEF Taken
  <2>3. Stream' = Stream
    BY <1>0, <2>1, <2>2, StreamStays DEF Stream
  <2> QED
    BY <1>1, <1>3, <2>3
<1>4. CASE HandleReceived
  <2>1. /\ reader = "return" /\ reader' = "poll"
        /\ UNCHANGED <<buffer, head, tail, received, unterminated>>
        /\ line' = IF received = EndOfLine THEN <<>> ELSE Append(line, received)
    BY <1>4 DEF HandleReceived
  <2>2. Contents' = Contents /\ Taken' = line' /\ Taken = Append(line, received)
    BY <2>1 DEF Contents, Occupied, Taken
  <2>3. CASE received = EndOfLine
    <3>1. Stream' = Contents
      BY <1>0, <2>1, <2>2, <2>3, ConcatEmptySeq DEF Stream
    <3>2. SegmentsFit(Contents, unterminated)
      BY <1>0, SegmentsOfTheRest DEF LineInv, Stream
    <3> QED
      BY <2>1, <2>3, <3>1, <3>2 DEF LineInv
  <2>4. CASE received # EndOfLine
    <3>1. Stream' = Stream /\ line' = Append(line, received)
      BY <2>1, <2>2, <2>4 DEF Stream
    <3>2. line' \in Seq(Bytes) /\ \A i \in 1 .. Len(line') : line'[i] # EndOfLine
      <4>1. line \in Seq(Bytes) /\ \A i \in 1 .. Len(line) : line[i] # EndOfLine
        BY DEF LineInv
      <4>2. received \in Bytes
        BY <1>0 DEF RingTypeOK
      <4> QED
        BY <2>4, <3>1, <4>1, <4>2
    <3> QED
      BY <2>1, <3>1, <3>2 DEF LineInv
  <2> QED
    BY <2>3, <2>4
<1>5. ASSUME NEW b \in Bytes, HostSends(b) PROVE LineInv'
  <2>1. /\ OnReceiveComplete(b)
        /\ b = EndOfLine \/ unterminated < MaxLine
        /\ unterminated' = IF head' = head THEN unterminated
                           ELSE IF b = EndOfLine THEN 0 ELSE unterminated + 1
        /\ UNCHANGED <<line, reader, received>>
    <3>1. unterminated' = IF head' = head THEN unterminated
                         ELSE IF b = EndOfLine THEN 0 ELSE unterminated + 1
      BY <1>5 DEF HostSends
    <3> QED
      BY <1>5, <3>1 DEF HostSends, OnReceiveComplete
  <2>2. Contents' = IF head' = head THEN Contents ELSE Append(Contents, b)
    BY <2>1, ArrivalInTheRing
  <2>3. Taken' = Taken
    BY <2>1 DEF Taken
  <2>4. CASE head' = head
    <3>1. Stream' = Stream
      BY <2>2, <2>3, <2>4 DEF Stream
    <3> QED
      BY <1>1, <2>1, <2>4, <3>1
  <2>5. CASE head' # head
    <3>1. Stream' = Append(Stream, b)
      BY <1>0, <2>2, <2>3, <2>5, StreamStays DEF Stream
    <3>2. unterminated \in 0 .. MaxLine /\ SegmentsFit(Stream, unterminated)
      BY DEF LineInv
    <3>3. unterminated' = IF b = EndOfLine THEN 0 ELSE unterminated + 1
      BY <2>1, <2>5
    <3>4. SegmentsFit(Stream', unterminated')
      BY <1>0, <2>1, <3>1, <3>2, <3>3, SegmentsWithOneMore
    <3>5. unterminated' \in 0 .. MaxLine
      BY <1>0, <2>1, <3>2, <3>3
    <3> QED
      BY <2>1, <3>4, <3>5 DEF LineInv
  <2> QED
    BY <2>4, <2>5
<1>6. CASE UNCHANGED vars
  <2>1. Stream' = Stream /\ UNCHANGED <<line, unterminated>>
    BY <1>6 DEF vars, ringVars, Stream, Taken, Contents, Occupied
  <2> QED
    BY <1>1, <2>1
<1> QED
  BY <1>2, <1>3, <1>4, <1>5, <1>6 DEF Next, ReadStep

\* The whole input keeps its types: the indices stay inside the ring, the
\* command inside its buffer, and a line never holds more bytes than the host
\* sends between two line ends, however many are lost.
THEOREM InputTypeCorrect == Spec => []TypeOK
<1>1. Init => LineInv
  <2> SUFFICES ASSUME Init PROVE LineInv
    OBVIOUS
  <2>1. /\ RingTypeOK /\ Occupied = 0 /\ Taken = <<>>
        /\ line = <<>> /\ unterminated = 0
    BY RingAssumption DEF Init, RingInit, RingTypeOK, Slots, Occupied, Taken
  <2>2. Contents = <<>>
    BY <2>1, ContentsAreASequence, EmptySeq
  <2>3. Stream = <<>>
    BY <2>1, <2>2, ConcatEmptySeq DEF Stream
  <2>4. SegmentsFit(<<>>, 0)
    BY DEF SegmentsFit
  <2> QED
    BY <2>1, <2>3, <2>4, CommandInputAssumption DEF LineInv
<1>2. RingTypeOK /\ RingTypeOK' /\ SlotBeingReadIsStable /\ LineInv /\ [Next]_vars
        => LineInv'
  BY StepKeepsLineInv
<1>3. RingTypeOK /\ CommandFits /\ LineInv => TypeOK
  <2> SUFFICES ASSUME RingTypeOK, CommandFits, LineInv PROVE TypeOK
    OBVIOUS
  <2>1. /\ line \in Seq(Bytes) /\ Taken \in Seq(Bytes) /\ Contents \in Seq(Bytes)
    BY ContentsAreASequence DEF LineInv, Taken, RingTypeOK
  <2>2. CASE reader = "return"
    <3>1. Taken = line \o <<received>> /\ <<received>> \in Seq(Bytes)
      BY <2>1, <2>2, AppendIsConcat DEF Taken, RingTypeOK
    <3>2. Stream = line \o (<<received>> \o Contents)
      BY <2>1, <3>1, ConcatAssociative DEF Stream
    <3>3. <<received>> \o Contents \in Seq(Bytes)
      BY <2>1, <3>1, ConcatProperties
    <3> QED
      BY <2>1, <3>2, <3>3, FirstSegmentFits DEF LineInv, TypeOK
  <2>3. CASE reader # "return"
    <3>1. Stream = line \o Contents
      BY <2>3 DEF Stream, Taken
    <3> QED
      BY <2>1, <3>1, FirstSegmentFits DEF LineInv, TypeOK
  <2> QED
    BY <2>2, <2>3
<1>4. Spec => []RingTypeOK
  BY InputDrivesTheRing, RingTypeCorrect
<1> QED
  BY <1>1, <1>2, <1>3, <1>4, CommandAlwaysFits, PolledSlotIsNeverOverwritten, PTL
     DEF Spec
==============================================================================
