---------------------------- MODULE AvrUartSerial ----------------------------
(****************************************************************************)
(* The receive path of the Arduino firmware's UART (AvrUartSerial.cpp): a   *)
(* ring buffer filled by the USART0_RX interrupt and emptied by the main    *)
(* program.  The interrupt may fire between any two accesses the main       *)
(* program makes to the volatile indices, so readChar is two steps: the     *)
(* load of the slot and the store of the new tail.                          *)
(****************************************************************************)
EXTENDS Naturals, Sequences

CONSTANTS Bytes,    \* the values a received byte can take
          Nul,      \* the value static storage starts with
          Capacity  \* RECEIVE_BUFFER_CAPACITY

ASSUME RingAssumption ==
  /\ Nul \in Bytes
  /\ Capacity \in Nat \ {0, 1}

VARIABLES buffer,   \* g_receiveBuffer
          head,     \* g_receiveHead, written by the interrupt only
          tail,     \* g_receiveTail, written by the main program only
          reader,   \* where the main program is in its poll loop
          value,    \* readChar's local copy of the slot
          received, \* what readChar returned last
          arrivals  \* ghost: parity of the bytes the wire has carried

ringVars == <<buffer, head, tail, reader, value, received, arrivals>>

Slots == 0 .. Capacity - 1

\* The index after i: the code masks with Capacity - 1, a power of two less
\* one, which is the remainder by Capacity.
Following(i) == (i + 1) % Capacity

RingInit ==
  /\ buffer = [i \in Slots |-> Nul]
  /\ head = 0
  /\ tail = 0
  /\ reader = "poll"
  /\ value = Nul
  /\ received = Nul
  /\ arrivals = 0

------------------------------------------------------------------------------
\* Mutants of the definitions below: no test for a full ring, a test that
\* gives up one slot too early, a comparison that forgets the indices wrap.
OnReceiveCompleteOverwriting(b) ==
  /\ arrivals' = 1 - arrivals
  /\ buffer' = [buffer EXCEPT ![head] = b]
  /\ head' = Following(head)
  /\ UNCHANGED <<tail, reader, value, received>>

OnReceiveCompleteEarlyFull(b) ==
  /\ arrivals' = 1 - arrivals
  /\ IF Following(Following(head)) # tail
       THEN /\ buffer' = [buffer EXCEPT ![head] = b]
            /\ head' = Following(head)
       ELSE UNCHANGED <<buffer, head>>
  /\ UNCHANGED <<tail, reader, value, received>>

IsReadAvailableNoWrap ==
  /\ reader = "poll"
  /\ head > tail
  /\ reader' = "load"
  /\ UNCHANGED <<buffer, head, tail, value, received, arrivals>>
------------------------------------------------------------------------------

\* The interrupt handler: the byte is stored unless it would make head meet
\* tail, which is how an empty ring looks.
OnReceiveComplete(b) ==
  /\ arrivals' = 1 - arrivals
  /\ IF Following(head) # tail
       THEN /\ buffer' = [buffer EXCEPT ![head] = b]
            /\ head' = Following(head)
       ELSE UNCHANGED <<buffer, head>>
  /\ UNCHANGED <<tail, reader, value, received>>

IsReadAvailable ==
  /\ reader = "poll"
  /\ head # tail
  /\ reader' = "load"
  /\ UNCHANGED <<buffer, head, tail, value, received, arrivals>>

LoadSlot ==
  /\ reader = "load"
  /\ value' = buffer[tail]
  /\ reader' = "advance"
  /\ UNCHANGED <<buffer, head, tail, received, arrivals>>

AdvanceTail ==
  /\ reader = "advance"
  /\ tail' = Following(tail)
  /\ received' = value
  /\ reader' = "return"
  /\ UNCHANGED <<buffer, head, value, arrivals>>

\* The caller of readChar consumes the byte and polls again.
Consume ==
  /\ reader = "return"
  /\ reader' = "poll"
  /\ UNCHANGED <<buffer, head, tail, value, received, arrivals>>

RingNext ==
  \/ IsReadAvailable
  \/ LoadSlot
  \/ AdvanceTail
  \/ Consume
  \/ \E b \in Bytes : OnReceiveComplete(b)

RingSpec == RingInit /\ [][RingNext]_ringVars

------------------------------------------------------------------------------
(* Properties.                                                              *)

RingTypeOK ==
  /\ buffer \in [Slots -> Bytes]
  /\ head \in Slots
  /\ tail \in Slots
  /\ reader \in {"poll", "load", "advance", "return"}
  /\ value \in Bytes
  /\ received \in Bytes
  /\ arrivals \in {0, 1}

\* How many bytes wait in the ring, and which.
Occupied == IF head >= tail THEN head - tail ELSE head + Capacity - tail

Contents == [i \in 1 .. Occupied |-> buffer[(tail + i - 1) % Capacity]]

\* While readChar is under way the ring is not empty, and the interrupt never
\* overwrites the slot being read (AvrUartSerial::readChar, lines 41-48,
\* against onReceiveComplete, lines 58-69).
SlotBeingReadIsStable ==
  /\ reader \in {"load", "advance"} => head # tail
  /\ reader = "advance" => value = buffer[tail]

\* The ring, with its two index variables and its two-step read, is the
\* lossy queue of Capacity - 1 bytes.
Fifo == INSTANCE LossyFifo WITH queue <- Contents, Depth <- Capacity - 1

ImplementsLossyFifo == Fifo!Spec
==============================================================================
