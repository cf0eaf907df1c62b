------------------------------ MODULE LossyFifo ------------------------------
(****************************************************************************)
(* What the receive side of the serial port promises to the main program:   *)
(* a first-in first-out queue of at most Depth bytes which never blocks the *)
(* sender.  A byte that finds the queue full is lost; no other byte is, no  *)
(* byte is altered, duplicated or reordered.                                *)
(*                                                                          *)
(* `arrivals' is the parity of the number of bytes the wire has carried. It *)
(* makes every arrival visible, so that an implementation cannot pass off   *)
(* the loss of a byte as a stuttering step.                                 *)
(****************************************************************************)
EXTENDS Naturals, Sequences

CONSTANTS Bytes, \* the values a byte can take
          Nul,   \* the value of a byte nobody has written yet
          Depth  \* how many bytes the queue holds

VARIABLES queue,    \* the bytes accepted and not yet handed over
          received, \* the byte handed over last
          arrivals

vars == <<queue, received, arrivals>>

Init ==
  /\ queue = <<>>
  /\ received = Nul
  /\ arrivals = 0

Arrive(b) ==
  /\ arrivals' = 1 - arrivals
  /\ queue' = IF Len(queue) < Depth THEN Append(queue, b) ELSE queue
  /\ UNCHANGED received

HandOver ==
  /\ queue # <<>>
  /\ received' = Head(queue)
  /\ queue' = Tail(queue)
  /\ UNCHANGED arrivals

Next == HandOver \/ \E b \in Bytes : Arrive(b)

Spec == Init /\ [][Next]_vars
==============================================================================
