---------------------------- MODULE CommandInput ----------------------------
(****************************************************************************)
(* How the Arduino firmware turns received bytes into commands:             *)
(* pollCommandInput of main.cpp drains the ring of AvrUartSerial into a     *)
(* command buffer, edits it on backspace, and hands it to handleCommand at  *)
(* the end of a line.  What handleCommand does is module Firmware.          *)
(*                                                                          *)
(* Bytes fall into the classes the code tells apart: printable ones, the    *)
(* two line ends, the two erase characters, and those that are ignored (of  *)
(* which Nul stands for all).                                               *)
(****************************************************************************)
EXTENDS AvrUartSerial, SequencesExt

CONSTANTS Printable,         \* the bytes from 32 to 126
          EndOfLine,         \* carriage return or line feed
          Erase,             \* backspace or delete
          CommandBufferSize, \* COMMAND_BUFFER_SIZE, terminator included
          MaxLine            \* bound: bytes the host sends between line ends

ASSUME CommandInputAssumption ==
  /\ Bytes = Printable \cup {EndOfLine, Erase, Nul}
  /\ EndOfLine # Erase /\ {EndOfLine, Erase, Nul} \cap Printable = {}
  /\ CommandBufferSize \in Nat \ {0}
  /\ MaxLine \in Nat

VARIABLES command,      \* commandBuffer[0 .. commandLength - 1]
          line,         \* ghost: the bytes handled since the last line end
          unterminated  \* ghost: bytes accepted since the last line end

vars == <<ringVars, command, line, unterminated>>

Init ==
  /\ RingInit
  /\ command = <<>>
  /\ line = <<>>
  /\ unterminated = 0

\* A text of n characters takes one more and still leaves the terminator room.
Fits(n) == n + 1 < CommandBufferSize

------------------------------------------------------------------------------
\* Mutants: the terminator's place forgotten; an over-long line truncated
\* instead of dropped.
EditNoTerminator(text, b) ==
  CASE b = EndOfLine -> <<>>
    [] b = Erase -> IF text = <<>> THEN text ELSE Front(text)
    [] b \in Printable -> IF Len(text) < CommandBufferSize
                            THEN Append(text, b)
                            ELSE <<>>
    [] OTHER -> text

EditTruncating(text, b) ==
  CASE b = EndOfLine -> <<>>
    [] b = Erase -> IF text = <<>> THEN text ELSE Front(text)
    [] b \in Printable -> IF Fits(Len(text)) THEN Append(text, b) ELSE text
    [] OTHER -> text
------------------------------------------------------------------------------

\* The command buffer after byte b: emptied once a line end has had it
\* executed, and emptied as well by the byte that finds it full.
Edit(text, b) ==
  CASE b = EndOfLine -> <<>>
    [] b = Erase -> IF text = <<>> THEN text ELSE Front(text)
    [] b \in Printable -> IF Fits(Len(text)) THEN Append(text, b) ELSE <<>>
    [] OTHER -> text

\* One turn of pollCommandInput's loop, after readChar has returned.
HandleReceived ==
  /\ reader = "return"
  /\ reader' = "poll"
  /\ command' = Edit(command, received)
  /\ line' = IF received = EndOfLine THEN <<>> ELSE Append(line, received)
  /\ UNCHANGED <<buffer, head, tail, value, received, arrivals, unterminated>>

\* The host puts a byte on the wire and the interrupt takes it.
HostSends(b) ==
  /\ b = EndOfLine \/ unterminated < MaxLine
  /\ OnReceiveComplete(b)
  /\ unterminated' = IF head' = head THEN unterminated
                     ELSE IF b = EndOfLine THEN 0 ELSE unterminated + 1
  /\ UNCHANGED <<command, line>>

ReadStep ==
  /\ IsReadAvailable \/ LoadSlot \/ AdvanceTail
  /\ UNCHANGED <<command, line, unterminated>>

Next ==
  \/ ReadStep
  \/ HandleReceived
  \/ \E b \in Bytes : HostSends(b)

\* The main loop polls for ever and each poll drains the ring: a step of the
\* main program that stays enabled is taken.  Nothing makes the host send.
Spec == Init /\ [][Next]_vars /\ WF_vars(ReadStep) /\ WF_vars(HandleReceived)

------------------------------------------------------------------------------
(* Properties.                                                              *)

\* The command buffer always leaves room for its terminator
\* (commandBuffer[commandLength] = '\0').
CommandFits == command \in Seq(Printable) /\ Len(command) < CommandBufferSize

\* The variables have the types of the code's.
TypeOK ==
  /\ RingTypeOK
  /\ CommandFits
  /\ Len(line) <= MaxLine
  /\ unterminated \in 0 .. MaxLine

\* Reference: what is kept of a line without length limit after its erasures.
Kept(text, b) ==
  CASE b \in Printable -> Append(text, b)
    [] b = Erase /\ text # <<>> -> Front(text)
    [] OTHER -> text

Edited(text) ==
  LET kept[n \in 0 .. Len(text)] ==
        IF n = 0 THEN <<>> ELSE Kept(kept[n - 1], text[n])
  IN  kept[Len(text)]

TooLong(text) ==
  \E n \in 0 .. Len(text) :
    Len(Edited(SubSeq(text, 1, n))) >= CommandBufferSize

\* handleCommand receives exactly the edited line, unless the line was too
\* long for the buffer at some point; then it receives the edition of some
\* suffix of it, the bytes that followed the "Command too long." message.
CommandIsTheEditedLine ==
  IF TooLong(line)
    THEN \E n \in 1 .. Len(line) :
           command = Edited(SubSeq(line, n + 1, Len(line)))
    ELSE command = Edited(line)

InUse(i) == \E k \in 1 .. Occupied : i = (tail + k - 1) % Capacity

\* A byte the ring has accepted is read, whatever the host keeps sending
\* (the poll loop of pollCommandInput runs while isReadAvailable).
AcceptedByteIsRead == \A i \in Slots : InUse(i) ~> ~ InUse(i)
==============================================================================
