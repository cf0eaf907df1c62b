-------------------------- MODULE DeviceControlProofs --------------------------
(****************************************************************************)
(* Theorems about the two threads of the console for any number of ports,   *)
(* appearances, commands and elements: types, addresses and focus.          *)
(****************************************************************************)
EXTENDS DeviceControl, FiniteSetTheorems, SequenceTheorems, TLAPS

------------------------------------------------------------------------------
(* Sequences.                                                               *)

\* A selection of a sequence holds nothing but elements of it.
LEMMA SelectionSelects ==
  ASSUME NEW S, NEW es \in Seq(S), NEW places \in SUBSET DOMAIN es,
         NEW sel \in Selection(es, places)
  PROVE  /\ sel \in Seq(S)
         /\ \A k \in 1 .. Len(sel) : \E i \in places : sel[k] = es[i]
<1> DEFINE indices == 1 .. Cardinality(places)
<1>1. IsFiniteSet(places) /\ Cardinality(places) \in Nat
  <2>1. DOMAIN es = 1 .. Len(es) /\ Len(es) \in Nat
    OBVIOUS
  <2>2. IsFiniteSet(1 .. Len(es))
    BY <2>1, FS_Interval
  <2> QED
    BY <2>1, <2>2, FS_Subset, FS_CardinalityType
<1>2. PICK place \in [indices -> places] : sel = [k \in indices |-> es[place[k]]]
  BY DEF Selection
<1>3. \A k \in indices : es[place[k]] \in S
  BY <1>2
<1>4. sel \in [indices -> S]
  BY <1>2, <1>3
<1>5. sel \in Seq(S) /\ Len(sel) = Cardinality(places)
  BY <1>1, <1>4
<1> QED
  BY <1>2, <1>5

\* What is made of reports consists of them.
LEMMA ElementsAreReported ==
  ASSUME NEW reports, NEW es \in ElementsOf(reports)
  PROVE  es \in Seq(reports)
<1>1. PICK n \in 0 .. MaxElements * Cardinality(reports) : es \in [1..n -> reports]
  BY DEF ElementsOf
<1>2. n \in Nat
  BY <1>1
<1> QED
  BY <1>1, <1>2

\* The console's sources of text, and addresses.
LEMMA AllIsNoSource == All \notin Sources
BY DeviceControlAssumption DEF All, Sources

------------------------------------------------------------------------------
(* Types.                                                                   *)

\* The device thread's steps.
LEMMA ConnectKeepsTypes ==
  ASSUME TypeOK, NEW p \in Ports, Connect(p),
         at' \in {at, "startup", "scanSerial", "scanBle"}
  PROVE  TypeOK'
<1> DEFINE new == [id |-> nextId, port |-> p, alive |-> TRUE]
<1>1. devices' = devices \cup {new} /\ nextId' = nextId + 1 /\ nextId \in Nat
  BY DEF Connect, TypeOK
<1>2. devices' \subseteq [id : Nat, port : Ports, alive : BOOLEAN]
  <2>1. new \in [id : Nat, port : Ports, alive : BOOLEAN]
    BY <1>1
  <2>2. devices \subseteq [id : Nat, port : Ports, alive : BOOLEAN]
    BY DEF TypeOK
  <2> HIDE DEF new
  <2> QED
    BY <1>1, <2>1, <2>2
<1>3. \A d \in devices' : d.id < nextId'
  BY <1>1 DEF TypeOK
<1>4. \A d, e \in devices' : d.id = e.id \/ d.port = e.port => d = e
  <2>1. \A d \in devices : d.id # nextId /\ d.port # p
    BY <1>1 DEF Connect, TypeOK
  <2>2. new.id = nextId /\ new.port = p
    OBVIOUS
  <2>3. \A d, e \in devices : d.id = e.id \/ d.port = e.port => d = e
    BY DEF TypeOK
  <2> HIDE DEF new
  <2> QED
    BY <1>1, <2>1, <2>2, <2>3
<1>5. lost' \subseteq 0..nextId' /\ infos' \subseteq 0..nextId'
  BY <1>1 DEF Connect, TypeOK, published
<1> QED
  BY <1>1, <1>2, <1>3, <1>4, <1>5
     DEF Connect, TypeOK, world, published, copies, screen

\* Publishing a snapshot publishes ids that have been given out.
LEMMA SnapshotIsTyped ==
  ASSUME TypeOK, PublishSnapshot, devices' \subseteq devices, nextId' = nextId
  PROVE  /\ expectedFound' \in BOOLEAN /\ startupComplete' \in BOOLEAN
         /\ connected' \in BOOLEAN
         /\ infos' \subseteq 0..nextId'
<1>1. \A d \in devices' : d.id \in 0..nextId'
  BY DEF TypeOK
<1> QED
  BY <1>1 DEF PublishSnapshot

LEMMA DeviceStepKeepsTypes ==
  ASSUME TypeOK, DeviceStep PROVE TypeOK'
<1>1. ASSUME NEW p \in Ports, ConnectAtStartup(p) \/ ConnectAgain(p) PROVE TypeOK'
  BY <1>1, ConnectKeepsTypes DEF ConnectAtStartup, ConnectAgain
<1>2. CASE FinishStartup
  BY <1>2, SnapshotIsTyped
     DEF FinishStartup, TypeOK, world, copies, screen
<1>3. CASE NoteConnected
  BY <1>3 DEF NoteConnected, TypeOK, world, published, copies, screen
<1>4. CASE TakeCommands
  BY <1>4 DEF TakeCommands, TypeOK, world, published, copies, screen
<1>5. CASE Stop
  BY <1>5 DEF Stop, TypeOK, world, private, published, copies, screen
<1>6. CASE WriteCommands
  BY <1>6 DEF WriteCommands, TypeOK, world, published, copies, screen
<1>7. CASE FinishScan
  <2>1. /\ expectedFound' \in BOOLEAN /\ startupComplete' \in BOOLEAN
        /\ connected' \in BOOLEAN /\ infos' \subseteq 0..nextId'
    BY <1>7, SnapshotIsTyped DEF FinishScan, TypeOK, published
  <2> QED
    BY <1>7, <2>1 DEF FinishScan, TypeOK, world, copies, screen
<1>8. CASE ReadDevices
  <2>1. anyConnected' \in BOOLEAN
    BY <1>8 DEF ReadDevices
  <2>2. lost' \subseteq 0..nextId'
    BY <1>8 DEF ReadDevices, TypeOK
  <2>3. texts' \subseteq Sources
    BY <1>8 DEF ReadDevices, TypeOK, From, Sources
  <2>4. at' \in {"report", "erase"}
    BY <1>8 DEF ReadDevices
  <2> QED
    BY <1>8, <2>1, <2>2, <2>3, <2>4
       DEF ReadDevices, TypeOK, world, published, copies, screen
<1>9. CASE EraseLost
  <2>1. devices' \subseteq devices /\ nextId' = nextId /\ lost' = {}
    BY <1>9 DEF EraseLost
  <2> QED
    BY <1>9, <2>1, SnapshotIsTyped DEF EraseLost, TypeOK, world, copies, screen
<1>10. CASE ReportConnected
  BY <1>10 DEF ReportConnected, TypeOK, world, copies, screen
<1> QED
  BY <1>1, <1>2, <1>3, <1>4, <1>5, <1>6, <1>7, <1>8, <1>9, <1>10 DEF DeviceStep

\* The interface's helpers.
LEMMA FocusIsTyped ==
  ASSUME TypeOK, NEW es \in Seq(Sources), ClampFocus(es)
  PROVE  /\ focus' \in Nat /\ consoleFocused' \in BOOLEAN
         /\ es # <<>> => focus' < Len(es)
         /\ es = <<>> => consoleFocused'
<1>1. Len(es) \in Nat /\ (es # <<>> => Len(es) > 0) /\ focus \in Nat
      /\ consoleFocused \in BOOLEAN
  BY DEF TypeOK
<1>2. /\ focus' = IF es = <<>> THEN 0
                ELSE IF focus >= Len(es) THEN Len(es) - 1 ELSE focus
      /\ consoleFocused' = (consoleFocused \/ es = <<>>)
  BY DEF ClampFocus
<1>3. focus' \in Nat /\ (es # <<>> => focus' < Len(es))
  BY <1>1, <1>2
<1>4. consoleFocused' \in BOOLEAN /\ (es = <<>> => consoleFocused')
  BY <1>1, <1>2
<1> QED
  BY <1>3, <1>4

LEMMA EnqueueIsTyped ==
  ASSUME TypeOK, NEW q \in Seq(Sources \cup {All}), Enqueue(q)
  PROVE  commands' \in Seq(Sources \cup {All})
BY DEF Enqueue, TypeOK

LEMMA RequestIsTyped ==
  ASSUME TypeOK, NEW seen, RequestHardwareReport(seen)
  PROVE  /\ commands' \in Seq(Sources \cup {All})
         /\ collecting' \in BOOLEAN /\ reported' \subseteq Sources
<1>1. CASE seen
  <2>1. <<All>> \in Seq(Sources \cup {All})
    OBVIOUS
  <2> QED
    BY <1>1, <2>1, EnqueueIsTyped DEF RequestHardwareReport
<1>2. CASE ~ seen
  BY <1>2 DEF RequestHardwareReport, TypeOK
<1> QED
  BY <1>1, <1>2

\* The elements left by Take, and those polled, are elements there were.
LEMMA SelectedElementsAreTyped ==
  ASSUME TypeOK, NEW places \in SUBSET DOMAIN elements,
         NEW sel \in Selection(elements, places)
  PROVE  sel \in Seq(Sources)
BY SelectionSelects DEF TypeOK

\* What is left of the screen at the end is of its type.
LEMMA ShutdownKeepsTypes ==
  ASSUME TypeOK, RequestShutdown PROVE TypeOK'
<1>1. elements' \in Seq(Sources) /\ focus' \in Nat /\ reported' \subseteq Sources
  BY DEF RequestShutdown
<1>2. {shutdown', inElements', consoleFocused', collecting'} \subseteq BOOLEAN
  BY DEF RequestShutdown
<1>3. {anyConnected', wasConnected', startupComplete', expectedFound', connected',
       sees'} \subseteq BOOLEAN
  BY DEF RequestShutdown, TypeOK, private, published, copies
<1> QED
  BY <1>1, <1>2, <1>3 DEF RequestShutdown, TypeOK, world, private, published, copies

LEMMA UiStepKeepsTypes ==
  ASSUME TypeOK, FocusInRange, UiStep \/ Quit PROVE TypeOK'
<1>1. CASE Started
  <2>1. CASE expectedFound
    BY <1>1, <2>1 DEF Started, TypeOK, world, private, published, copies, screen
  <2>2. CASE ~ expectedFound
    BY <1>1, <2>2, ShutdownKeepsTypes DEF Started
  <2> QED
    BY <2>1, <2>2
<1>2. CASE Take
  <2>1. elements' \in Seq(Sources)
    BY <1>2, SelectedElementsAreTyped DEF Take, OfListed
  <2>2. focus' \in Nat /\ consoleFocused' \in BOOLEAN
    BY <1>2, <2>1, FocusIsTyped DEF Take
  <2>3. /\ commands' \in Seq(Sources \cup {All})
        /\ collecting' \in BOOLEAN /\ reported' \subseteq Sources
    BY <1>2, RequestIsTyped DEF Take, TypeOK
  <2> QED
    BY <1>2, <2>1, <2>2, <2>3 DEF Take, TypeOK, world, private, published
<1>3. CASE Poll
  <2>1. PICK places \in SUBSET DOMAIN elements :
          \E q \in Selection(elements, places) : Enqueue(q)
    BY <1>3 DEF Poll
  <2>2. PICK q \in Selection(elements, places) : Enqueue(q)
    BY <2>1
  <2>3. q \in Seq(Sources \cup {All})
    BY <2>2, SelectedElementsAreTyped
  <2>4. commands' \in Seq(Sources \cup {All})
    BY <2>2, <2>3, EnqueueIsTyped
  <2> QED
    BY <1>3, <2>4 DEF Poll, TypeOK, world, private, published, copies, screen
<1>4. CASE NoKey \/ F1 \/ Tab \/ ShiftTab
  <2>1. elements \in Seq(Sources) /\ Len(elements) \in Nat /\ focus \in Nat
        /\ (elements # <<>> => Len(elements) > 0)
    BY DEF TypeOK
  <2>2. {consoleFocused, inElements} \subseteq BOOLEAN
    BY DEF TypeOK
  <2>3. UNCHANGED <<commands, elements, collecting, reported>>
    BY <1>4 DEF NoKey, F1, Tab, ShiftTab, screen
  <2>4. focus' \in Nat
    BY <1>4, <2>1 DEF NoKey, F1, Tab, ShiftTab, screen
  <2>5. {consoleFocused', inElements'} \subseteq BOOLEAN
    <3>1. CASE NoKey
      BY <3>1, <2>2 DEF NoKey, screen
    <3>2. CASE F1
      BY <3>2 DEF F1
    <3>3. CASE Tab
      <4>1. inElements' = inElements
        BY <3>3 DEF Tab
      <4>2. \/ consoleFocused' = (elements = <<>>)
            \/ consoleFocused' = (focus + 1 >= Len(elements))
        BY <3>3 DEF Tab
      <4>3. (elements = <<>>) \in BOOLEAN /\ (focus + 1 >= Len(elements)) \in BOOLEAN
        BY <2>1
      <4>4. consoleFocused' \in BOOLEAN
        BY <4>2, <4>3, Zenon
      <4> QED
        BY <2>2, <4>1, <4>4
    <3>4. CASE ShiftTab
      <4>1. inElements' = inElements
        BY <3>4 DEF ShiftTab
      <4>2. \/ consoleFocused' = (elements = <<>>)
            \/ consoleFocused' = (focus = 0)
        BY <3>4 DEF ShiftTab
      <4>3. (elements = <<>>) \in BOOLEAN /\ (focus = 0) \in BOOLEAN
        BY Zenon
      <4>4. consoleFocused' \in BOOLEAN
        BY <4>2, <4>3, Zenon
      <4> QED
        BY <2>2, <4>1, <4>4
    <3> QED
      BY <1>4, <3>1, <3>2, <3>3, <3>4
  <2> QED
    BY <1>4, <2>3, <2>4, <2>5 DEF NoKey, F1, Tab, ShiftTab, Pressed, TypeOK, world, private,
                      published, copies
<1>5. CASE F2
  BY <1>5, RequestIsTyped DEF F2, Pressed, TypeOK, world, private, published, copies
<1>6. CASE Enter \/ ElementKey
  <2>1. commands' \in Seq(Sources \cup {All})
    <3>1. CASE Enter
      <4>1. <<All>> \in Seq(Sources \cup {All})
        OBVIOUS
      <4> QED
        BY <3>1, <4>1, EnqueueIsTyped DEF Enter
    <3>2. CASE ElementKey
      <4> DEFINE e == elements[focus + 1]
      <4>1. Enqueue(<<e, e>>)
        BY <3>2 DEF ElementKey
      <4>2. e \in Sources
        BY <3>2, FocusInRange DEF ElementKey, TypeOK, FocusInRange
      <4>3. <<e, e>> \in Seq(Sources \cup {All})
        BY <4>2
      <4> QED
        BY <4>1, <4>3, EnqueueIsTyped
    <3> QED
      BY <1>6, <3>1, <3>2
  <2> QED
    BY <1>6, <2>1 DEF Enter, ElementKey, Pressed, TypeOK, world, private, published,
                      copies, screen
<1>7. CASE Finish
  <2>1. elements' \in Seq({r \in reported : r.id \in listed})
    BY <1>7, ElementsAreReported DEF Finish
  <2>2. elements' \in Seq(Sources)
    BY <2>1 DEF TypeOK
  <2>3. focus' \in Nat /\ consoleFocused' \in BOOLEAN
    BY <1>7, <2>2, FocusIsTyped DEF Finish
  <2>4. commands' \in Seq(Sources \cup {All})
    BY <1>7, <2>2, EnqueueIsTyped DEF Finish
  <2> QED
    BY <1>7, <2>2, <2>3, <2>4 DEF Finish, TypeOK, world, private, published, copies
<1>8. CASE Quit
  BY <1>8, ShutdownKeepsTypes DEF Quit
<1>9. CASE Join
  BY <1>9 DEF Join, TypeOK, world, private, published, copies, screen
<1> QED
  BY <1>1, <1>2, <1>3, <1>4, <1>5, <1>6, <1>7, <1>8, <1>9 DEF UiStep

\* Devices come and go.
LEMMA WorldKeepsTypes ==
  ASSUME TypeOK, NEW p \in Ports, Plug(p) \/ Unplug(p) PROVE TypeOK'
<1>1. CASE Plug(p)
  BY <1>1, DeviceControlAssumption DEF Plug, TypeOK, private, published, copies, screen
<1>2. CASE Unplug(p)
  <2> DEFINE after(d) == IF d.port = p THEN [d EXCEPT !.alive = FALSE] ELSE d
  <2>1. devices' = {after(d) : d \in devices}
    BY <1>2 DEF Unplug
  <2>2. \A d \in devices : /\ after(d) \in [id : Nat, port : Ports, alive : BOOLEAN]
                           /\ after(d).id = d.id /\ after(d).port = d.port
    BY DEF TypeOK
  <2>3. /\ \A d \in devices : d.id < nextId
        /\ \A d, e \in devices : d.id = e.id \/ d.port = e.port => d = e
    BY DEF TypeOK
  <2> HIDE DEF after
  <2>4. devices' \subseteq [id : Nat, port : Ports, alive : BOOLEAN]
    BY <2>1, <2>2
  <2>5. nextId' = nextId
    BY <1>2 DEF Unplug
  <2>6. \A d \in devices' : d.id < nextId'
    BY <2>1, <2>2, <2>3, <2>5
  <2>7. \A d, e \in devices' : d.id = e.id \/ d.port = e.port => d = e
    BY <2>1, <2>2, <2>3
  <2>8. plugged' \subseteq Ports /\ plugs' \in 0..MaxPlugs
    BY <1>2, DeviceControlAssumption DEF Unplug, TypeOK
  <2> QED
    BY <1>2, <2>4, <2>5, <2>6, <2>7, <2>8
       DEF Unplug, TypeOK, published, copies, screen
<1> QED
  BY <1>1, <1>2

LEMMA TypesStay ==
  ASSUME TypeOK, FocusInRange, [Next]_vars PROVE TypeOK'
<1>1. CASE UNCHANGED vars
  BY <1>1 DEF vars, TypeOK, world, private, published, copies, screen
<1>2. CASE Terminated
  BY <1>1, <1>2 DEF Terminated
<1> QED
  BY <1>1, <1>2, WorldKeepsTypes, DeviceStepKeepsTypes, UiStepKeepsTypes DEF Next

LEMMA TypesStart ==
  ASSUME Init PROVE TypeOK /\ FocusInRange
<1>1. plugs \in 0..MaxPlugs
  BY DeviceControlAssumption DEF Init
<1>2. elements \in Seq(Sources)
  BY DEF Init
<1>3. batch \in Seq(Sources \cup {All}) /\ commands \in Seq(Sources \cup {All})
  BY DEF Init
<1>4. {anyConnected, wasConnected, shutdown, startupComplete, expectedFound, connected,
       sees, inElements, consoleFocused, collecting} \subseteq BOOLEAN
  BY DEF Init
<1>5. lost \subseteq 0..nextId /\ infos \subseteq 0..nextId /\ nextId \in Nat
  BY DEF Init
<1>6. /\ devices \subseteq [id : Nat, port : Ports, alive : BOOLEAN]
      /\ \A d \in devices : d.id < nextId
      /\ \A d, e \in devices : d.id = e.id \/ d.port = e.port => d = e
  BY DEF Init
<1>7. plugged \subseteq Ports /\ texts \subseteq Sources /\ reported \subseteq Sources
  BY DEF Init
<1>8. FocusInRange
  BY DEF Init, FocusInRange
<1>9. focus \in Nat /\ at = "startup" /\ ui = "startup"
  BY DEF Init
<1> QED
  BY <1>1, <1>2, <1>3, <1>4, <1>5, <1>6, <1>7, <1>8, <1>9 DEF TypeOK

------------------------------------------------------------------------------
(* The focus.                                                               *)

LEMMA FocusStays ==
  ASSUME TypeOK, FocusInRange, [Next]_vars PROVE FocusInRange'
<1> DEFINE same == UNCHANGED <<elements, focus, consoleFocused>>
<1>0. ASSUME same PROVE FocusInRange'
  BY <1>0 DEF FocusInRange
<1>1. ASSUME NEW p \in Ports, Plug(p) \/ Unplug(p) PROVE FocusInRange'
  BY <1>0, <1>1 DEF Plug, Unplug, screen
<1>2. CASE DeviceStep
  BY <1>0, <1>2 DEF DeviceStep, ConnectAtStartup, ConnectAgain, Connect, FinishStartup,
     NoteConnected, TakeCommands, Stop, WriteCommands, FinishScan, ReadDevices,
     EraseLost, ReportConnected, screen
<1>3. ASSUME RequestShutdown PROVE FocusInRange'
  BY <1>3 DEF RequestShutdown, FocusInRange
<1>4. CASE Started
  BY <1>0, <1>3, <1>4 DEF Started, screen
<1>5. CASE Take
  <2>1. elements' \in Seq(Sources)
    BY <1>5, SelectedElementsAreTyped DEF Take, OfListed
  <2> QED
    BY <1>5, <2>1, FocusIsTyped DEF Take, FocusInRange
<1>6. CASE Poll \/ NoKey \/ Enter \/ ElementKey \/ Join
  BY <1>0, <1>6 DEF Poll, NoKey, Enter, ElementKey, Join, screen
<1>7. CASE F1 \/ F2
  BY <1>7 DEF F1, F2, FocusInRange
<1>8. CASE Tab \/ ShiftTab
  <2>1. /\ Len(elements) \in Nat /\ focus \in Nat /\ elements' = elements
        /\ (elements # <<>> => Len(elements) > 0)
    BY <1>8 DEF TypeOK, Tab, ShiftTab
  <2>2. elements # <<>> => focus' < Len(elements)
    BY <1>8, <2>1 DEF Tab, ShiftTab, FocusInRange
  <2>3. elements = <<>> => consoleFocused'
    BY <1>8 DEF Tab, ShiftTab, FocusInRange
  <2> QED
    BY <2>1, <2>2, <2>3 DEF FocusInRange
<1>9. CASE Finish
  <2>1. elements' \in Seq({r \in reported : r.id \in listed})
    BY <1>9, ElementsAreReported DEF Finish
  <2>2. elements' \in Seq(Sources)
    BY <2>1 DEF TypeOK
  <2> QED
    BY <1>9, <2>2, FocusIsTyped DEF Finish, FocusInRange
<1>10. CASE Quit
  BY <1>3, <1>10 DEF Quit
<1>11. CASE Terminated \/ UNCHANGED vars
  BY <1>0, <1>11 DEF Terminated, vars, screen
<1> QED
  BY <1>1, <1>2, <1>4, <1>5, <1>6, <1>7, <1>8, <1>9, <1>10, <1>11 DEF Next, UiStep

\* Every variable has its type, and connections differ in id and port.
THEOREM TypeCorrect == Spec => []TypeOK
<1>1. Init => TypeOK /\ FocusInRange
  BY TypesStart
<1>2. TypeOK /\ FocusInRange /\ [Next]_vars => TypeOK' /\ FocusInRange'
  BY TypesStay, FocusStays
<1> QED
  BY <1>1, <1>2, PTL DEF Spec

\* The focused element exists, whichever devices vanish between two keys.
THEOREM FocusAlwaysInRange == Spec => []FocusInRange
<1>1. Init => TypeOK /\ FocusInRange
  BY TypesStart
<1>2. TypeOK /\ FocusInRange /\ [Next]_vars => TypeOK' /\ FocusInRange'
  BY TypesStay, FocusStays
<1> QED
  BY <1>1, <1>2, PTL DEF Spec

------------------------------------------------------------------------------
(* Addresses.                                                               *)

\* A source whose id has been given out, and to no other device.
Known(s) ==
  /\ s \in Sources
  /\ s.id < nextId
  /\ \A d \in devices : d.id = s.id => d.port = s.port

AllKnown(es) == \A i \in DOMAIN es : Known(es[i])
Addressed(q) == \A i \in DOMAIN q : q[i] = All \/ Known(q[i])

\* Whatever is remembered of a device is known, be that device still there or
\* not.
AddressInv ==
  /\ \A s \in texts \cup reported : Known(s)
  /\ AllKnown(elements)
  /\ Addressed(batch) /\ Addressed(commands)

\* What was known stays known: a new device gets a new id, and no other device
\* changes its id or port.
LEMMA KnownStays ==
  ASSUME TypeOK, FocusInRange, [Next]_vars, NEW s, Known(s) PROVE Known(s)'
<1> DEFINE grown == /\ nextId' >= nextId
                    /\ \A d \in devices' :
                         \/ d.id >= nextId
                         \/ \E e \in devices : e.id = d.id /\ e.port = d.port
<1>1. grown
  <2>1. ASSUME UNCHANGED <<devices, nextId>> PROVE grown
    BY <2>1 DEF TypeOK
  <2>2. ASSUME NEW p \in Ports, Plug(p) \/ Unplug(p) PROVE grown
    <3>1. CASE Plug(p)
      BY <2>1, <3>1 DEF Plug, private
    <3>2. CASE Unplug(p)
      <4>1. \A d \in devices : /\ [d EXCEPT !.alive = FALSE].id = d.id
                               /\ [d EXCEPT !.alive = FALSE].port = d.port
        BY DEF TypeOK
      <4>2. /\ nextId \in Nat /\ nextId' = nextId
            /\ devices' = {IF d.port = p THEN [d EXCEPT !.alive = FALSE] ELSE d :
                             d \in devices}
        BY <3>2 DEF Unplug, TypeOK
      <4>3. nextId' >= nextId
        BY <4>2
      <4>4. ASSUME NEW d \in devices'
            PROVE  \E e \in devices : e.id = d.id /\ e.port = d.port
        <5>1. PICK e \in devices :
                 d = IF e.port = p THEN [e EXCEPT !.alive = FALSE] ELSE e
          BY <4>2
        <5>2. e.id = d.id /\ e.port = d.port
          BY <4>1, <5>1
        <5> QED
          BY <5>2
      <4> QED
        BY <4>3, <4>4
    <3> QED
      BY <2>2, <3>1, <3>2
  <2>3. ASSUME NEW p \in Ports, Connect(p) PROVE grown
    BY <2>3 DEF Connect, TypeOK
  <2>4. CASE DeviceStep
    <3>1. CASE EraseLost
      BY <3>1 DEF EraseLost, TypeOK
    <3> QED
      BY <2>1, <2>3, <2>4, <3>1 DEF DeviceStep, ConnectAtStartup, ConnectAgain,
         FinishStartup, NoteConnected, TakeCommands, Stop, WriteCommands, FinishScan,
         ReadDevices, ReportConnected, private
  <2>5. CASE UiStep \/ Quit
    BY <2>1, <2>5 DEF UiStep, Quit, Started, RequestShutdown, Take, Poll, NoKey, F1,
       F2, Tab, ShiftTab, Enter, ElementKey, Finish, Join, Pressed, private
  <2>6. CASE Terminated \/ UNCHANGED vars
    BY <2>1, <2>6 DEF Terminated, vars, private
  <2> QED
    BY <2>2, <2>4, <2>5, <2>6 DEF Next
<1>2. nextId' \in Nat /\ nextId \in Nat
  BY TypesStay DEF TypeOK
<1>3. s \in Sources /\ s.id \in Nat /\ s.id < nextId
  BY DEF Known, Sources
<1>4. s.id < nextId'
  BY <1>1, <1>2, <1>3
<1>5. ASSUME NEW d \in devices', d.id = s.id PROVE d.port = s.port
  <2>1. PICK e \in devices : e.id = d.id /\ e.port = d.port
    BY <1>1, <1>2, <1>3, <1>5
  <2> QED
    BY <1>5, <2>1 DEF Known
<1> QED
  BY <1>3, <1>4, <1>5 DEF Known

\* What is enqueued joins what is known.
LEMMA EnqueueIsAddressed ==
  ASSUME TypeOK, AddressInv, NEW q \in Seq(Sources \cup {All}), Addressed(q),
         Enqueue(q)
  PROVE  Addressed(commands')
<1>1. CASE commands' = commands
  BY <1>1 DEF AddressInv
<1>2. CASE commands' = commands \o q
  <2>1. commands \in Seq(Sources \cup {All})
    BY DEF TypeOK
  <2>2. ASSUME NEW i \in DOMAIN (commands \o q)
        PROVE  \/ i \in DOMAIN commands /\ (commands \o q)[i] = commands[i]
               \/ /\ i - Len(commands) \in DOMAIN q
                  /\ (commands \o q)[i] = q[i - Len(commands)]
    BY <2>1, ConcatProperties
  <2> QED
    BY <1>2, <2>2 DEF Addressed, AddressInv
<1> QED
  BY <1>1, <1>2 DEF Enqueue

LEMMA RequestIsAddressed ==
  ASSUME TypeOK, AddressInv, NEW seen, RequestHardwareReport(seen)
  PROVE  Addressed(commands') /\ \A s \in reported' : Known(s)
<1>1. CASE seen
  <2>1. <<All>> \in Seq(Sources \cup {All}) /\ Addressed(<<All>>)
    BY DEF Addressed
  <2> QED
    BY <1>1, <2>1, EnqueueIsAddressed DEF RequestHardwareReport
<1>2. CASE ~ seen
  BY <1>2 DEF RequestHardwareReport, AddressInv
<1> QED
  BY <1>1, <1>2

\* Whatever a step makes the console remember of a device is known before it.
LEMMA StepRemembersTheKnown ==
  ASSUME TypeOK, FocusInRange, AddressInv, [Next]_vars
  PROVE  /\ \A s \in texts' \cup reported' : Known(s)
         /\ AllKnown(elements')
         /\ Addressed(batch') /\ Addressed(commands')
<1> DEFINE goal == /\ \A s \in texts' \cup reported' : Known(s)
                   /\ AllKnown(elements')
                   /\ Addressed(batch') /\ Addressed(commands')
<1> SUFFICES goal
  OBVIOUS
<1>0. ASSUME UNCHANGED <<texts, reported, elements, batch, commands>> PROVE goal
  BY <1>0 DEF AddressInv
<1>e. AllKnown(<<>>) /\ Addressed(<<>>)
  BY DEF AllKnown, Addressed
<1>1. ASSUME NEW p \in Ports, Plug(p) \/ Unplug(p) PROVE goal
  BY <1>0, <1>1 DEF Plug, Unplug, private, screen
<1>2. CASE DeviceStep
  <2>1. CASE TakeCommands
    BY <1>e, <2>1 DEF TakeCommands, AddressInv, screen
  <2>2. CASE WriteCommands
    BY <1>e, <2>2 DEF WriteCommands, AddressInv, screen
  <2>3. CASE ReadDevices
    <3>1. \A d \in devices : Known(From(d))
      BY DEF TypeOK, From, Known, Sources
    <3>2. \A s \in texts' : Known(s)
      BY <2>3, <3>1 DEF ReadDevices, AddressInv
    <3> QED
      BY <2>3, <3>2 DEF ReadDevices, AddressInv, screen
  <2> QED
    BY <1>0, <1>2, <2>1, <2>2, <2>3 DEF DeviceStep, ConnectAtStartup, ConnectAgain,
       Connect, FinishStartup, NoteConnected, Stop, FinishScan, EraseLost,
       ReportConnected, private, screen
<1>3. ASSUME RequestShutdown PROVE goal
  BY <1>e, <1>3 DEF RequestShutdown, AddressInv, private
<1>4. CASE Started
  BY <1>0, <1>3, <1>4 DEF Started, private, screen
<1>5. CASE Take
  <2>1. AllKnown(elements')
    <3>1. PICK places \in SUBSET DOMAIN elements : elements' \in Selection(elements, places)
      BY <1>5 DEF Take, OfListed
    <3> QED
      <4>1. /\ elements' \in Seq(Sources)
            /\ \A k \in 1 .. Len(elements') : \E i \in places : elements'[k] = elements[i]
        BY <3>1, SelectionSelects DEF TypeOK
      <4>2. DOMAIN elements' = 1 .. Len(elements')
        BY <4>1
      <4> QED
        BY <4>1, <4>2 DEF AllKnown, AddressInv
  <2>2. Addressed(commands') /\ \A s \in reported' : Known(s)
    BY <1>5, RequestIsAddressed DEF Take, AddressInv
  <2> QED
    BY <1>5, <2>1, <2>2 DEF Take, AddressInv, private
<1>6. CASE Poll
  <2>0. PICK places \in SUBSET DOMAIN elements :
          \E q \in Selection(elements, places) : Enqueue(q)
    BY <1>6 DEF Poll
  <2>1. PICK q \in Selection(elements, places) : Enqueue(q)
    BY <2>0
  <2>2. q \in Seq(Sources) /\ Addressed(q)
    <3>1. elements \in Seq(Sources) /\ AllKnown(elements)
      BY DEF TypeOK, AddressInv
    <3>2. /\ q \in Seq(Sources)
          /\ \A k \in 1 .. Len(q) : \E i \in places : q[k] = elements[i]
      BY <2>1, <3>1, SelectionSelects
    <3>3. \A i \in places : Known(elements[i])
      BY <3>1 DEF AllKnown
    <3>4. DOMAIN q = 1 .. Len(q)
      BY <3>2
    <3> QED
      BY <3>2, <3>3, <3>4 DEF Addressed
  <2>3. Addressed(commands')
    BY <2>1, <2>2, EnqueueIsAddressed
  <2> QED
    BY <1>6, <2>3 DEF Poll, AddressInv, private, screen
<1>7. CASE NoKey \/ F1 \/ Tab \/ ShiftTab \/ Join \/ Terminated \/ UNCHANGED vars
  BY <1>0, <1>7 DEF NoKey, F1, Tab, ShiftTab, Pressed, Join, Terminated, vars,
     private, screen
<1>8. CASE F2
  BY <1>8, RequestIsAddressed DEF F2, Pressed, AddressInv, private
<1>9. CASE Enter
  <2>1. <<All>> \in Seq(Sources \cup {All}) /\ Addressed(<<All>>)
    BY DEF Addressed
  <2>2. Addressed(commands')
    BY <1>9, <2>1, EnqueueIsAddressed DEF Enter
  <2> QED
    BY <1>9, <2>2 DEF Enter, Pressed, AddressInv, private, screen
<1>10. CASE ElementKey
  <2> DEFINE e == elements[focus + 1]
  <2>1. Enqueue(<<e, e>>)
    BY <1>10 DEF ElementKey
  <2>2. focus + 1 \in DOMAIN elements
    BY <1>10 DEF ElementKey, TypeOK, FocusInRange
  <2>3. Known(e) /\ e \in Sources
    BY <2>2 DEF AddressInv, AllKnown, Known
  <2> HIDE DEF e
  <2>4. <<e, e>> \in Seq(Sources \cup {All}) /\ Addressed(<<e, e>>)
    BY <2>3 DEF Addressed
  <2>5. Addressed(commands')
    BY <2>1, <2>4, EnqueueIsAddressed
  <2> QED
    BY <1>10, <2>5 DEF ElementKey, Pressed, AddressInv, private, screen
<1>11. CASE Finish
  <2>1. elements' \in Seq({r \in reported : r.id \in listed})
    BY <1>11, ElementsAreReported DEF Finish
  <2>2. \A i \in DOMAIN elements' : elements'[i] \in reported
    BY <2>1
  <2>3. AllKnown(elements') /\ Addressed(elements')
    BY <2>2 DEF AllKnown, Addressed, AddressInv
  <2>4. elements' \in Seq(Sources \cup {All})
    BY <2>1 DEF TypeOK
  <2>5. Addressed(commands')
    BY <1>11, <2>3, <2>4, EnqueueIsAddressed DEF Finish
  <2> QED
    BY <1>11, <2>3, <2>5 DEF Finish, AddressInv, private
<1>12. CASE Quit
  BY <1>3, <1>12 DEF Quit
<1> QED
  BY <1>1, <1>2, <1>4, <1>5, <1>6, <1>7, <1>8, <1>9, <1>10, <1>11, <1>12
     DEF Next, UiStep

LEMMA AddressesStay ==
  ASSUME TypeOK, FocusInRange, AddressInv, [Next]_vars PROVE AddressInv'
<1>1. \A s \in texts' \cup reported' : Known(s)'
  BY StepRemembersTheKnown, KnownStays
<1>2. \A i \in DOMAIN elements' : Known(elements'[i])
  BY StepRemembersTheKnown DEF AllKnown
<1>3. \A i \in DOMAIN batch' : batch'[i] = All \/ Known(batch'[i])
  BY StepRemembersTheKnown DEF Addressed
<1>4. \A i \in DOMAIN commands' : commands'[i] = All \/ Known(commands'[i])
  BY StepRemembersTheKnown DEF Addressed
<1>5. ASSUME NEW s, Known(s)
      PROVE  s \in Sources /\ s.id < nextId'
             /\ \A d \in devices' : d.id = s.id => d.port = s.port
  BY <1>5, KnownStays DEF Known
<1> QED
  BY <1>1, <1>2, <1>3, <1>4, <1>5 DEF AddressInv, AllKnown, Addressed, Known, All

\* No command ever reaches a device other than the one its element came from,
\* however devices come and go.
THEOREM CommandsAlwaysReachTheirDevice == Spec => []CommandsReachTheirDevice
<1> DEFINE inv == TypeOK /\ FocusInRange /\ AddressInv
<1>1. Init => inv
  <2>1. Init => AddressInv
    BY DEF Init, AddressInv, AllKnown, Addressed
  <2> QED
    BY <2>1, TypesStart
<1>2. inv /\ [Next]_vars => inv'
  BY TypesStay, FocusStays, AddressesStay
<1>3. inv => CommandsReachTheirDevice
  <2> SUFFICES ASSUME inv, NEW c \in Range(batch \o commands), NEW d \in devices,
                      IsFor(c, d)
               PROVE  c.port \in {Everyone, d.port}
    BY DEF CommandsReachTheirDevice
  <2>1. batch \in Seq(Sources \cup {All}) /\ commands \in Seq(Sources \cup {All})
    BY DEF TypeOK
  <2>2. PICK i \in DOMAIN (batch \o commands) : c = (batch \o commands)[i]
    BY DEF Range
  <2>3. c = All \/ Known(c)
    <3>1. \/ i \in DOMAIN batch /\ c = batch[i]
          \/ i - Len(batch) \in DOMAIN commands /\ c = commands[i - Len(batch)]
      BY <2>1, <2>2, ConcatProperties
    <3> QED
      BY <3>1 DEF AddressInv, Addressed
  <2>4. CASE c = All
    BY <2>4 DEF All
  <2>5. CASE Known(c)
    <3>1. c.id \in Nat
      BY <2>5 DEF Known, Sources
    <3>2. c.id = d.id
      BY <3>1, DeviceControlAssumption DEF IsFor
    <3> QED
      BY <2>5, <3>2 DEF Known
  <2> QED
    BY <2>3, <2>4, <2>5
<1> QED
  BY <1>1, <1>2, <1>3, PTL DEF Spec

==============================================================================
