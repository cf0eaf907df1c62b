----------------------------- MODULE DeviceControl -----------------------------
(****************************************************************************)
(* The two threads of the interactive console (interactiveConsole/src/      *)
(* main.cpp).  The device thread connects to serial ports and a BLE port,   *)
(* writes the commands it finds in a queue and publishes what devices say   *)
(* and which devices there are.  The user interface thread takes what was   *)
(* published, keeps the boxes ("elements") of the connected hardware and    *)
(* the keyboard focus, and enqueues commands.  They share one mutex; every  *)
(* action here is at most one critical section of the device thread.        *)
(*                                                                          *)
(* Of an event or an element only the connection it came from is kept, with *)
(* the port as a witness of which device that is, and of a command its      *)
(* number and address: what they say is the business of the firmware.       *)
(****************************************************************************)
EXTENDS Naturals, Sequences, FiniteSets, SequencesExt

CONSTANTS SerialPorts, Ble, \* where a device may be
          Everyone,         \* the address of a command for all devices
          MaxPlugs,         \* bound: how often devices appear or vanish
          MaxQueued,        \* bound: commands on their way (a full queue
                            \* delays the user interface, in the model only)
          MaxElements       \* bound: elements in the report of one device

ASSUME DeviceControlAssumption ==
  /\ Ble \notin SerialPorts
  /\ Everyone \notin Nat /\ Everyone \notin SerialPorts \cup {Ble}
  /\ MaxPlugs \in Nat /\ MaxQueued \in Nat /\ MaxElements \in Nat

Ports == SerialPorts \cup {Ble}

VARIABLES
  plugged, plugs,        \* ports with a device that answers; changes so far
  at,                    \* where the device thread is
  devices, nextId,       \* connected_devices, next_connection_id
  batch, lost,           \* the commands taken; lost_connection_ids
  anyConnected,          \* any_connected
  wasConnected,          \* the thread's own `connected'
  \* DeviceControlState
  shutdown, startupComplete, expectedFound, connected, infos, commands, texts,
  ui,                    \* where the user interface thread is
  sees, listed,          \* its copies of connected and device_infos
  inElements,            \* mode = ELEMENTS_MODE
  elements,              \* the boxes on the screen
  focus, consoleFocused, \* focused_element_index, console_focused
  collecting, reported   \* collecting_hardware_report, hardware_reports

world == <<plugged, plugs>>
private == <<devices, nextId, batch, lost, anyConnected, wasConnected>>
published == <<expectedFound, startupComplete, connected, infos>>
copies == <<sees, listed>>
screen == <<inElements, elements, focus, consoleFocused, collecting, reported>>
vars == <<world, at, private, shutdown, published, commands, texts, ui, copies,
          screen>>

Ids == {d.id : d \in devices}

\* Text and elements are those of a connection; its port stands for the device.
From(d) == [id |-> d.id, port |-> d.port]

\* A command is the address of an element, or of everyone.
All == [id |-> Everyone, port |-> Everyone]
IsFor(c, d) == c.id \in {Everyone, d.id}

\* A serial port is closed only by the read that erases its device; a BLE port
\* closes itself when the link goes.
IsOpen(d) == d.port = Ble => d.alive

Init ==
  /\ plugged \in SUBSET Ports /\ plugs = 0
  /\ at = "startup"
  /\ devices = {} /\ nextId = 0
  /\ batch = <<>> /\ lost = {}
  /\ anyConnected = FALSE /\ wasConnected = FALSE
  /\ shutdown = FALSE /\ startupComplete = FALSE
  /\ expectedFound = FALSE /\ connected = FALSE /\ infos = {}
  /\ commands = <<>> /\ texts = {}
  /\ ui = "startup"
  /\ sees = TRUE /\ listed = {}
  /\ inElements = FALSE
  /\ elements = <<>> /\ focus = 0 /\ consoleFocused = TRUE
  /\ collecting = FALSE /\ reported = {}

------------------------------------------------------------------------------
(* Devices come and go.  A connection to a device that went stays dead when *)
(* the device comes back.                                                   *)

Plug(p) ==
  /\ plugs < MaxPlugs
  /\ p \notin plugged
  /\ plugged' = plugged \cup {p}
  /\ plugs' = plugs + 1
  /\ UNCHANGED <<at, private, shutdown, published, commands, texts, ui, copies,
                 screen>>

Unplug(p) ==
  /\ plugs < MaxPlugs
  /\ p \in plugged
  /\ plugged' = plugged \ {p}
  /\ plugs' = plugs + 1
  /\ devices' = {IF d.port = p THEN [d EXCEPT !.alive = FALSE] ELSE d :
                   d \in devices}
  /\ UNCHANGED <<at, nextId, batch, lost, anyConnected, wasConnected,
                 shutdown, published, commands, texts, ui, copies, screen>>

------------------------------------------------------------------------------
(* The device thread.                                                       *)

\* Mutant: ids are handed out by the number of connections.
ConnectSameId(p) ==
  /\ p \in plugged
  /\ p \notin {d.port : d \in devices}
  /\ devices' = devices \cup
       {[id |-> Cardinality(devices), port |-> p, alive |-> TRUE]}
  /\ nextId' = nextId + 1
  /\ UNCHANGED <<world, batch, lost, anyConnected, wasConnected, shutdown,
                 published, commands, texts, ui, copies, screen>>

\* Mutant: a port that has a connection is opened once more.
ConnectTwice(p) ==
  /\ p \in plugged
  /\ nextId < 2
  /\ devices' = devices \cup {[id |-> nextId, port |-> p, alive |-> TRUE]}
  /\ nextId' = nextId + 1
  /\ UNCHANGED <<world, batch, lost, anyConnected, wasConnected, shutdown,
                 published, commands, texts, ui, copies, screen>>

\* A serial device that describes itself in time is connected, and so is a BLE
\* device that is found in time (or not in time, which is this step not taken).
ConnectToDevice(p) == p \in SerialPorts /\ p \in plugged
ConnectToBleDevice(p) == p = Ble /\ p \in plugged

\* It gets the next id, on a port that has no connection.
Connect(p) ==
  /\ ConnectToDevice(p) \/ ConnectToBleDevice(p)
  /\ p \notin {d.port : d \in devices}
  /\ devices' = devices \cup
       {[id |-> nextId, port |-> p, alive |-> TRUE]}
  /\ nextId' = nextId + 1
  /\ UNCHANGED <<world, batch, lost, anyConnected, wasConnected, shutdown,
                 published, commands, texts, ui, copies, screen>>

\* publishConnectionSnapshot, for the devices that will be connected.
PublishSnapshot ==
  /\ expectedFound' = TRUE
  /\ startupComplete' = TRUE
  /\ connected' = (\E d \in devices' : IsOpen(d))
  /\ infos' = {d.id : d \in devices'}

\* The serial ports, then BLE.
ConnectAtStartup(p) ==
  /\ at = "startup"
  /\ p # Ble => Ble \notin {d.port : d \in devices}
  /\ Connect(p)
  /\ UNCHANGED at

FinishStartup ==
  /\ at = "startup"
  /\ UNCHANGED devices
  /\ PublishSnapshot
  /\ at' = "started"
  /\ UNCHANGED <<world, nextId, batch, lost, anyConnected, wasConnected,
                 shutdown, commands, texts, ui, copies, screen>>

\* The thread looks again at what it has published; a BLE link may have gone.
NoteConnected ==
  /\ at = "started"
  /\ wasConnected' = (\E d \in devices : IsOpen(d))
  /\ at' = "top"
  /\ UNCHANGED <<world, devices, nextId, batch, lost, anyConnected, shutdown,
                 published, commands, texts, ui, copies, screen>>

\* With nothing to write the thread goes on to the scans.
TakeCommands ==
  /\ at = "top"
  /\ ~ shutdown
  /\ batch' = commands
  /\ commands' = <<>>
  /\ at' = IF commands = <<>> THEN "scanSerial" ELSE "write"
  /\ UNCHANGED <<world, devices, nextId, lost, anyConnected, wasConnected,
                 shutdown, published, texts, ui, copies, screen>>

\* Mutant: the thread wants an empty queue before it stops.
StopWhenDrained ==
  /\ at = "top"
  /\ shutdown /\ commands = <<>>
  /\ at' = "done"
  /\ UNCHANGED <<world, private, shutdown, published, commands, texts, ui,
                 copies, screen>>

Stop ==
  /\ at = "top"
  /\ shutdown
  /\ at' = "done"
  /\ UNCHANGED <<world, private, shutdown, published, commands, texts, ui,
                 copies, screen>>

\* Each command goes to the devices that it is for (IsFor); on a dead connection
\* the write fails, which is reported as text for the console.
WriteCommands ==
  /\ at = "write"
  /\ batch' = <<>>
  /\ at' = "scanSerial"
  /\ UNCHANGED <<world, devices, nextId, lost, anyConnected, wasConnected,
                 shutdown, published, commands, texts, ui, copies, screen>>

ConnectAgain(p) ==
  /\ \/ at = "scanSerial" /\ p \in SerialPorts
     \/ at = "scanBle" /\ p = Ble
  /\ Connect(p)
  /\ UNCHANGED at

\* A scan publishes once, and only when it has connected something.  A scan that
\* is not due is one that connects nothing.
FinishScan ==
  /\ at \in {"scanSerial", "scanBle"}
  /\ UNCHANGED devices
  /\ IF Ids # infos THEN PublishSnapshot ELSE UNCHANGED published
  /\ at' = IF at = "scanSerial" THEN "scanBle" ELSE "read"
  /\ UNCHANGED <<world, nextId, batch, lost, anyConnected, wasConnected,
                 shutdown, commands, texts, ui, copies, screen>>

\* Every connection is read, and a dead one is lost.  Whether that counts as
\* connected for this turn depends on whether isOpen had noticed: a serial port
\* notices in the read itself, a BLE link may go just before or after.  Where a
\* dead terminal reads as end of file it does not even then: readAvailable takes
\* that for silence.
ReadDevices ==
  /\ at = "read"
  /\ \E noticed \in SUBSET {d \in devices : ~ IsOpen(d)} :
       anyConnected' = (devices \ noticed # {})
  /\ \E talking \in SUBSET {d \in devices : d.alive} :
       texts' = texts \cup {From(d) : d \in talking}
  /\ \E silent \in SUBSET {d \in devices : IsOpen(d)} :
       lost' = {d.id : d \in {e \in devices : ~ e.alive} \ silent}
  /\ at' = IF lost' = {} THEN "report" ELSE "erase"
  /\ UNCHANGED <<world, devices, nextId, batch, wasConnected, shutdown,
                 published, commands, ui, copies, screen>>

EraseLost ==
  /\ at = "erase"
  /\ devices' = {d \in devices : d.id \notin lost}
  /\ PublishSnapshot
  /\ lost' = {}
  /\ at' = "report"
  /\ UNCHANGED <<world, nextId, batch, anyConnected, wasConnected,
                 shutdown, commands, texts, ui, copies, screen>>

\* Mutant: the thread does not remember what it reported.
ReportConnectedForgetful ==
  /\ at = "report"
  /\ connected' = IF anyConnected # wasConnected THEN anyConnected ELSE connected
  /\ anyConnected' = FALSE
  /\ at' = "top"
  /\ UNCHANGED <<world, devices, nextId, batch, lost, wasConnected, shutdown,
                 expectedFound, startupComplete, infos, commands, texts, ui,
                 copies, screen>>

ReportConnected ==
  /\ at = "report"
  /\ connected' = IF anyConnected # wasConnected THEN anyConnected ELSE connected
  /\ wasConnected' = anyConnected
  /\ anyConnected' = FALSE
  /\ at' = "top"
  /\ UNCHANGED <<world, devices, nextId, batch, lost, shutdown,
                 expectedFound, startupComplete, infos, commands, texts, ui,
                 copies, screen>>

DeviceStep ==
  \/ FinishStartup
  \/ NoteConnected
  \/ TakeCommands
  \/ Stop
  \/ WriteCommands
  \/ FinishScan
  \/ EraseLost
  \/ ReportConnected
  \/ ReadDevices
  \/ \E p \in Ports : ConnectAtStartup(p) \/ ConnectAgain(p)

------------------------------------------------------------------------------
(* The user interface thread.  One turn of its loop is Take, a Poll when    *)
(* that is due, a key or none, and Finish when that is due.                 *)

\* The elements at some places, in their order: a set of one sequence.
Selection(es, places) ==
  LET indices == 1 .. Cardinality(places)
  IN  {[k \in indices |-> es[place[k]]] :
         place \in {f \in [indices -> places] :
                     \A i, j \in indices : i < j => f[i] < f[j]}}

\* The elements of the devices that are listed.
OfListed(es, ids) == Selection(es, {i \in DOMAIN es : es[i].id \in ids})

\* Mutant: an element that vanishes keeps the keyboard.
ClampFocusOnly(es) ==
  /\ focus' = IF es = <<>> THEN 0 ELSE IF focus >= Len(es) THEN Len(es) - 1 ELSE focus
  /\ UNCHANGED consoleFocused

\* The focus stays on an element that exists, or goes to the console.
ClampFocus(es) ==
  /\ focus' = IF es = <<>> THEN 0 ELSE IF focus >= Len(es) THEN Len(es) - 1 ELSE focus
  /\ consoleFocused' = (consoleFocused \/ es = <<>>)

\* enqueueDeviceCommand for each of the addresses, in order.
Enqueue(addresses) ==
  /\ Len(batch \o commands \o addresses) <= MaxQueued
  /\ commands' = IF shutdown THEN commands ELSE commands \o addresses

RequestHardwareReport(seen) ==
  IF seen THEN /\ Enqueue(<<All>>)
               /\ collecting' = TRUE
               /\ reported' = {}
          ELSE UNCHANGED <<commands, collecting, reported>>

\* requestDeviceShutdown and the wait for the device thread.  The screen is read
\* no more, which is as good as an empty one.
RequestShutdown ==
  /\ shutdown' = TRUE
  /\ ui' = "join"
  /\ inElements' = FALSE
  /\ elements' = <<>> /\ focus' = 0 /\ consoleFocused' = TRUE
  /\ collecting' = FALSE /\ reported' = {}
  /\ UNCHANGED <<world, at, private, published, commands, texts, copies>>

Started ==
  /\ ui = "startup"
  /\ startupComplete
  /\ IF expectedFound
       THEN /\ ui' = "take"
            /\ UNCHANGED <<world, at, private, shutdown, published, commands,
                           texts, copies, screen>>
       ELSE RequestShutdown

\* A connection that is new to the thread is asked for its elements, in the
\* mode that shows them.  Text counts for the report asked for before.
Take ==
  /\ ui = "take" /\ ui' = "key"
  /\ sees' = connected
  /\ listed' = infos
  /\ texts' = {}
  /\ elements' \in OfListed(elements, infos)
  /\ ClampFocus(elements')
  /\ IF infos \subseteq listed \/ ~ inElements \/ ~ connected
       THEN /\ reported' = IF collecting THEN reported \cup texts ELSE reported
            /\ UNCHANGED <<commands, collecting>>
       ELSE RequestHardwareReport(connected)
  /\ UNCHANGED <<world, at, private, shutdown, published, inElements>>

\* Every ten seconds the supply elements, some of all elements, are asked for
\* their status.
Poll ==
  /\ ui = "key"
  /\ sees /\ inElements
  /\ UNCHANGED <<world, at, private, shutdown, published, texts, ui, copies,
                 screen>>
  /\ \E supplies \in SUBSET DOMAIN elements :
       \E addresses \in Selection(elements, supplies) : Enqueue(addresses)

Pressed == /\ ui = "key"
           /\ ui' = "take"
           /\ UNCHANGED <<world, at, private, shutdown, published, texts, copies>>

NoKey == Pressed /\ UNCHANGED <<commands, screen>>

F1 ==
  /\ Pressed
  /\ inElements' = FALSE
  /\ consoleFocused' = TRUE
  /\ UNCHANGED <<commands, elements, focus, collecting, reported>>

F2 ==
  /\ Pressed
  /\ inElements' = TRUE
  /\ consoleFocused' = TRUE
  /\ RequestHardwareReport(sees)
  /\ UNCHANGED <<elements, focus>>

Tab ==
  /\ Pressed
  /\ inElements
  /\ \/ /\ consoleFocused
        /\ consoleFocused' = (elements = <<>>)
        /\ focus' = IF elements = <<>> THEN focus ELSE 0
     \/ /\ ~ consoleFocused
        /\ consoleFocused' = (focus + 1 >= Len(elements))
        /\ focus' = IF focus + 1 < Len(elements) THEN focus + 1 ELSE focus
  /\ UNCHANGED <<commands, inElements, elements, collecting, reported>>

ShiftTab ==
  /\ Pressed
  /\ inElements
  /\ \/ /\ consoleFocused
        /\ consoleFocused' = (elements = <<>>)
        /\ focus' = IF elements = <<>> THEN focus ELSE Len(elements) - 1
     \/ /\ ~ consoleFocused
        /\ consoleFocused' = (focus = 0)
        /\ focus' = IF focus > 0 THEN focus - 1 ELSE focus
  /\ UNCHANGED <<commands, inElements, elements, collecting, reported>>

\* A line typed in the console goes to every device.
Enter ==
  /\ Pressed
  /\ consoleFocused /\ sees
  /\ Enqueue(<<All>>)
  /\ UNCHANGED screen

\* A key of the focused element: its command, and a request for its status.
ElementKey ==
  /\ Pressed
  /\ ~ consoleFocused /\ elements # <<>> /\ sees
  /\ LET e == elements[focus + 1] IN Enqueue(<<e, e>>)
  /\ UNCHANGED screen

\* What a device reported makes a few elements; those of the device that
\* connected first come first.
ElementsOf(reports) ==
  UNION {{es \in [1..n -> reports] :
            /\ \A i, j \in 1..n : i < j => es[i].id <= es[j].id
            /\ \A r \in reports :
                 Cardinality({i \in 1..n : es[i] = r}) <= MaxElements} :
           n \in 0 .. MaxElements * Cardinality(reports)}

\* finishHardwareReport, when its time is up.  Reports of connections that are
\* gone are ignored; what was reported is read no more before the next request
\* clears it, which is as good as clearing it here.
Finish ==
  /\ ui = "take"
  /\ collecting
  /\ collecting' = FALSE /\ reported' = {}
  /\ elements' \in ElementsOf({r \in reported : r.id \in listed})
  /\ ClampFocus(elements')
  /\ Enqueue(elements')
  /\ UNCHANGED <<world, at, private, shutdown, published, texts, ui, copies,
                 inElements>>

\* The Escape key, or a signal between two turns.
Quit == ui \in {"take", "key"} /\ RequestShutdown

Join ==
  /\ ui = "join"
  /\ at = "done"
  /\ ui' = "exit"
  /\ UNCHANGED <<world, at, private, shutdown, published, commands, texts, copies,
                 screen>>

UiStep == \/ NoKey \/ F1 \/ F2 \/ Tab \/ ShiftTab \/ Enter \/ ElementKey
          \/ Started \/ Take
          \/ Join
          \/ Finish \/ Poll

Terminated == ui = "exit" /\ UNCHANGED vars

Next == \/ \E p \in Ports : Plug(p) \/ Unplug(p)
        \/ DeviceStep
        \/ UiStep
        \/ Quit
        \/ Terminated

\* Both threads run; nobody has to press Escape.
Spec == Init /\ [][Next]_vars /\ WF_vars(DeviceStep) /\ WF_vars(UiStep)

------------------------------------------------------------------------------

Sources == [id : Nat, port : Ports]

\* Every variable has its type, and no two connections share an id or a port:
\* scans are repeated, and never open again what is open (main.cpp:484-513).
TypeOK ==
  /\ plugged \subseteq Ports /\ plugs \in 0..MaxPlugs
  /\ at \in {"startup", "started", "top", "write", "scanSerial", "scanBle",
             "read", "erase", "report", "done"}
  /\ devices \subseteq [id : Nat, port : Ports, alive : BOOLEAN]
  /\ \A d \in devices : d.id < nextId
  /\ \A d, e \in devices : d.id = e.id \/ d.port = e.port => d = e
  /\ nextId \in Nat
  /\ batch \in Seq(Sources \cup {All}) /\ commands \in Seq(Sources \cup {All})
  /\ lost \subseteq 0..nextId /\ infos \subseteq 0..nextId
  /\ {anyConnected, wasConnected, shutdown, startupComplete, expectedFound,
      connected, sees, inElements, consoleFocused, collecting} \subseteq BOOLEAN
  /\ ui \in {"startup", "take", "key", "join", "exit"}
  /\ texts \subseteq Sources /\ reported \subseteq Sources
  /\ elements \in Seq(Sources)
  /\ focus \in Nat

\* What an element is told goes to the device that element came from, however
\* devices come and go between the report, the key and the write: a connection
\* id is never reused (next_connection_id, main.cpp:495-513).
CommandsReachTheirDevice ==
  \A c \in Range(batch \o commands), d \in devices :
    IsFor(c, d) => c.port \in {Everyone, d.port}

\* The focused element exists, and without elements the console has the focus:
\* elements[focused_element_index] is never read past the end, whichever
\* devices vanish between two keys (main.cpp:1098).
FocusInRange ==
  /\ elements # <<>> => focus < Len(elements)
  /\ elements = <<>> => consoleFocused

\* A connection to a serial device that is gone, of which the thread knows
\* nothing: its reads take the end of file for silence (SerialPort.cpp:117).
Unnoticed(d) == d.port \in SerialPorts /\ ~ d.alive /\ d.id \notin lost

\* `connected' is computed at two places of the device thread, from different
\* readings, and may be wrong for a turn (main.cpp:420-442, 695-698).  Once
\* devices neither appear nor vanish any more, as the bound on them makes sure,
\* it settles: it tells whether a device that is still there is connected,
\* unless the console ends first, or a dead terminal is never noticed, which
\* keeps it TRUE for ever.
ConnectedSettles ==
  \/ <>shutdown
  \/ <>[](connected = \E d \in devices : d.alive)
  \/ <>[](connected /\ \E d \in devices : Unnoticed(d))

\* Once asked to end, the console ends: the device thread notices the request.
ConsoleExits == shutdown ~> ui = "exit"

==============================================================================
