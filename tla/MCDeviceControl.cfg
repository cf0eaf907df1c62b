CONSTANTS
  SerialPorts = {usb0}
  Ble = ble
  Everyone = everyone
  MaxPlugs = 1
  MaxQueued = 2
  MaxElements = 1
SPECIFICATION Spec
INVARIANTS
  TypeOK
  CommandsReachTheirDevice
  FocusInRange
PROPERTIES
  ConnectedSettles
  ConsoleExits
