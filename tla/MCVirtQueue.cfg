SPECIFICATION FairSpec
CONSTANTS
  Tasks = {t1, t2}
  Buffers = {b1, b2}
  Requests <- SomeRequests
  Devices <- SomeDevices
  IndexRange = 16
  Statuses = {"Ok", "IoErr"}
  None = None
INVARIANTS
  DeviceOwnsItsChains
  PanicOnlyOnDeviceError
PROPERTIES
  ImplementsRequestChannel
  RequestsAnswered
CHECK_DEADLOCK FALSE
