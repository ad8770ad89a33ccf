\* Two healthy machines and sixteen with a defective device, one failure of a
\* device.  BARs: not implemented; 32-bit at 0x40000000; 64-bit prefetchable at
\* 0x1000; I/O at 0xC000; a type the PCI specification reserves.
CONSTANTS
  Panicked = Panicked
  None = None
  Machines <- AnyMachine
  MaxBus = 1
  MaxDevice = 1
  MaxFunction = 1
  FreePages = 64
  MaxFailures = 1
  RawBars = {0, 1073741824, 4108, 49153, 2}
SPECIFICATION DevicesSpec
INVARIANTS
  LiveDevicesReady
  DriversFindDevices
  BarsDecoded
PROPERTY
  MachineComesUp
