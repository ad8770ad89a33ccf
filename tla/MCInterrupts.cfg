\* Two CPUs; a keyboard, the HPET, one or two VirtIO devices.
SPECIFICATION MCSpec
CONSTANTS
  block = block
  rng = rng
  CPU = {0, 1}
  TaskCode <- AnyCode
  Interrupts <- ToCpu0
  MaxPrograms <- OneEach
  MaxRaised = 1
  Free = Free
INVARIANTS
  RequestedVectorsHandled
  NoCircularWait
  
PROPERTIES
  RequestsServed
  ProgramsEnd
CHECK_DEADLOCK FALSE
