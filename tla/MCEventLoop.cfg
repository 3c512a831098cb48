CONSTANTS
  MaxFaults = 1
  MaxWaiting = 1
SPECIFICATION Spec
INVARIANT TypeOK
INVARIANT BoundedOvertaking
INVARIANT PacketsAccounted
INVARIANT EndsForCause
PROPERTY CommandsReturn
PROPERTY InputsServed
CHECK_DEADLOCK FALSE
