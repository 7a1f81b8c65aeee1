CONSTANTS
  Undefined = Undefined
  Delays <- MCDelays
SPECIFICATION Spec
CHECK_DEADLOCK FALSE
INVARIANT GivenDelaysHonoured
