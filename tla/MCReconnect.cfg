SPECIFICATION Spec
CONSTANTS
  r1 = r1
  r2 = r2
  Receivers = {r1, r2}
  Choices <- AnyOrOne
  MaxFaults = 4
INVARIANTS
  OneVerify
PROPERTIES
  NeverBackwards
  HealthyKept
  Reconnects
