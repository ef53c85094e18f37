SPECIFICATION Spec
CONSTANTS
  Central = Central
  Collector = {c1, c2}
  Request = {q1, q2}
  Interval = {i1, i2}
  None = None
PROPERTY DeactivatedClaimsNothing
