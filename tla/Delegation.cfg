SPECIFICATION FairSpec
CONSTANTS
  Central = Central
  Collector = {c1}
  Request = {q1, q2}
  Interval = {i1}
  None = None
INVARIANT TypeOK
PROPERTIES WritesWereOwned LosersFallSilent OwnerTakesOver
