SPECIFICATION FairSpec
CONSTANTS
  a1 = a1
  a2 = a2
  w1 = w1
  w2 = w2
  w3 = w3
  Appliance = {a1}
  Worker = {w1, w2}
  Interval <- MCInterval
  Sealed = {good, bad}
  Broken = {bad}
  MaxParallelPolls = 1
  MaxEdits = 2
  MaxRestarts = 0
  None = None
PROPERTIES DelistedDrains CadenceConverges ListedKeepsPolling
