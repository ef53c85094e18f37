SPECIFICATION WatchedSpec
CONSTANTS
  r1 = r1
  r2 = r2
  t1 = t1
  t2 = t2
  Rule = {r1}
  Target = {t1}
  Kind = {"appliance", "agent"}
  KindOf <- MCKindOf
  Applies <- MCEverything
  ForSeconds = {1}
  ClearSeconds = {0}
  Horizon = 1
  Verdict = {"truthy", "falsy", "error"}
  CountMayFail = FALSE
  AlarmId = {1, 2}
  MaxEdits = 2
  MaxRestarts = 0
  AllMetrics = TRUE
  None = None
PROPERTY ContinuouslyTruthy
