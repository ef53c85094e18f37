SPECIFICATION FairSpec
CONSTANTS
  r1 = r1
  r2 = r2
  t1 = t1
  t2 = t2
  Rule = {r1, r2}
  Target = {t1}
  Kind = {"appliance", "agent"}
  KindOf <- MCKindOf
  Applies <- MCEverything
  ForSeconds = {1}
  ClearSeconds = {1}
  Horizon = 1
  Verdict = {"truthy", "falsy"}
  CountMayFail = FALSE
  AlarmId = {1, 2}
  MaxEdits = 1
  MaxRestarts = 1
  None = None
PROPERTIES TruthyOpens FalsyClears
