SPECIFICATION FairSpec
CONSTANTS
  sweep = sweep
  panic = panic
  lapsed = lapsed
  Lines = {lapsed}
  NoLine = NoLine
  Callers = {sweep, panic}
  Cooldown = 2
  MaxStall = 1
  MayFail = TRUE
  MaxCrashes = 1
INVARIANTS OpenMeansOffered LastWordHolds
PROPERTIES CooldownHolds LastingConditionIsStated
