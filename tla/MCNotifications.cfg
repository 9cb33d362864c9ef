\* One client, two reporters of two causes, failing reads and saves, a crash.
SPECIFICATION NoticesSpec
CONSTANTS
  r1 = r1
  r2 = r2
  e1 = e1
  e2 = e2
  NoState = NoState
  Reporters <- TwoReporters
  Causes <- TwoCauses
  Faults = {"read", "save"}
  Limits = {0, 1}
  Capacity = 1
  Cooldown = 1
  MaxTime = 1
  MaxEdits = 1
  MaxCrashes = 1
  MaxAll = 3
SYMMETRY Symmetry
INVARIANTS NothingSwallowed
PROPERTY NoRepeat
CHECK_DEADLOCK FALSE
