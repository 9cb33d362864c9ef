\* Two clients, one request goroutine, both enforcement loops and the tasks,
\* with fairness.
SPECIFICATION FairSpec
CONSTANTS
  c1 = c1
  c2 = c2
  a1 = a1
  Unused = Unused
  Absent = Absent
  Clients <- TwoClients
  Admins <- OneAdmin
  Quotas <- NoneOrOne
  Expiries <- NoneOrOne
  MaxTime = 2
  MaxUsed = 1
  MaxEdits = 1
INVARIANTS EnabledIffActive UsageSurvives NoSilentChange
PROPERTY OneIsCutOff
CHECK_DEADLOCK FALSE
