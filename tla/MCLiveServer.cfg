\* One session, two agents, a server that stops or an agent that dies.
SPECIFICATION FairSpec
CONSTANTS
  None = None
  Ids = {s1}
  Agents = {a1,a2}
  MaxFaults = 1
INVARIANTS OverMeansApplied NoMissedWakeup
PROPERTIES RequestsAreKept RequestsAreSettled
CHECK_DEADLOCK FALSE
