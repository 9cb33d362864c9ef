\* Safety, refinement and liveness: one change of each table, one crash.
SPECIFICATION FairSpec
CONSTANTS
  Writers = {w1}
  Reloaders = {r1}
  Starters = {s1}
  MaxVersion = 1
  MaxCrashes = 1
  Rejected <- MCRejected
  None = None
INVARIANTS
  NoLostUpdate
  RunningCoreIsLive
PROPERTIES
  RefinesConfigSync
  EventuallyLive
