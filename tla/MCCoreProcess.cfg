\* A request, the apply loop, boot, shutdown and a core command, and two
\* processes, with fairness.
SPECIFICATION FairSpec
CONSTANTS
  r1 = r1
  x1 = x1
  x2 = x2
  None = None
  Requests <- OneRequest
  Commands = {"cli"}
  Pids <- TwoPids
  MaxVersion = 1
INVARIANTS NoCoreForgotten CurrentCore
PROPERTY DeadCoreIsNoticed
CHECK_DEADLOCK FALSE
