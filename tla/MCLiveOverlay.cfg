CONSTANTS
  N = 2
  Elements = 1
  MaxSessions = 2
  MaxFaults = 2
  MaxBoth = 3
  Projects <- MCProjects
  Places <- MCPlaces
SPECIFICATION Spec
INVARIANT PickedIsKept
INVARIANT ClosedStaysClosed
INVARIANT PageAgrees
INVARIANT NeverStranded
PROPERTY ImplementsPageDoc
CHECK_DEADLOCK FALSE
