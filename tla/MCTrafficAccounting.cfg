\* Failing lookups, polls and writes, ids used again, renames, restarts,
\* and a row of another node.
SPECIFICATION AccountingSpec
CONSTANTS
  k1 = k1
  k2 = k2
  n1 = n1
  n2 = n2
  n3 = n3
  None = None
  Locals = {2, 3}
  Remotes = {1}
  Names <- ThreeNames
  Conns <- TwoConns
  Faults = {"lookup", "fetch", "list", "add", "reuse"}
  MaxMoved = 2
  MaxRenames = 2
  MaxEnds = 1
SYMMETRY Symmetry
INVARIANTS NoDoubleCharge PolledIsCharged
