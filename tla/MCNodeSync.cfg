\* The sync loop, two requests and the node's administrator.
SPECIFICATION FairSpec
CONSTANTS
  n1 = n1
  n2 = n2
  r1 = r1
  r2 = r2
  loop = loop
  import = import
  None = None
  Gone = Gone
  NClients = 2
  NInbounds = 2
  Names <- TwoNames
  Requests <- TwoRequests
  Syncers <- SyncLoop
  MaxEdits = 2
INVARIANTS DeletedIsGone
PROPERTY Converges
