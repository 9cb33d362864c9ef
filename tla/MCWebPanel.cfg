SPECIFICATION PanelFairSpec
CONSTANTS
    Clients = {c1, c2, c3}
    Present = {c1, c2}
    Inbounds = {i1, i2}
    Nodes = {local, node}
    NodeOf <- MCNodeOf
    i1 = i1
    i2 = i2
    local = local
    node = node
    Filters = {"all", "active"}
    BulkActions = {"disable", "delete"}
    Lanes = {s1, s2}
    Nil = Nil
    MaxEdits = 1
    MaxMissed = 1
INVARIANTS
    AlertIsAboutSelection
    AddFormFits
PROPERTIES
    TypedIsKept
    ShowsTheTables
CHECK_DEADLOCK FALSE
