SPECIFICATION Spec
CONSTANTS
    Slots = {s1, s2}
    None = None
    MaxSecrets = 2
    MaxBatches = 2
    MaxOther = 2
    MaxLosses = 1
INVARIANTS
    NoLockout
    ToggleIsTruthful
    CodesShownWork
CHECK_DEADLOCK FALSE
