\* Two texts sent one by one, two repairs, three saves, and one crash or one
\* lapse of the page's lock under a commit.
SPECIFICATION EditFairSpec
CONSTANTS
  Nothing = Nothing
  Elements = {e1,e2}
  ChunkSize = 1
  MaxAttempts = 2
  MaxSaves = 3
  MaxMishaps = 1
INVARIANTS LockedWhileApplying
PROPERTIES ImplementsLedger CommitEnds
CHECK_DEADLOCK FALSE
