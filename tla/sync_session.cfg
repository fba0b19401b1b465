CONSTANTS
  Waiters = {w1}
  Policies = {"Immediately", "AfterChangesUploaded"}
  MaxOpens = 2
  MaxErrors = 1
  MaxCommits = 1
  MaxWriters = 1
SPECIFICATION FairSpec
CHECK_DEADLOCK FALSE
INVARIANTS ClientSessionMatchesState ActiveKnowsCommits
PROPERTIES WaitersCalledOnce DiesOnlyUploaded DyingEnds WaitersAnswered
