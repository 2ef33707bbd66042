SPECIFICATION FairSpec
CONSTANTS
  Jobs = {j1}
  t1 = t1
  t2 = t2
  Targets = {t1, t2}
  Versions = {1, 2, 3}
  Bad = {3}
  Source <- MCSource
  MaxApplies = 2
  MaxChanges = 1
  MaxRestarts = 1
  None = None
  Applied <- MCApplied
INVARIANTS OneScraperPerTarget DiscoveryIsCurrent
PROPERTIES Converges StopEnds
CHECK_DEADLOCK FALSE
