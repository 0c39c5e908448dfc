SPECIFICATION FairSpec
CONSTANTS
  Entries = {e1}
  Own = {e1}
  Agents = {a1, a2}
  MaxChanges = 1
  MaxFaults = 1
INVARIANT ChangesAreAnalysed
PROPERTY SnapshotsConverge
CHECK_DEADLOCK FALSE
