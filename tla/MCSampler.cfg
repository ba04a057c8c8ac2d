SPECIFICATION FairSpec
CONSTANTS
  Samplers = {s1, s2}
  Server = server
  Interval = 2
  MaxClock = 5
INVARIANTS TypeOK SamplerInv OneSampler SnapshotWhole
PROPERTIES SnapshotsAdvance StopReturns
