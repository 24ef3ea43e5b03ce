\* Two batches of two records under one name, jobs of one record.
SPECIFICATION Spec
CONSTANTS
  Id = {i1, i2}
  Batch = {b1}
  Sync = {x1}
  None = None
  BatchSize = 1
  MaxAttempts = 2
  MaxPolls = 2
  MaxStages = 2
  MaxJobs = 2
  MaxFaults = 1
INVARIANTS TypeOK SettledWhenDone
PROPERTIES EverySyncEnds LossIsNoticed
