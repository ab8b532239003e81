SPECIFICATION RequestSpec
CONSTANTS
  NEUTRONS_PER_JOB = 2
  MAX_PARALLEL_JOBS = 1
  NUM_SEEDS = 2
  Value <- MCValue
  Ncount = {0, 1, 3, 6}
  MaxCalls = 3
  MaxRuns = 2
INVARIANTS
  RequestTypeOK
  ReusedAsAsked
  ArgsInRange
CHECK_DEADLOCK FALSE
