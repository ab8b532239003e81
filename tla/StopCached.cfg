SPECIFICATION Spec
CONSTANTS
  NEUTRONS_PER_JOB = 2
  MAX_PARALLEL_JOBS = 2
  NUM_SEEDS = 1
  Hash = {h1}
  NoHash = NoHash
  ReqType = {"QUICK", "STOP"}
  Ncount = {2}
  CanKill = FALSE
  FailureLeaves = {"none"}
INVARIANTS
  StopHasInstance
