SPECIFICATION Spec
CONSTANTS
  NEUTRONS_PER_JOB = 2
  MAX_PARALLEL_JOBS = 2
  NUM_SEEDS = 1
  Hash = {h1}
  NoHash = NoHash
  ReqType = {"QUICK"}
  Ncount = {2, 3}
  CanKill = FALSE
  FailureLeaves = {"none"}
INVARIANTS
  JoinHasThread
