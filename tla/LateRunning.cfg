SPECIFICATION SysSpec
CONSTANTS
  NEUTRONS_PER_JOB = 2
  MAX_PARALLEL_JOBS = 1
  NUM_SEEDS = 1
  Hash = {h1}
  NoHash = NoHash
  ReqType = {"QUICK"}
  Ncount = {2}
  CanKill = TRUE
  FailureLeaves = {"none"}
  Client = {c1, c2}
  NoClient = NoClient
INVARIANT
  RunningIsServed
CHECK_DEADLOCK FALSE
