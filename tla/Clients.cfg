SPECIFICATION FairSysSpec
CONSTANTS
  NEUTRONS_PER_JOB = 2
  MAX_PARALLEL_JOBS = 1
  NUM_SEEDS = 1
  Hash = {h1, h2}
  NoHash = NoHash
  ReqType = {"QUICK"}
  Ncount = {2}
  CanKill = TRUE
  FailureLeaves = {"none"}
  Client = {c1, c2}
  NoClient = NoClient
INVARIANTS
  SysTypeOK
  OwnIfFresh
PROPERTIES
  StartedFinishes
  SentIsAnswered
CHECK_DEADLOCK FALSE
