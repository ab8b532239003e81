SPECIFICATION FairSpec
CONSTANTS
  NEUTRONS_PER_JOB = 2
  MAX_PARALLEL_JOBS = 1
  NUM_SEEDS = 2
  Hash = {h1}
  NoHash = NoHash
  ReqType = {"QUICK", "STOP", "CLEAR"}
  Ncount = {0, 3, 5}
  CanKill = TRUE
  FailureLeaves = {"none", "partial", "full"}
INVARIANTS
  TypeOK
  IndInv
  ParallelBound
  AllEnded
  StopCovers
PROPERTIES
  ImplementsService
  AlwaysReceives
