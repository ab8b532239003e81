SPECIFICATION FairSpec
CONSTANTS
  NEUTRONS_PER_JOB = 2
  MAX_PARALLEL_JOBS = 2
  NUM_SEEDS = 2
  Hash = {h1, h2}
  NoHash = NoHash
  ReqType = {"QUICK", "CLEAR"}
  Ncount = {3}
  CanKill = FALSE
  FailureLeaves = {"none"}
PROPERTIES
  FinalIsComplete
  MergeReadsWhole
  ImplementsService
  StartedPublishes
  SimulationEnds
