SPECIFICATION Spec
CONSTANTS
  NEUTRONS_PER_JOB = 2
  MAX_PARALLEL_JOBS = 2
  NUM_SEEDS = 3
  Hash = {h1}
  NoHash = NoHash
  ReqType = {"QUICK", "SIMULATE", "REQUNKNOWN"}
  Ncount = {0, 3, 5}
  CanKill = FALSE
  FailureLeaves = {"none"}
INVARIANTS
  WorkerHandle
  ParallelBound
  IndexInRange
  JoinHasThread
  RecordedStates
  NoFault
PROPERTIES
  FinalIsComplete
