SPECIFICATION SysSpec
CONSTANTS
  NEUTRONS_PER_JOB = 2
  MAX_PARALLEL_JOBS = 2
  NUM_SEEDS = 2
  Hash = {h1, h2}
  NoHash = NoHash
  ReqType = {"QUICK", "STOP", "CLEAR"}
  Ncount = {3, 5}
  CanKill = TRUE
  FailureLeaves = {"none", "partial"}
  Client = {c1, c2}
  NoClient = NoClient
INVARIANTS
  OneSimulation
PROPERTIES
  GrowIfFresh
  ImplementsService
SYMMETRY SystemSymmetry
CHECK_DEADLOCK FALSE
