------------------------------ MODULE SimTypes ------------------------------
(***************************************************************************)
(* The vocabulary shared by the simulation server and its clients: request *)
(* types, the answers the responder gives, the CAMEO application states    *)
(* that travel in a published result, and the arithmetic that splits a     *)
(* request into jobs.                                                      *)
(***************************************************************************)
EXTENDS Naturals

CONSTANTS
  NEUTRONS_PER_JOB,    \* neutrons one McStas job simulates (2e7 in the code)
  MAX_PARALLEL_JOBS,   \* jobs submitted before the first one is awaited (10)
  NUM_SEEDS            \* length of the table of fixed seeds (152)

ASSUME JobConstants ==
  /\ NEUTRONS_PER_JOB \in Nat \ {0}
  /\ MAX_PARALLEL_JOBS \in Nat \ {0}
  /\ NUM_SEEDS \in Nat \ {0}

\* sim_request::req_t; REQUNKNOWN stands for every value the code does not know
ReqTypes == {"SIMULATE", "STOP", "QUICK", "CLEAR", "REQUNKNOWN"}

\* sim_request_answer::answer_t, ansNOANS left out: the server never sends it
Answers == {"ansRUNNING", "ansDONE", "ansSTARTING", "ansWAIT", "ansOK", "ansERROR"}

\* sim_request_answer::waitPub(): the answers after which the client goes on
\* to read the publisher
WaitPub(a) == a \in {"ansDONE", "ansRUNNING", "ansSTARTING"}

\* The CAMEO states at or above PROCESSING_ERROR: an application in one of
\* them has ended
Terminal == {"SUCCESS", "FAILURE", "STOPPED"}
StillRunning(s) == s \notin Terminal

\* The number of jobs: std::ceil(num_neutrons / NEUTRONS_PER_JOB)
NJobs(n) == (n + (NEUTRONS_PER_JOB - 1)) \div NEUTRONS_PER_JOB

\* Jobs are identified by their index, which also selects their seed
JobId == 0 .. (NUM_SEEDS - 1)

\* The two subdirectories of baseDir; the type of the request selects one
Areas == {"QUICK", "FULL"}
AreaOf(type) == IF type = "QUICK" THEN "QUICK" ELSE "FULL"
=============================================================================
