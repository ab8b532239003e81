-------------------------- MODULE ServerInvariant --------------------------
(***************************************************************************)
(* The inductive invariant of McstasServer, by parts.  TLC checks it in    *)
(* the run "stop", McstasServerProofs proves it and draws the safety  *)
(* properties of McstasServer from it.                                     *)
(***************************************************************************)
EXTENDS McstasServer

\* A process that is down has no threads; a request is kept while it is treated
HandleInv ==
  /\ WorkerHandle
  /\ srv # "up" => mpc = "receive" /\ wpc = "off"
  /\ mpc # "receive" => req \in Request /\ ~IsTest(req)
  /\ mpc = "stopuse" => sidx < slen

\* What the captured variables of the worker say at each of its steps: how far
\* it has submitted (Len(jobs)) and waited (fJob)
LoopInv ==
  /\ wpc = "off" => jobs = <<>> /\ fJob = 0
  /\ wpc # "off" => sim.hash \in Hash /\ sim.nJobs > 0
  /\ wpc \in {"fill", "fillpush"} =>
       fJob = 0 /\ Len(jobs) < sim.nJobs /\ Len(jobs) < MAX_PARALLEL_JOBS
  /\ wpc \in {"head", "wait", "refill"} => fJob < Len(jobs)
  /\ wpc = "refillpush" => fJob < Len(jobs) /\ Len(jobs) < sim.nJobs
  /\ wpc \in {"merge", "merging"} =>
       fJob < Len(jobs) \/ (fJob = sim.nJobs /\ Len(jobs) = sim.nJobs)
  /\ wpc \in {"erase", "exit", "ended"} => fJob = sim.nJobs /\ Len(jobs) = sim.nJobs
  /\ Len(jobs) <= sim.nJobs
  /\ wpc # "merging" => merge = NoMerge

\* An application exists for each job recorded with an instance and for the one
\* being pushed, and for no other
Pushing == wpc \in {"fillpush", "refillpush"}

AppsInv ==
  /\ RecordedStates
  /\ \A i \in JobId : i > Len(jobs) => app[i] = "NONE"
  /\ Len(jobs) \in JobId => (Pushing <=> app[Len(jobs)] # "NONE")

\* The jobs already waited for have ended, and at most MAX_PARALLEL_JOBS have
\* been submitted after them
Waited == IF wpc \in {"refill", "refillpush"} THEN fJob + 1 ELSE fJob

WindowInv ==
  /\ \A i \in JobId : i < Waited => jobs[i + 1].state \in Terminal
  /\ Len(jobs) - fJob <= MAX_PARALLEL_JOBS

IndInv == TypeOK /\ HandleInv /\ OneSimulation /\ LoopInv /\ AppsInv /\ WindowInv
=============================================================================
