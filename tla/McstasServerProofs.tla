------------------------- MODULE McstasServerProofs -------------------------
(***************************************************************************)
(* Proofs that the invariants of McstasServer hold for every set of        *)
(* hashes, every number of seeds and jobs and every bound.                 *)
(***************************************************************************)
EXTENDS ServerInvariant, TLAPS, FiniteSetTheorems, SequenceTheorems

-----------------------------------------------------------------------------
(* Arithmetic and vocabulary *)

\* A request that is not a test has at least one job, and the number of jobs is
\* a natural number (line 319)
LEMMA NJobsType ==
  ASSUME NEW n \in Nat
  PROVE  NJobs(n) \in Nat /\ (n # 0 => NJobs(n) > 0)
<1> DEFINE N == NEUTRONS_PER_JOB
<1>1. N \in Nat \ {0}
  BY JobConstants
<1>2. NJobs(n) = (n + (N - 1)) \div N
  BY DEF NJobs
<1>3. (n + (N - 1)) \div N \in Nat
  BY <1>1
<1>4. ASSUME n # 0 PROVE (n + (N - 1)) \div N > 0
  BY <1>1, <1>4
<1> QED
  BY <1>2, <1>3, <1>4

\* The structured constants have the types TypeOK gives them
LEMMA ConstantTypes ==
  /\ NoSim \in [hash : Hash \cup {NoHash}, area : Areas, nJobs : 0 .. NUM_SEEDS]
  /\ NoMerge \in [list : SUBSET JobId, state : {"NONE"} \cup JobStates]
  /\ NoReply \in [type : ReqTypes \cup {"NONE"}, hash : Hash \cup {NoHash},
                  ans : Answers \cup {"NONE"}]
  /\ NoResult \in [hash : Hash \cup {NoHash},
                   status : {"NONE", "RUNNING", "SUCCESS", "FAILURE"}, jobs : SUBSET JobId]
  /\ CachedJob \in Job
BY JobConstants
   DEF NoSim, NoMerge, NoReply, NoResult, CachedJob, Areas, Job, JobStates, Terminal

-----------------------------------------------------------------------------
(* Type correctness *)

LEMMA InitType == Init => TypeOK
<1> SUFFICES ASSUME Init PROVE TypeOK
  OBVIOUS
<1>1. /\ 0 \in 0 .. NUM_SEEDS
      /\ jobs \in Seq(Job) /\ Len(jobs) <= NUM_SEEDS
  BY JobConstants DEF Init
<1>2. app \in [JobId -> {"NONE", "STOPPING"} \cup JobStates]
  BY DEF Init
<1>3. out \in [Slot -> [JobId -> {"none", "partial", "full"}]]
  BY DEF Init
<1> QED
  BY <1>1, <1>2, <1>3, ConstantTypes DEF Init, TypeOK, MainPcs, WorkerPcs

\* Applications run only while there is a worker
LEMMA LiveHasWorker ==
  ASSUME TypeOK, LoopInv, AppsInv, NEW i \in JobId, app[i] # "NONE"
  PROVE  wpc # "off"
<1> SUFFICES ASSUME wpc = "off" PROVE FALSE
  OBVIOUS
<1>1. Len(jobs) = 0 /\ ~Pushing
  BY DEF LoopInv, Pushing
<1>2. i = 0 \/ i > 0
  BY DEF JobId
<1> QED
  BY <1>1, <1>2 DEF AppsInv

\* The end of the process leaves every variable with its type
LEMMA DieType ==
  ASSUME TypeOK, LoopInv, AppsInv, NEW cause \in Causes, Die(cause)
  PROVE  TypeOK'
<1>1. 0 \in 0 .. NUM_SEEDS /\ <<>> \in Seq(Job) /\ Len(<<>>) <= NUM_SEEDS
  BY JobConstants
<1>2. orphans' \subseteq Slot \X JobId
  <2>1. orphans \subseteq Slot \X JobId
    BY DEF TypeOK
  <2>2. ASSUME NEW i \in LiveApps \ lost PROVE <<SimSlot, i>> \in Slot \X JobId
    <3>1. i \in JobId
      BY DEF LiveApps
    <3>2. wpc # "off"
      BY <3>1, LiveHasWorker DEF LiveApps, Live
    <3>3. SimSlot \in Slot
      BY <3>2 DEF SimSlot, SlotOf, Slot, TypeOK, LoopInv
    <3> QED
      BY <3>1, <3>3
  <2> QED
    BY <2>1, <2>2 DEF Die
<1>3. app' \in [JobId -> {"NONE", "STOPPING"} \cup JobStates] /\ lost' \subseteq JobId
  BY DEF Die
<1> QED
  BY <1>1, <1>2, <1>3, ConstantTypes
     DEF Die, TypeOK, MainPcs, WorkerPcs, Silent, diskVars

\* The handlers that answer at once
LEMMA HandleType ==
  ASSUME TypeOK, HandleInv, LoopInv, NEW r \in Request, Handle(r)
  PROVE  TypeOK'
<1> USE DEF mainVars, mapVars, workVars, appVars, diskVars
<1>1. /\ r.type \in ReqTypes \cup {"NONE"} /\ r.hash \in Hash
      /\ r.hash \in Hash \cup {NoHash}
  BY ServerConstants DEF Request
<1>2. ASSUME NEW a \in Answers, Answered(r, a)
      PROVE  reply' \in [type : ReqTypes \cup {"NONE"}, hash : Hash \cup {NoHash},
                         ans : Answers \cup {"NONE"}]
  BY <1>1, <1>2 DEF Answered
<1>3. CASE RejectUnknown(r)
  BY <1>2, <1>3, ConstantTypes DEF RejectUnknown, TypeOK, Answers
<1>4. CASE AnswerTest(r)
  BY <1>2, <1>4, ConstantTypes DEF AnswerTest, TypeOK, Answers, Published
<1>5. CASE ClearCache(r)
  BY <1>2, <1>5, ConstantTypes DEF ClearCache, TypeOK, Answers, LiveApps
<1>6. CASE ReceiveStop(r)
  BY <1>6, ConstantTypes DEF ReceiveStop, TypeOK, Silent, MainPcs
<1>7. CASE RefuseRunning(r)
  BY <1>2, <1>7, ConstantTypes DEF RefuseRunning, TypeOK, Answers
<1>8. CASE RefuseWait(r)
  BY <1>2, <1>8, ConstantTypes DEF RefuseWait, TypeOK, Answers
<1>9. CASE AcceptNew(r)
  <2>1. RequestSlot(r) \in Slot
    BY <1>1 DEF RequestSlot, SlotOf, Slot, AreaOf, Areas
  <2> QED
    BY <1>9, <2>1, ConstantTypes DEF AcceptNew, AfterAccept, TypeOK, Silent, MainPcs
<1> QED
  BY <1>3, <1>4, <1>5, <1>6, <1>7, <1>8, <1>9 DEF Handle

\* The main thread inside a handler
LEMMA MainType ==
  ASSUME TypeOK, HandleInv, LoopInv, AppsInv, Main
  PROVE  TypeOK'
<1> USE DEF mainVars, mapVars, workVars, appVars, diskVars
<1>1. mpc # "receive"
  BY DEF Main, StopNext, StopNull, StopUse, StopDangles, StopReply, Join, JoinAgain,
         RefuseTooMany, Start
<1>2. /\ req \in Request /\ req.n # 0 /\ req.n \in Nat
      /\ req.hash \in Hash /\ req.type \in ReqTypes \cup {"NONE"}
  BY <1>1, ServerConstants DEF HandleInv, Request, IsTest
<1>3. /\ 0 \in 0 .. NUM_SEEDS /\ <<>> \in Seq(Job) /\ Len(<<>>) <= NUM_SEEDS
      /\ Len(jobs) \in 0 .. NUM_SEEDS
  BY JobConstants DEF TypeOK
<1>4. CASE StopNext
  <2>1. EntrySize \in 0 .. NUM_SEEDS
    BY <1>3 DEF EntrySize
  <2> QED
    BY <1>2, <1>4, <2>1, ConstantTypes DEF StopNext, TypeOK, Silent, MainPcs
<1>5. CASE StopNull \/ StopDangles \/ JoinAgain
  BY <1>5, DieType DEF StopNull, StopDangles, JoinAgain, Causes
<1>6. CASE StopUse
  <2>1. sidx + 1 \in 0 .. NUM_SEEDS
    BY <1>6, JobConstants DEF StopUse, HandleInv, TypeOK
  <2>2. app' \in [JobId -> {"NONE", "STOPPING"} \cup JobStates]
    BY <1>6 DEF StopUse, StopInstance, TypeOK
  <2> QED
    BY <1>6, <2>1, <2>2, ConstantTypes DEF StopUse, TypeOK, Silent, MainPcs
<1>7. CASE StopReply
  <2>1. reply' \in [type : ReqTypes \cup {"NONE"}, hash : Hash \cup {NoHash},
                    ans : Answers \cup {"NONE"}]
    BY <1>2, <1>7 DEF StopReply, Answered, Answers
  <2> QED
    BY <1>3, <1>7, <2>1, ConstantTypes DEF StopReply, Erased, TypeOK, MainPcs
<1>8. CASE Join
  <2>1. app' \in [JobId -> {"NONE", "STOPPING"} \cup JobStates] /\ lost' \subseteq JobId
    BY <1>8 DEF Join
  <2> QED
    BY <1>3, <1>8, <2>1, ConstantTypes DEF Join, TypeOK, Silent, MainPcs, WorkerPcs
<1>9. CASE RefuseTooMany
  <2>1. reply' \in [type : ReqTypes \cup {"NONE"}, hash : Hash \cup {NoHash},
                    ans : Answers \cup {"NONE"}]
    BY <1>2, <1>9 DEF RefuseTooMany, Answered, Answers
  <2> QED
    BY <1>9, <2>1, ConstantTypes DEF RefuseTooMany, TypeOK, MainPcs
<1>10. CASE Start
  <2>1. reply' \in [type : ReqTypes \cup {"NONE"}, hash : Hash \cup {NoHash},
                    ans : Answers \cup {"NONE"}]
    BY <1>2, <1>10 DEF Start, Answered, Answers
  <2>2. NJobs(req.n) \in 0 .. NUM_SEEDS
    BY <1>2, <1>10, NJobsType, JobConstants DEF Start, TooManyJobs
  <2>3. sim' \in [hash : Hash \cup {NoHash}, area : Areas, nJobs : 0 .. NUM_SEEDS]
    BY <1>2, <1>10, <2>2 DEF Start, AreaOf, Areas
  <2> QED
    BY <1>2, <1>10, <2>1, <2>3, ConstantTypes DEF Start, TypeOK, MainPcs, WorkerPcs
<1> QED
  BY <1>4, <1>5, <1>6, <1>7, <1>8, <1>9, <1>10 DEF Main

\* The slot of the running simulation, and the job about to be submitted
LEMMA SimSlotType ==
  ASSUME TypeOK, LoopInv, wpc # "off"
  PROVE  SimSlot \in Slot
BY DEF SimSlot, SlotOf, Slot, TypeOK, LoopInv

LEMMA NextJobInRange ==
  ASSUME TypeOK, LoopInv, Submitting \/ Pushing
  PROVE  /\ Len(jobs) \in Nat /\ Len(jobs) < sim.nJobs /\ Len(jobs) < NUM_SEEDS
         /\ NextJob \in JobId /\ wpc # "off"
<1>1. sim.nJobs \in 0 .. NUM_SEEDS /\ Len(jobs) \in Nat
  BY JobConstants DEF TypeOK
<1>2. Len(jobs) < sim.nJobs
  BY <1>1 DEF Submitting, MoreToSubmit, Pushing, NextJob, LoopInv
<1>3. wpc # "off"
  BY DEF Submitting, Pushing
<1> QED
  BY <1>1, <1>2, <1>3, JobConstants DEF JobId, NextJob

\* Advancing moves the worker to one of its steps and fJob by at most one
LEMMA AdvanceType ==
  ASSUME TypeOK, LoopInv, NEW n \in Nat, Advance(n)
  PROVE  /\ wpc' \in {"fill", "head", "merge"}
         /\ fJob' \in 0 .. NUM_SEEDS
<1>1. fJob \in Nat /\ sim.nJobs \in 0 .. NUM_SEEDS /\ fJob \in 0 .. NUM_SEEDS
  BY JobConstants DEF TypeOK
<1>2. Len(jobs) \in Nat /\ Len(jobs) <= sim.nJobs
  BY DEF TypeOK, LoopInv
<1>3. wpc \in {"refill", "refillpush"} => fJob < Len(jobs)
  BY DEF LoopInv
<1> QED
  BY <1>1, <1>2, <1>3, JobConstants DEF Advance, AfterFill, AfterWait

\* The worker thread
LEMMA WorkType ==
  ASSUME TypeOK, HandleInv, LoopInv, AppsInv, Work
  PROVE  TypeOK'
<1> USE DEF mainVars, mapVars, workVars, appVars, diskVars
<1>1. jobs \in Seq(Job) /\ Len(jobs) \in Nat /\ Len(jobs) + 1 \in Nat
  BY DEF TypeOK
<1>2. CASE ReuseJob
  <2>1. Len(jobs) < NUM_SEEDS
    BY <1>2, NextJobInRange DEF ReuseJob
  <2>2. jobs' \in Seq(Job) /\ Len(jobs') <= NUM_SEEDS
    BY <1>1, <1>2, <2>1, ConstantTypes, JobConstants DEF ReuseJob
  <2>3. wpc' \in WorkerPcs /\ fJob' \in 0 .. NUM_SEEDS
    BY <1>1, <1>2, AdvanceType DEF ReuseJob, NextJob, WorkerPcs
  <2> QED
    BY <1>2, <2>2, <2>3, ConstantTypes DEF ReuseJob, TypeOK, Silent
<1>3. CASE LaunchJob
  <2>1. NextJob \in JobId
    BY <1>3, NextJobInRange DEF LaunchJob
  <2>2. app' \in [JobId -> {"NONE", "STOPPING"} \cup JobStates] /\ lost' \subseteq JobId
    BY <1>3, <2>1 DEF LaunchJob, TypeOK, JobStates
  <2>3. wpc' \in WorkerPcs
    BY <1>3 DEF LaunchJob, WorkerPcs
  <2> QED
    BY <1>3, <2>2, <2>3, ConstantTypes DEF LaunchJob, TypeOK, Silent
<1>4. CASE PushJob
  <2>1. Len(jobs) < NUM_SEEDS
    BY <1>4, NextJobInRange DEF PushJob, Pushing
  <2>2. PICK s \in JobStates : jobs' = Append(jobs, [state |-> s, inst |-> TRUE])
    BY <1>4 DEF PushJob, JobStates
  <2>3. jobs' \in Seq(Job) /\ Len(jobs') <= NUM_SEEDS
    BY <1>1, <2>1, <2>2, JobConstants DEF Job
  <2>4. wpc' \in WorkerPcs /\ fJob' \in 0 .. NUM_SEEDS
    BY <1>1, <1>4, AdvanceType DEF PushJob, NextJob, WorkerPcs
  <2> QED
    BY <1>4, <2>3, <2>4, ConstantTypes DEF PushJob, TypeOK, Silent
<1>5. CASE NextToWait
  BY <1>5, ConstantTypes DEF NextToWait, TypeOK, Silent, WorkerPcs
<1>6. CASE WaitJob
  <2>1. fJob + 1 \in 1 .. Len(jobs)
    BY <1>6 DEF WaitJob, Worker, LoopInv, TypeOK
  <2>2. jobs' \in Seq(Job) /\ Len(jobs') = Len(jobs)
    <3>1. CASE jobs' = jobs
      BY <1>1, <3>1
    <3>2. CASE app[fJob] \in Terminal /\ jobs' = [jobs EXCEPT ![fJob + 1].state = app[fJob]]
      <4>1. [jobs[fJob + 1] EXCEPT !.state = app[fJob]] \in Job
        <5>1. jobs[fJob + 1] \in Job
          BY <1>1, <2>1, ElementOfSeq
        <5>2. app[fJob] \in JobStates
          BY <3>2 DEF JobStates
        <5> QED
          BY <5>1, <5>2 DEF Job
      <4>2. jobs' = [jobs EXCEPT ![fJob + 1] = [jobs[fJob + 1] EXCEPT !.state = app[fJob]]]
        BY <3>2
      <4> QED
        BY <1>1, <2>1, <4>1, <4>2, ExceptSeq
    <3> QED
      BY <1>6, <3>1, <3>2 DEF WaitJob, WaitReturns
  <2> QED
    BY <1>6, <2>2, ConstantTypes DEF WaitJob, TypeOK, Silent, WorkerPcs
<1>7. CASE NoMoreJobs
  <2>1. wpc' \in WorkerPcs /\ fJob' \in 0 .. NUM_SEEDS
    BY <1>1, <1>7, AdvanceType DEF NoMoreJobs, NextJob, WorkerPcs
  <2> QED
    BY <1>7, <2>1, ConstantTypes DEF NoMoreJobs, TypeOK, Silent
<1>8. CASE StartMerge
  <2>1. merge' \in [list : SUBSET JobId, state : {"NONE"} \cup JobStates]
    BY <1>8 DEF StartMerge, ListedJobs, JobStates
  <2> QED
    BY <1>8, <2>1, ConstantTypes DEF StartMerge, TypeOK, Silent, WorkerPcs
<1>9. CASE MergeListFails \/ ReadResultFails \/ WorkerDangles
  BY <1>9, DieType DEF MergeListFails, ReadResultFails, WorkerDangles, Causes
<1>10. CASE PublishMerge
  <2>1. pub' \in [hash : Hash \cup {NoHash},
                  status : {"NONE", "RUNNING", "SUCCESS", "FAILURE"}, jobs : SUBSET JobId]
    BY <1>10 DEF PublishMerge, Published, MergeOutcome, TypeOK
  <2> QED
    BY <1>10, <2>1, ConstantTypes DEF PublishMerge, TypeOK, WorkerPcs
<1>11. CASE EraseEntry
  <2>1. running' \subseteq Hash
    BY <1>11 DEF EraseEntry, Erased, TypeOK
  <2>2. linked' \in BOOLEAN /\ wpc' \in WorkerPcs
    BY <1>11 DEF EraseEntry, WorkerPcs
  <2> QED
    BY <1>11, <2>1, <2>2, ConstantTypes DEF EraseEntry, TypeOK, Silent
<1>12. CASE EndWorker
  BY <1>12, ConstantTypes DEF EndWorker, TypeOK, Silent, WorkerPcs
<1> QED
  BY <1>2, <1>3, <1>4, <1>5, <1>6, <1>7, <1>8, <1>9, <1>10, <1>11, <1>12 DEF Work, WorkStep

\* The applications and the outside world
LEMMA OutsideType ==
  ASSUME TypeOK, HandleInv, LoopInv, AppsInv, Outside
  PROVE  TypeOK'
<1> USE DEF mainVars, mapVars, workVars, appVars, diskVars
<1>1. ASSUME NEW i \in JobId, EndJob(i) PROVE TypeOK'
  <2>1. SimSlot \in Slot
    BY <1>1, LiveHasWorker, SimSlotType DEF EndJob, Live
  <2>2. app' \in [JobId -> {"NONE", "STOPPING"} \cup JobStates]
    BY <1>1 DEF EndJob, TypeOK, JobStates, Terminal
  <2>3. ASSUME NEW left \in {"none", "partial", "full"}, Writes(i, left)
        PROVE  out' \in [Slot -> [JobId -> {"none", "partial", "full"}]]
    BY <2>1, <2>3 DEF TypeOK, Writes
  <2>4. out' = out \/ \E left \in {"none", "partial", "full"} : Writes(i, left)
    BY <1>1, ServerConstants DEF EndJob
  <2>5. out' \in [Slot -> [JobId -> {"none", "partial", "full"}]]
    BY <2>3, <2>4 DEF TypeOK
  <2> QED
    BY <1>1, <2>2, <2>5, ConstantTypes DEF EndJob, TypeOK, Silent
<1>2. CASE EndMerge
  <2>1. merge' \in [list : SUBSET JobId, state : {"NONE"} \cup JobStates]
    BY <1>2 DEF EndMerge, TypeOK, JobStates, Terminal
  <2>2. SimSlot \in Slot
    BY <1>2, SimSlotType DEF EndMerge, LoopInv, NoMerge
  <2>3. merges' \subseteq Slot
    BY <1>2, <2>2 DEF EndMerge, TypeOK
  <2> QED
    BY <1>2, <2>1, <2>3, ConstantTypes DEF EndMerge, TypeOK, Silent
<1>3. ASSUME NEW o \in orphans, OrphanWrites(o) \/ OrphanEnds(o) PROVE TypeOK'
  <2>1. out' \in [Slot -> [JobId -> {"none", "partial", "full"}]]
    BY <1>3 DEF OrphanWrites, OrphanEnds, TypeOK
  <2> QED
    BY <1>3, <2>1, ConstantTypes DEF OrphanWrites, OrphanEnds, TypeOK, Silent
<1>4. CASE Kill
  BY <1>4, DieType DEF Kill, Causes
<1>5. CASE Restart
  BY <1>5, ConstantTypes DEF Restart, TypeOK, Silent
<1> QED
  BY <1>1, <1>2, <1>3, <1>4, <1>5 DEF Outside

-----------------------------------------------------------------------------
(* The handle of the worker and the map of running simulations *)

\* After the end of the process nothing runs and nothing is being handled
LEMMA DieHandle ==
  ASSUME NEW cause \in Causes, Die(cause)
  PROVE  HandleInv' /\ OneSimulation'
BY DEF Die, Causes, HandleInv, WorkerHandle, OneSimulation, InStop

LEMMA HandleMain ==
  ASSUME TypeOK, HandleInv, OneSimulation, LoopInv, (\E r \in Request : Handle(r)) \/ Main
  PROVE  HandleInv' /\ OneSimulation'
<1> USE DEF mainVars, mapVars, workVars
<1>1. ASSUME NEW r \in Request,
             RejectUnknown(r) \/ AnswerTest(r) \/ ClearCache(r) \/ RefuseRunning(r) \/ RefuseWait(r)
      PROVE  HandleInv' /\ OneSimulation'
  BY <1>1 DEF RejectUnknown, AnswerTest, ClearCache, RefuseRunning, RefuseWait,
              HandleInv, WorkerHandle, OneSimulation, InStop
<1>2. ASSUME NEW r \in Request, ReceiveStop(r) PROVE HandleInv' /\ OneSimulation'
  BY <1>2 DEF ReceiveStop, Receive, HandleInv, WorkerHandle, OneSimulation, InStop
<1>3. ASSUME NEW r \in Request, AcceptNew(r) PROVE HandleInv' /\ OneSimulation'
  <2>1. running = {}
    BY <1>3 DEF AcceptNew, Vacant, AlreadyRuns, OtherRuns
  <2> QED
    BY <1>3, <2>1 DEF AcceptNew, Receive, IsSimulate, AfterAccept, HandleInv, WorkerHandle,
                      OneSimulation, InStop
<1>4. CASE StopNext
  BY <1>4 DEF StopNext, HandleInv, WorkerHandle, OneSimulation, InStop
<1>5. CASE StopNull \/ StopDangles \/ JoinAgain
  BY <1>5, DieHandle DEF StopNull, StopDangles, JoinAgain, Causes
<1>6. CASE StopUse
  BY <1>6 DEF StopUse, HandleInv, WorkerHandle, OneSimulation, InStop
<1>7. CASE StopReply
  BY <1>7 DEF StopReply, Erased, TypeOK, HandleInv, WorkerHandle, OneSimulation, InStop
<1>8. CASE Join
  BY <1>8 DEF Join, HandleInv, WorkerHandle, OneSimulation, InStop
<1>9. CASE RefuseTooMany
  BY <1>9 DEF RefuseTooMany, HandleInv, WorkerHandle, OneSimulation, InStop
<1>10. CASE Start
  BY <1>10 DEF Start, HandleInv, WorkerHandle, OneSimulation, InStop
<1> QED
  BY <1>1, <1>2, <1>3, <1>4, <1>5, <1>6, <1>7, <1>8, <1>9, <1>10 DEF Handle, Main

LEMMA HandleWork ==
  ASSUME TypeOK, HandleInv, OneSimulation, LoopInv, Work
  PROVE  HandleInv' /\ OneSimulation'
<1> USE DEF mainVars, mapVars, workVars
<1>1. CASE ReuseJob \/ PushJob \/ NoMoreJobs
  <2>1. NextJob \in Nat /\ NextJob + 1 \in Nat
    BY DEF TypeOK, NextJob
  <2>2. wpc \notin {"off", "exit", "ended"}
    BY <1>1 DEF ReuseJob, PushJob, NoMoreJobs, Submitting, Worker
  <2>3. wpc' \in {"fill", "head", "merge"}
    BY <1>1, <2>1, AdvanceType DEF ReuseJob, PushJob, NoMoreJobs
  <2> QED
    BY <1>1, <2>2, <2>3 DEF ReuseJob, PushJob, NoMoreJobs, HandleInv, WorkerHandle,
                            OneSimulation, InStop
<1>2. CASE LaunchJob
  BY <1>2 DEF LaunchJob, Submitting, HandleInv, WorkerHandle, OneSimulation, InStop
<1>3. CASE NextToWait \/ WaitJob \/ StartMerge \/ PublishMerge
  BY <1>3 DEF NextToWait, WaitJob, StartMerge, PublishMerge, Worker, HandleInv, WorkerHandle,
              OneSimulation, InStop
<1>4. CASE MergeListFails \/ ReadResultFails \/ WorkerDangles
  BY <1>4, DieHandle DEF MergeListFails, ReadResultFails, WorkerDangles, Causes
<1>5. CASE EraseEntry
  BY <1>5 DEF EraseEntry, Erased, Worker, TypeOK, HandleInv, WorkerHandle, OneSimulation, InStop
<1>6. CASE EndWorker
  BY <1>6 DEF EndWorker, Worker, HandleInv, WorkerHandle, OneSimulation, InStop
<1> QED
  BY <1>1, <1>2, <1>3, <1>4, <1>5, <1>6 DEF Work, WorkStep

LEMMA HandleOutside ==
  ASSUME TypeOK, HandleInv, OneSimulation, LoopInv, Outside
  PROVE  HandleInv' /\ OneSimulation'
<1> USE DEF mainVars, mapVars, workVars
<1>1. CASE Kill
  BY <1>1, DieHandle DEF Kill, Causes
<1>2. CASE Restart
  BY <1>2 DEF Restart, HandleInv, WorkerHandle, OneSimulation, InStop
<1>3. CASE EndMerge
  BY <1>3 DEF EndMerge, HandleInv, WorkerHandle, OneSimulation, InStop
<1>4. ASSUME NEW i \in JobId, EndJob(i) PROVE HandleInv' /\ OneSimulation'
  BY <1>4 DEF EndJob, HandleInv, WorkerHandle, OneSimulation, InStop
<1>5. ASSUME NEW o \in orphans, OrphanWrites(o) \/ OrphanEnds(o)
      PROVE  HandleInv' /\ OneSimulation'
  BY <1>5 DEF OrphanWrites, OrphanEnds, HandleInv, WorkerHandle, OneSimulation, InStop
<1> QED
  BY <1>1, <1>2, <1>3, <1>4, <1>5 DEF Outside

-----------------------------------------------------------------------------
(* The progress of the worker *)

LEMMA DieLoop ==
  ASSUME NEW cause \in Causes, Die(cause)
  PROVE  LoopInv'
<1>1. Len(<<>>) = 0
  OBVIOUS
<1> QED
  BY <1>1 DEF Die, LoopInv, NoSim

\* One more job in the vector
LEMMA AppendLoop ==
  ASSUME TypeOK, LoopInv, NEW job, jobs' = Append(jobs, job), Advance(NextJob + 1),
         Submitting \/ Pushing, UNCHANGED <<sim, merge>>
  PROVE  LoopInv'
<1>1. /\ Len(jobs) \in Nat /\ Len(jobs) < sim.nJobs /\ sim.nJobs \in Nat /\ fJob \in Nat
      /\ MAX_PARALLEL_JOBS \in Nat
  BY NextJobInRange, JobConstants DEF TypeOK
<1>2. Len(jobs') = Len(jobs) + 1
  BY AppendProperties DEF TypeOK
<1>3. wpc \notin {"off", "merging"}
  BY DEF Submitting, Pushing
<1>4. wpc' \in {"fill", "head", "merge"}
  BY <1>1, AdvanceType DEF NextJob
<1>5. CASE wpc \in {"fill", "fillpush"}
  <2>1. fJob' = 0 /\ wpc' = AfterFill(Len(jobs) + 1)
    BY <1>5 DEF Advance, LoopInv, NextJob
  <2>2. wpc' = "fill" => Len(jobs') < sim'.nJobs /\ Len(jobs') < MAX_PARALLEL_JOBS
    BY <1>1, <1>2, <2>1 DEF AfterFill, Least
  <2>3. wpc' # "merge"
    BY <2>1 DEF AfterFill
  <2> QED
    BY <1>1, <1>2, <1>3, <1>4, <2>1, <2>2, <2>3 DEF LoopInv
<1>6. CASE wpc \in {"refill", "refillpush"}
  <2>1. fJob' = fJob + 1 /\ wpc' = AfterWait(fJob + 1)
    BY <1>6 DEF Advance
  <2>2. fJob < Len(jobs)
    BY <1>6 DEF LoopInv
  <2>3. wpc' = "head"
    BY <1>1, <2>1, <2>2 DEF AfterWait
  <2> QED
    BY <1>1, <1>2, <1>3, <2>1, <2>2, <2>3 DEF LoopInv
<1> QED
  BY <1>5, <1>6 DEF Submitting, Pushing

LEMMA LoopStep ==
  ASSUME TypeOK, HandleInv, LoopInv, Next
  PROVE  LoopInv'
<1> USE DEF mainVars, mapVars, workVars
<1>1. CASE UNCHANGED workVars
  BY <1>1 DEF LoopInv
<1>2. ASSUME NEW cause \in Causes, Die(cause) PROVE LoopInv'
  BY <1>2, DieLoop
<1>3. CASE Join
  <2>1. Len(<<>>) = 0
    OBVIOUS
  <2> QED
    BY <1>3, <2>1 DEF Join, LoopInv, NoSim
<1>4. CASE Start
  <2>1. wpc = "off"
    BY <1>4 DEF Start, HandleInv, WorkerHandle
  <2>2. jobs' = <<>> /\ fJob' = 0 /\ Len(jobs') = 0 /\ merge' = NoMerge
    BY <1>4, <2>1 DEF Start, LoopInv
  <2>3. req.n \in Nat /\ req.n # 0 /\ req.hash \in Hash
    BY <1>4, ServerConstants DEF Start, HandleInv, Request, IsTest
  <2>4. sim'.hash \in Hash /\ sim'.nJobs \in Nat /\ sim'.nJobs > 0
    BY <1>4, <2>3, NJobsType DEF Start
  <2> QED
    BY <1>4, <2>2, <2>4, JobConstants DEF Start, LoopInv
<1>5. CASE ReuseJob
  BY <1>5, AppendLoop DEF ReuseJob
<1>6. CASE LaunchJob
  <2>1. Len(jobs) < sim.nJobs
    BY <1>6, NextJobInRange DEF LaunchJob
  <2> QED
    BY <1>6, <2>1 DEF LaunchJob, Submitting, LoopInv
<1>7. CASE PushJob
  <2>1. PICK job : jobs' = Append(jobs, job)
    BY <1>7 DEF PushJob
  <2> QED
    BY <1>7, <2>1, AppendLoop DEF PushJob, Pushing
<1>8. CASE NextToWait
  BY <1>8 DEF NextToWait, Worker, LoopInv
<1>9. CASE WaitJob
  <2>1. Len(jobs') = Len(jobs)
    BY <1>9 DEF WaitJob, TypeOK
  <2> QED
    BY <1>9, <2>1 DEF WaitJob, Worker, LoopInv
<1>10. CASE NoMoreJobs
  <2>1. fJob' = fJob + 1 /\ wpc' = AfterWait(fJob + 1)
    BY <1>10 DEF NoMoreJobs, Advance, Worker
  <2>2. fJob < Len(jobs) /\ Len(jobs) = sim.nJobs
    BY <1>10 DEF NoMoreJobs, MoreToSubmit, Worker, LoopInv, NextJob, TypeOK
  <2> QED
    BY <1>10, <2>1, <2>2 DEF NoMoreJobs, Worker, AfterWait, LoopInv, TypeOK
<1>11. CASE StartMerge
  BY <1>11 DEF StartMerge, Worker, LoopInv
<1>12. CASE PublishMerge
  BY <1>12 DEF PublishMerge, Worker, LoopInv, AllWaited, TypeOK
<1>13. CASE EraseEntry \/ EndWorker
  BY <1>13 DEF EraseEntry, EndWorker, Worker, LoopInv
<1>14. CASE EndMerge
  <2>1. wpc = "merging"
    BY <1>14 DEF EndMerge, LoopInv, NoMerge
  <2> QED
    BY <1>14, <2>1 DEF EndMerge, LoopInv
<1>15. CASE (\E r \in Request : Handle(r)) \/ StopNext \/ StopUse \/ StopReply \/ RefuseTooMany
  <2>1. UNCHANGED workVars
    BY <1>15 DEF Handle, RejectUnknown, AnswerTest, ClearCache, ReceiveStop, RefuseRunning,
                 RefuseWait, AcceptNew, StopNext, StopUse, StopReply, RefuseTooMany
  <2> QED
    BY <1>1, <2>1
<1>16. CASE StopNull \/ StopDangles \/ JoinAgain \/ MergeListFails \/ ReadResultFails
            \/ WorkerDangles \/ Kill
  BY <1>2, <1>16 DEF StopNull, StopDangles, JoinAgain, MergeListFails, ReadResultFails,
                     WorkerDangles, Kill, Causes
<1>17. CASE (\E i \in JobId : EndJob(i)) \/ (\E o \in orphans : OrphanWrites(o) \/ OrphanEnds(o))
            \/ Restart
  <2>1. UNCHANGED workVars
    BY <1>17 DEF EndJob, OrphanWrites, OrphanEnds, Restart
  <2> QED
    BY <1>1, <2>1
<1> QED
  BY <1>3, <1>4, <1>5, <1>6, <1>7, <1>8, <1>9, <1>10, <1>11, <1>12, <1>13, <1>14, <1>15,
     <1>16, <1>17 DEF Next, Main, Work, WorkStep, Outside

-----------------------------------------------------------------------------
(* The applications and what is recorded of them *)

LEMMA StatesDiffer ==
  /\ "RUNNING" \notin Terminal /\ "SUCCESS" \in Terminal
  /\ \A s \in Live : s \notin Terminal /\ s # "NONE"
  /\ \A s \in Terminal : s # "NONE" /\ s # "RUNNING" /\ s # "STOPPING"
BY DEF Terminal, Live

LEMMA EmptyApps ==
  ASSUME jobs' = <<>>, app' = [i \in JobId |-> "NONE"], wpc' = "off"
  PROVE  AppsInv'
<1>1. Len(jobs') = 0
  OBVIOUS
<1>2. ~Pushing'
  BY DEF Pushing
<1> QED
  BY <1>1, <1>2 DEF AppsInv, RecordedStates, JobId

\* Steps that move the worker without submitting
LEMMA SameApps ==
  ASSUME AppsInv, UNCHANGED <<app, jobs>>, Pushing' <=> Pushing
  PROVE  AppsInv'
BY DEF AppsInv, RecordedStates

\* One more record, for an application that exists or for a job of the cache
LEMMA AppendApps ==
  ASSUME TypeOK, LoopInv, AppsInv, NEW job, jobs' = Append(jobs, job), UNCHANGED app,
         Submitting \/ Pushing, ~Pushing',
         IF Pushing THEN job.inst /\ (StillRunning(job.state) \/ app[NextJob] = job.state)
                    ELSE job = CachedJob
  PROVE  AppsInv'
<1> DEFINE n == Len(jobs)
<1>1. n \in Nat /\ n \in JobId /\ Len(jobs') = n + 1
  BY NextJobInRange, AppendProperties DEF TypeOK, NextJob
<1>2. jobs'[n + 1] = job /\ \A k \in 1 .. n : jobs'[k] = jobs[k]
  BY AppendProperties DEF TypeOK
<1>3. Pushing <=> app[n] # "NONE"
  BY <1>1 DEF AppsInv
<1>4. ASSUME NEW i \in JobId, i < n + 1
      PROVE  IF jobs'[i + 1].inst
             THEN /\ app[i] # "NONE"
                  /\ StillRunning(jobs'[i + 1].state) \/ app[i] = jobs'[i + 1].state
             ELSE jobs'[i + 1].state = "SUCCESS" /\ app[i] = "NONE"
  <2>1. CASE i = n
    BY <1>2, <1>3, <2>1 DEF CachedJob, NextJob
  <2>2. CASE i < n
    <3>1. jobs'[i + 1] = jobs[i + 1]
      BY <1>1, <1>2, <2>2 DEF JobId
    <3> QED
      BY <2>2, <3>1 DEF AppsInv, RecordedStates
  <2> QED
    BY <1>1, <1>4, <2>1, <2>2 DEF JobId
<1>5. \A i \in JobId : i > n => i = n \/ app[i] = "NONE"
  BY DEF AppsInv
<1>6. \A i \in JobId : i > n + 1 => app[i] = "NONE"
  BY <1>1, <1>5 DEF JobId
<1>7. n + 1 \in JobId => app[n + 1] = "NONE"
  BY <1>1, <1>5 DEF JobId
<1> QED
  BY <1>1, <1>4, <1>6, <1>7 DEF AppsInv, RecordedStates

LEMMA AppsStep ==
  ASSUME TypeOK, HandleInv, LoopInv, AppsInv, Next
  PROVE  AppsInv'
<1> USE DEF mainVars, mapVars, workVars, appVars
<1>1. ASSUME NEW cause \in Causes, Die(cause) PROVE AppsInv'
  BY <1>1, EmptyApps DEF Die
<1>2. CASE Join
  BY <1>2, EmptyApps DEF Join
<1>3. CASE ReuseJob
  <2>1. ~Pushing /\ wpc' \in {"fill", "head", "merge"}
    BY <1>3, AdvanceType, NextJobInRange DEF ReuseJob, Submitting, Pushing, NextJob
  <2> QED
    BY <1>3, <2>1, AppendApps DEF ReuseJob, Pushing
<1>4. CASE LaunchJob
  <2> DEFINE n == Len(jobs)
  <2>1. n \in JobId /\ n \in Nat
    BY <1>4, NextJobInRange DEF LaunchJob, NextJob
  <2>2. app' = [app EXCEPT ![n] = "RUNNING"] /\ jobs' = jobs /\ Pushing'
    BY <1>4 DEF LaunchJob, NextJob, Pushing, Submitting
  <2>3. app'[n] = "RUNNING" /\ \A i \in JobId : i # n => app'[i] = app[i]
    BY <2>1, <2>2 DEF TypeOK
  <2>4. \A i \in JobId : i < n \/ i > n => i # n
    BY <2>1 DEF JobId
  <2> QED
    BY <2>1, <2>2, <2>3, <2>4 DEF AppsInv, RecordedStates
<1>5. CASE PushJob
  <2>1. PICK s \in {"RUNNING"} \cup ({app[NextJob]} \cap Terminal) :
          jobs' = Append(jobs, [state |-> s, inst |-> TRUE])
    BY <1>5 DEF PushJob
  <2>2. StillRunning(s) \/ app[NextJob] = s
    BY <2>1, StatesDiffer DEF StillRunning
  <2>3. Pushing /\ wpc' \in {"fill", "head", "merge"}
    BY <1>5, AdvanceType, NextJobInRange DEF PushJob, Pushing, NextJob
  <2>4. ~Pushing'
    BY <2>3 DEF Pushing
  <2> QED
    BY <1>5, <2>1, <2>2, <2>3, <2>4, AppendApps DEF PushJob
<1>6. CASE WaitJob
  <2> DEFINE k == fJob + 1
  <2>1. app' = app /\ ~Pushing /\ ~Pushing'
    BY <1>6 DEF WaitJob, Worker, Pushing
  <2>2. k \in 1 .. Len(jobs) /\ fJob \in Nat /\ jobs \in Seq(Job)
    BY <1>6 DEF WaitJob, Worker, LoopInv, TypeOK
  <2>3. CASE jobs' = jobs
    BY <2>1, <2>3, SameApps
  <2>4. CASE /\ StillRunning(jobs[k].state)
             /\ jobs' = [jobs EXCEPT ![k].state = app[fJob]]
    <3>1. Len(jobs') = Len(jobs)
      BY <2>2, <2>4
    <3>2. jobs[k] \in Job
      BY <2>2, ElementOfSeq
    <3>3. jobs'[k].state = app[fJob] /\ jobs'[k].inst = jobs[k].inst
      BY <2>2, <2>4, <3>2 DEF Job
    <3>4. \A i \in JobId : i < Len(jobs) /\ i # fJob => jobs'[i + 1] = jobs[i + 1]
      BY <2>2, <2>4 DEF JobId
    <3>5. fJob \in JobId /\ fJob < Len(jobs)
      <4>1. Len(jobs) \in Nat /\ Len(jobs) <= NUM_SEEDS /\ NUM_SEEDS \in Nat
        BY JobConstants DEF TypeOK
      <4> QED
        BY <2>2, <4>1 DEF JobId
    <3>6. jobs[k].inst /\ app[fJob] # "NONE"
      BY <2>4, <3>5, StatesDiffer DEF AppsInv, RecordedStates, StillRunning
    <3> QED
      BY <2>1, <3>1, <3>3, <3>4, <3>6 DEF AppsInv, RecordedStates
  <2> QED
    BY <1>6, <2>3, <2>4 DEF WaitJob
<1>7. CASE StopUse
  <2>1. jobs' = jobs /\ wpc' = wpc
    BY <1>7 DEF StopUse
  <2>2. \A i \in JobId : app'[i] = app[i] \/ (app[i] = "RUNNING" /\ app'[i] = "STOPPING")
    BY <1>7 DEF StopUse, StopInstance, TypeOK
  <2>3. Pushing' <=> Pushing
    BY <2>1 DEF Pushing
  <2> QED
    BY <2>1, <2>2, <2>3, StatesDiffer DEF AppsInv, RecordedStates, StillRunning
<1>8. ASSUME NEW j \in JobId, EndJob(j) PROVE AppsInv'
  <2>1. jobs' = jobs /\ wpc' = wpc
    BY <1>8 DEF EndJob
  <2>2. /\ app[j] \in Live /\ app'[j] \in Terminal
        /\ \A i \in JobId : i # j => app'[i] = app[i]
    BY <1>8 DEF EndJob, TypeOK, Terminal
  <2>3. Pushing' <=> Pushing
    BY <2>1 DEF Pushing
  <2>4. \A i \in JobId : app'[i] # "NONE" <=> app[i] # "NONE"
    BY <2>2, StatesDiffer
  <2>5. \A i \in JobId : app[i] \in Terminal => app'[i] = app[i]
    BY <2>2, StatesDiffer
  <2> QED
    BY <2>1, <2>3, <2>4, <2>5 DEF AppsInv, RecordedStates, StillRunning
<1>9. CASE NextToWait \/ StartMerge \/ PublishMerge \/ EraseEntry \/ EndWorker \/ EndMerge \/ Start
  <2>1. UNCHANGED <<app, jobs>>
    BY <1>9 DEF NextToWait, StartMerge, PublishMerge, EraseEntry, EndWorker, EndMerge, Start
  <2>2. CASE Start
    <3>1. ~Pushing /\ ~Pushing'
      BY <2>2 DEF Start, HandleInv, WorkerHandle, Pushing
    <3> QED
      BY <2>1, <3>1, SameApps
  <2>3. CASE NextToWait \/ StartMerge \/ PublishMerge \/ EraseEntry \/ EndWorker \/ EndMerge
    <3>1. Pushing' <=> Pushing
      BY <2>3 DEF NextToWait, StartMerge, PublishMerge, EraseEntry, EndWorker, EndMerge,
                  Worker, Pushing
    <3> QED
      BY <2>1, <3>1, SameApps
  <2> QED
    BY <1>9, <2>2, <2>3
<1>10. CASE NoMoreJobs
  <2>1. wpc' \in {"fill", "head", "merge"} /\ NextJob \in Nat
    BY <1>10, AdvanceType DEF NoMoreJobs, NextJob, TypeOK
  <2>2. Pushing' <=> Pushing
    BY <1>10, <2>1 DEF NoMoreJobs, Worker, Pushing
  <2> QED
    BY <1>10, <2>2, SameApps DEF NoMoreJobs
<1>11. CASE \/ \E r \in Request : Handle(r)
            \/ StopNext \/ StopReply \/ RefuseTooMany \/ Restart
            \/ \E o \in orphans : OrphanWrites(o) \/ OrphanEnds(o)
  <2>1. UNCHANGED <<app, jobs, wpc>>
    BY <1>11 DEF Handle, RejectUnknown, AnswerTest, ClearCache, ReceiveStop, RefuseRunning,
                 RefuseWait, AcceptNew, StopNext, StopReply, RefuseTooMany, Restart,
                 OrphanWrites, OrphanEnds
  <2>2. Pushing' <=> Pushing
    BY <2>1 DEF Pushing
  <2> QED
    BY <2>1, <2>2, SameApps
<1>12. CASE StopNull \/ StopDangles \/ JoinAgain \/ MergeListFails \/ ReadResultFails
            \/ WorkerDangles \/ Kill
  BY <1>1, <1>12 DEF StopNull, StopDangles, JoinAgain, MergeListFails, ReadResultFails,
                     WorkerDangles, Kill, Causes
<1> QED
  BY <1>2, <1>3, <1>4, <1>5, <1>6, <1>7, <1>8, <1>9, <1>10, <1>11, <1>12
     DEF Next, Main, Work, WorkStep, Outside

-----------------------------------------------------------------------------
(* The jobs waited for, and how far the submission runs ahead of them *)

LEMMA EmptyWindow ==
  ASSUME jobs' = <<>>, fJob' = 0, wpc' \notin {"refill", "refillpush"}
  PROVE  WindowInv'
<1>1. Len(jobs') = 0 /\ Waited' = 0
  BY DEF Waited
<1> QED
  BY <1>1, JobConstants DEF WindowInv, JobId

LEMMA SameWindow ==
  ASSUME WindowInv, UNCHANGED <<jobs, fJob>>, Waited' = Waited
  PROVE  WindowInv'
BY DEF WindowInv

LEMMA AppendWindow ==
  ASSUME TypeOK, LoopInv, WindowInv, NEW job, jobs' = Append(jobs, job),
         Advance(NextJob + 1), Submitting \/ Pushing, UNCHANGED sim
  PROVE  WindowInv'
<1> DEFINE n == Len(jobs)
<1>1. n \in Nat /\ n < sim.nJobs /\ fJob \in Nat /\ MAX_PARALLEL_JOBS \in Nat
  BY NextJobInRange, JobConstants DEF TypeOK
<1>2. Len(jobs') = n + 1 /\ \A k \in 1 .. n : jobs'[k] = jobs[k]
  BY AppendProperties DEF TypeOK
<1>3. Waited' = fJob'
  BY <1>1, AdvanceType DEF NextJob, Waited
<1>4. CASE wpc \in {"fill", "fillpush"}
  <2>1. fJob' = 0 /\ n < MAX_PARALLEL_JOBS
    BY <1>4 DEF Advance, LoopInv
  <2> QED
    BY <1>1, <1>2, <1>3, <2>1 DEF WindowInv, JobId
<1>5. CASE wpc \in {"refill", "refillpush"}
  <2>1. fJob' = fJob + 1 /\ fJob < n /\ Waited = fJob + 1
    BY <1>5 DEF Advance, LoopInv, Waited
  <2>2. ASSUME NEW i \in JobId, i < fJob + 1 PROVE jobs'[i + 1].state \in Terminal
    <3>1. i + 1 \in 1 .. n
      BY <1>1, <2>1, <2>2 DEF JobId
    <3> QED
      BY <1>2, <2>1, <2>2, <3>1 DEF WindowInv
  <2>3. Len(jobs') - fJob' <= MAX_PARALLEL_JOBS
    BY <1>1, <1>2, <2>1 DEF WindowInv
  <2> QED
    BY <1>3, <2>1, <2>2, <2>3 DEF WindowInv
<1> QED
  BY <1>4, <1>5 DEF Submitting, Pushing

LEMMA WindowStep ==
  ASSUME TypeOK, HandleInv, LoopInv, AppsInv, WindowInv, Next
  PROVE  WindowInv'
<1> USE DEF mainVars, mapVars, workVars
<1>1. ASSUME NEW cause \in Causes, Die(cause) PROVE WindowInv'
  BY <1>1, EmptyWindow DEF Die
<1>2. CASE Join
  BY <1>2, EmptyWindow DEF Join
<1>3. CASE Start
  <2>1. wpc = "off"
    BY <1>3 DEF Start, HandleInv, WorkerHandle
  <2>2. jobs' = <<>> /\ fJob' = 0 /\ wpc' = "fill"
    BY <1>3, <2>1 DEF Start, LoopInv
  <2> QED
    BY <2>2, EmptyWindow
<1>4. CASE ReuseJob
  BY <1>4, AppendWindow DEF ReuseJob
<1>5. CASE PushJob
  <2>1. PICK job : jobs' = Append(jobs, job)
    BY <1>5 DEF PushJob
  <2> QED
    BY <1>5, <2>1, AppendWindow DEF PushJob, Pushing
<1>6. CASE WaitJob
  <2> DEFINE k == fJob + 1
  <2>1. /\ fJob' = fJob /\ Waited = fJob /\ Waited' = fJob + 1
        /\ fJob \in Nat /\ k \in 1 .. Len(jobs) /\ jobs \in Seq(Job)
    BY <1>6 DEF WaitJob, Worker, Waited, LoopInv, TypeOK
  <2>2. jobs[k] \in Job
    BY <2>1, ElementOfSeq
  <2>3. CASE StillRunning(jobs[k].state)
    <3>1. jobs' = [jobs EXCEPT ![k].state = app[fJob]] /\ app[fJob] \in Terminal
      BY <1>6, <2>3 DEF WaitJob, WaitReturns
    <3>2. Len(jobs') = Len(jobs) /\ jobs'[k].state \in Terminal
      BY <2>1, <2>2, <3>1 DEF Job
    <3>3. \A i \in JobId : i < fJob => jobs'[i + 1] = jobs[i + 1]
      BY <2>1, <3>1 DEF JobId
    <3>4. \A i \in JobId : i < fJob + 1 => i < fJob \/ i = fJob
      BY <2>1 DEF JobId
    <3> QED
      BY <2>1, <3>2, <3>3, <3>4 DEF WindowInv
  <2>4. CASE ~StillRunning(jobs[k].state)
    <3>1. jobs' = jobs /\ jobs[k].state \in Terminal
      BY <1>6, <2>4 DEF WaitJob, StillRunning
    <3>2. \A i \in JobId : i < fJob + 1 => i < fJob \/ i = fJob
      BY <2>1 DEF JobId
    <3> QED
      BY <2>1, <3>1, <3>2 DEF WindowInv
  <2> QED
    BY <2>3, <2>4
<1>7. CASE NoMoreJobs
  <2>1. jobs' = jobs /\ fJob' = fJob + 1 /\ fJob \in Nat /\ Len(jobs) \in Nat
    BY <1>7 DEF NoMoreJobs, Advance, Worker, TypeOK
  <2>2. Waited = fJob + 1 /\ Waited' = fJob + 1
    BY <1>7, <2>1 DEF NoMoreJobs, Advance, AfterWait, Worker, Waited
  <2> QED
    BY <2>1, <2>2, JobConstants DEF WindowInv
<1>8. CASE \/ LaunchJob \/ NextToWait \/ StartMerge \/ PublishMerge \/ EraseEntry
           \/ EndWorker \/ EndMerge
  <2>1. UNCHANGED <<jobs, fJob>>
    BY <1>8 DEF LaunchJob, NextToWait, StartMerge, PublishMerge, EraseEntry, EndWorker, EndMerge
  <2>2. wpc' \in {"refill", "refillpush"} <=> wpc \in {"refill", "refillpush"}
    BY <1>8 DEF LaunchJob, Submitting, NextToWait, StartMerge, PublishMerge, EraseEntry,
                EndWorker, EndMerge, Worker
  <2> QED
    BY <2>1, <2>2, SameWindow DEF Waited
<1>9. CASE \/ \E r \in Request : Handle(r)
           \/ StopNext \/ StopUse \/ StopReply \/ RefuseTooMany \/ Restart
           \/ \E i \in JobId : EndJob(i)
           \/ \E o \in orphans : OrphanWrites(o) \/ OrphanEnds(o)
  <2>1. UNCHANGED <<jobs, fJob, wpc>>
    BY <1>9 DEF Handle, RejectUnknown, AnswerTest, ClearCache, ReceiveStop, RefuseRunning,
                RefuseWait, AcceptNew, StopNext, StopUse, StopReply, RefuseTooMany, Restart,
                EndJob, OrphanWrites, OrphanEnds
  <2> QED
    BY <2>1, SameWindow DEF Waited
<1>10. CASE StopNull \/ StopDangles \/ JoinAgain \/ MergeListFails \/ ReadResultFails
            \/ WorkerDangles \/ Kill
  BY <1>1, <1>10 DEF StopNull, StopDangles, JoinAgain, MergeListFails, ReadResultFails,
                     WorkerDangles, Kill, Causes
<1> QED
  BY <1>2, <1>3, <1>4, <1>5, <1>6, <1>7, <1>8, <1>9, <1>10 DEF Next, Main, Work, WorkStep, Outside

-----------------------------------------------------------------------------
(* The inductive invariant *)

LEMMA InitInd == Init => IndInv
<1> SUFFICES ASSUME Init PROVE IndInv
  OBVIOUS
<1>1. TypeOK
  BY InitType
<1>2. HandleInv /\ OneSimulation
  BY DEF Init, HandleInv, WorkerHandle, OneSimulation, InStop
<1>3. LoopInv
  BY DEF Init, LoopInv, NoSim
<1>4. AppsInv
  BY DEF Init, AppsInv, RecordedStates, Pushing, JobId
<1>5. WindowInv
  BY JobConstants DEF Init, WindowInv, Waited, JobId
<1> QED
  BY <1>1, <1>2, <1>3, <1>4, <1>5 DEF IndInv

LEMMA StutterInd == IndInv /\ UNCHANGED vars => IndInv'
<1> SUFFICES ASSUME IndInv, UNCHANGED vars PROVE IndInv'
  OBVIOUS
<1> USE DEF vars, mainVars, mapVars, workVars, appVars, diskVars, wires
<1>1. TypeOK'
  BY DEF IndInv, TypeOK
<1>2. HandleInv' /\ OneSimulation'
  BY DEF IndInv, HandleInv, WorkerHandle, OneSimulation, InStop
<1>3. LoopInv'
  BY DEF IndInv, LoopInv
<1>4. AppsInv'
  BY DEF IndInv, AppsInv, RecordedStates, Pushing
<1>5. WindowInv'
  BY DEF IndInv, WindowInv, Waited
<1> QED
  BY <1>1, <1>2, <1>3, <1>4, <1>5 DEF IndInv

LEMMA NextInd == IndInv /\ Next => IndInv'
<1> SUFFICES ASSUME IndInv, Next PROVE IndInv'
  OBVIOUS
<1> USE DEF IndInv
<1>1. TypeOK' /\ HandleInv' /\ OneSimulation'
  <2>1. CASE \E r \in Request : Handle(r)
    BY <2>1, HandleType, HandleMain
  <2>2. CASE Main
    BY <2>2, MainType, HandleMain
  <2>3. CASE Work
    BY <2>3, WorkType, HandleWork
  <2>4. CASE Outside
    BY <2>4, OutsideType, HandleOutside
  <2> QED
    BY <2>1, <2>2, <2>3, <2>4 DEF Next
<1>2. LoopInv' /\ AppsInv' /\ WindowInv'
  BY LoopStep, AppsStep, WindowStep
<1> QED
  BY <1>1, <1>2

\* IndInv holds in every state the server and its environment can reach
THEOREM Inductive == Spec => []IndInv
<1>1. IndInv /\ [Next]_vars => IndInv'
  BY NextInd, StutterInd
<1> QED
  BY <1>1, InitInd, PTL DEF Spec

-----------------------------------------------------------------------------
(* The safety properties that follow from it *)

\* Every variable of the server keeps its type: the vector of jobs and the loop
\* index never outgrow the seed table, whatever STOP, CLEAR and restarts do
THEOREM TypeCorrect == Spec => []TypeOK
<1>1. IndInv => TypeOK
  BY DEF IndInv
<1> QED
  BY <1>1, Inductive, PTL

\* The std::thread handle is joinable exactly while a worker exists, and it is
\* free whenever thread.reset is about to store a new one (line 375)
THEOREM HandleCorrect == Spec => []WorkerHandle
<1>1. IndInv => WorkerHandle
  BY DEF IndInv, HandleInv
<1> QED
  BY <1>1, Inductive, PTL

\* running_simulations holds the simulation of the worker and no other, so two
\* simulations never overlap (lines 247-263, 372, 481)
THEOREM NoOverlap == Spec => []OneSimulation
<1>1. IndInv => OneSimulation
  BY DEF IndInv
<1> QED
  BY <1>1, Inductive, PTL

\* sim_jobs records what happened to the applications, and a job to wait for
\* has an instance (lines 433-451, 466-470)
THEOREM RecordsCorrect == Spec => []RecordedStates
<1>1. IndInv => RecordedStates
  BY DEF IndInv, AppsInv
<1> QED
  BY <1>1, Inductive, PTL

\* seeds[i] and sim_jobs[fJob] are in range for every number of seeds, of jobs
\* and of jobs in parallel (lines 358, 425-478)
THEOREM IndicesCorrect == Spec => []IndexInRange
<1>1. IndInv => IndexInRange
  <2> SUFFICES ASSUME IndInv PROVE IndexInRange
    OBVIOUS
  <2>1. TypeOK /\ LoopInv
    BY DEF IndInv
  <2>2. Submitting => NextJob < sim.nJobs
    BY <2>1, JobConstants DEF Submitting, MoreToSubmit, NextJob, LoopInv
  <2>3. sim.nJobs <= NUM_SEEDS
    BY <2>1, JobConstants DEF TypeOK
  <2> QED
    BY <2>1, <2>2, <2>3 DEF IndexInRange, LoopInv
<1> QED
  BY <1>1, Inductive, PTL

\* Only jobs of the vector are waited for
LEMMA WaitedSubmitted ==
  ASSUME IndInv
  PROVE  Waited <= Len(jobs)
<1>1. Len(jobs) \in Nat /\ fJob \in Nat /\ wpc \in WorkerPcs
  BY DEF IndInv, TypeOK
<1>2. wpc = "off" => fJob = 0
  BY DEF IndInv, LoopInv
<1>3. wpc # "off" => fJob <= Len(jobs)
  BY <1>1 DEF IndInv, LoopInv, WorkerPcs
<1>4. wpc \in {"refill", "refillpush"} => fJob < Len(jobs)
  BY DEF IndInv, LoopInv
<1> QED
  BY <1>1, <1>2, <1>3, <1>4 DEF Waited

\* An application that is alive has an index that has not been waited for: it
\* belongs to a job of the vector, or to the one being pushed
LEMMA LiveInWindow ==
  ASSUME IndInv, NEW i \in LiveApps
  PROVE  /\ i \in JobId /\ Waited <= i
         /\ i < Len(jobs) \/ (i = Len(jobs) /\ Pushing)
<1>1. i \in JobId /\ app[i] \in Live
  BY DEF LiveApps
<1>2. app[i] # "NONE" /\ app[i] \notin Terminal
  BY <1>1, StatesDiffer
<1>3. /\ Len(jobs) \in Nat /\ fJob \in Nat /\ Waited \in Nat /\ i \in Nat
  BY <1>1 DEF IndInv, TypeOK, Waited, JobId
<1>4. ~(i > Len(jobs))
  BY <1>1, <1>2 DEF IndInv, AppsInv
<1>5. i = Len(jobs) => Pushing
  BY <1>1, <1>2 DEF IndInv, AppsInv
<1>6. ASSUME i < Waited PROVE FALSE
  <2>1. jobs[i + 1].state \in Terminal
    BY <1>1, <1>6 DEF IndInv, WindowInv
  <2>2. i < Len(jobs)
    BY <1>3, <1>6, WaitedSubmitted
  <2> QED
    BY <1>1, <1>2, <2>1, <2>2 DEF IndInv, AppsInv, RecordedStates, StillRunning
<1> QED
  BY <1>1, <1>3, <1>4, <1>5, <1>6

\* At most MAX_PARALLEL_JOBS applications are alive, for every number of jobs
\* and every order in which they end (lines 453-478)
THEOREM Bounded == Spec => []ParallelBound
<1>1. IndInv => ParallelBound
  <2> SUFFICES ASSUME IndInv PROVE ParallelBound
    OBVIOUS
  <2> DEFINE last == IF Pushing THEN Len(jobs) ELSE Len(jobs) - 1
  <2>1. /\ Len(jobs) \in Nat /\ Waited \in Nat /\ last \in Int
        /\ MAX_PARALLEL_JOBS \in Nat /\ fJob \in Nat
    BY JobConstants DEF IndInv, TypeOK, Waited
  <2>2. \A i \in LiveApps : i \in Waited .. last
    <3> TAKE i \in LiveApps
    <3>1. i \in Nat
      BY LiveInWindow DEF JobId
    <3> QED
      BY <2>1, <3>1, LiveInWindow
  <2>3. last - Waited + 1 <= MAX_PARALLEL_JOBS
    <3>1. Len(jobs) - fJob <= MAX_PARALLEL_JOBS
      BY DEF IndInv, WindowInv
    <3>2. CASE wpc = "fillpush"
      BY <2>1, <3>2 DEF IndInv, LoopInv, Waited, Pushing
    <3>3. CASE wpc # "fillpush"
      BY <2>1, <3>1, <3>3 DEF Waited, Pushing
    <3> QED
      BY <3>2, <3>3
  <2>4. /\ IsFiniteSet(Waited .. last)
        /\ Cardinality(Waited .. last) <= MAX_PARALLEL_JOBS
    <3> HIDE DEF last
    <3>1. Waited \in Int
      BY <2>1
    <3>2. /\ IsFiniteSet(Waited .. last)
          /\ Cardinality(Waited .. last) = IF Waited > last THEN 0 ELSE last - Waited + 1
      BY <2>1, <3>1, FS_Interval
    <3> QED
      BY <2>1, <2>3, <3>2
  <2>5. /\ Cardinality(LiveApps) <= Cardinality(Waited .. last)
        /\ Cardinality(LiveApps) \in Nat /\ Cardinality(Waited .. last) \in Nat
    <3> HIDE DEF last
    <3>1. LiveApps \subseteq Waited .. last
      BY <2>2
    <3>2. IsFiniteSet(LiveApps)
      BY <2>4, <3>1, FS_Subset
    <3> QED
      BY <2>4, <3>1, <3>2, FS_Subset, FS_CardinalityType
  <2> QED
    BY <2>1, <2>4, <2>5 DEF ParallelBound
<1> QED
  BY <1>1, Inductive, PTL

\* When the waiting loop is over every job has been submitted and has ended, and
\* no application is left running behind the thread (lines 480-484)
THEOREM LoopEndsAll == Spec => []AllEnded
<1>1. IndInv => AllEnded
  <2> SUFFICES ASSUME IndInv, fJob = sim.nJobs, wpc # "off"
               PROVE  /\ Len(jobs) = sim.nJobs
                      /\ \A i \in 1 .. Len(jobs) : jobs[i].state \in Terminal
                      /\ LiveApps = {}
    BY DEF AllEnded, AllWaited
  <2>1. /\ Len(jobs) \in Nat /\ fJob \in Nat /\ sim.nJobs \in Nat /\ sim.nJobs > 0
        /\ Len(jobs) <= NUM_SEEDS /\ NUM_SEEDS \in Nat /\ Len(jobs) <= sim.nJobs
    BY JobConstants DEF IndInv, TypeOK, LoopInv
  <2>2. wpc \in {"merge", "merging", "erase", "exit", "ended"}
    BY <2>1 DEF IndInv, TypeOK, LoopInv, WorkerPcs
  <2>3. Len(jobs) = sim.nJobs /\ Waited = fJob
    BY <2>1, <2>2 DEF IndInv, LoopInv, Waited
  <2>4. ASSUME NEW i \in 1 .. Len(jobs) PROVE jobs[i].state \in Terminal
    <3>1. i - 1 \in JobId /\ i - 1 < Waited /\ (i - 1) + 1 = i
      BY <2>1, <2>3 DEF JobId
    <3>2. jobs[(i - 1) + 1].state \in Terminal
      BY <3>1 DEF IndInv, WindowInv
    <3> QED
      BY <3>1, <3>2
  <2>5. ASSUME NEW i \in LiveApps PROVE FALSE
    <3>1. ~Pushing
      BY <2>2 DEF Pushing
    <3>2. i \in Nat /\ Waited <= i /\ i < Len(jobs)
      BY <3>1, LiveInWindow DEF JobId
    <3> QED
      BY <2>1, <2>3, <3>2
  <2> QED
    BY <2>3, <2>4, <2>5
<1> QED
  BY <1>1, Inductive, PTL

=============================================================================
