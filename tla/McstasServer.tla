---------------------------- MODULE McstasServer ----------------------------
(***************************************************************************)
(* The simulation server, mcstas_server.cpp, with the parts of its         *)
(* environment that it drives:                                             *)
(*                                                                         *)
(*   - the main thread, which receives one request at a time, answers it   *)
(*     and, for a new simulation, starts the worker thread (mpc);          *)
(*   - the worker thread, which submits the jobs of one simulation, waits  *)
(*     for them, merges their outputs and publishes the results (wpc);     *)
(*   - the CAMEO applications the two threads start, stop and wait for:    *)
(*     the jobs (app) and the merge job (merge), which are external;       *)
(*   - the cache directory, which survives the server (dirs, merges, out). *)
(*                                                                         *)
(* One action is one stretch of code between two accesses to state that    *)
(* another thread, an application or a restart may change.                 *)
(***************************************************************************)
EXTENDS SimTypes, Integers, Sequences, FiniteSets

CONSTANTS
  Hash,      \* the hashes of the requests
  NoHash,    \* no request, no simulation
  ReqType,   \* the request types clients send
  Ncount,    \* the neutron counts clients ask for; 0 asks for a test
  CanKill,   \* whether the server may be stopped from outside
  FailureLeaves  \* what a job that fails may leave of its output

ASSUME ServerConstants ==
  /\ NoHash \notin Hash
  /\ ReqType \subseteq ReqTypes
  /\ Ncount \subseteq Nat
  /\ CanKill \in BOOLEAN
  /\ FailureLeaves \subseteq {"none", "partial", "full"} /\ FailureLeaves # {}

VARIABLES
  srv,       \* "up", or why the process is down
  mpc,       \* where the main thread is
  req,       \* the request it is treating
  sidx,      \* i of the loop that treats a STOP
  slen,      \* the size it last read in that loop
  running,   \* the keys of running_simulations
  linked,    \* whether sim_jobs still refers to an entry of the map
  thread,    \* the std::thread: none, joinable or joined
  wpc,       \* where the worker thread is, "off" when there is none
  sim,       \* hash, cache area and nJobs captured by the worker thread
  jobs,      \* sim_jobs: state of each submitted job, and has it an instance
  fJob,      \* index of the job being waited for
  merge,     \* files listed for the merge job, and the state it ended in
  app,       \* the job applications as CAMEO knows them
  lost,      \* jobs whose output directory is gone
  orphans,   \* applications that outlived the server that started them
  dirs,      \* existing cache directories
  merges,    \* cache directories with a merge subdirectory
  out,       \* sDETECTOR.mcpl.gz in the output directory of each job
  reply,     \* the answer sent in this step, if any
  pub        \* the result published in this step, if any

mainVars  == <<mpc, req, sidx, slen>>
mapVars   == <<running, linked>>
workVars  == <<wpc, sim, jobs, fJob, merge>>
appVars   == <<app, lost>>
diskVars  == <<dirs, merges, out>>
wires     == <<reply, pub>>
vars == <<srv, mainVars, mapVars, thread, workVars, appVars, orphans, diskVars, wires>>

-----------------------------------------------------------------------------
Slot == [hash : Hash, area : Areas]          \* local_cache(hash, baseDir + area)
SlotOf(h, a) == [hash |-> h, area |-> a]
SimSlot == SlotOf(sim.hash, sim.area)

Request   == [type : ReqType, hash : Hash, n : Ncount]
NoRequest == [type |-> "NONE", hash |-> NoHash, n |-> 0]
NoSim     == [hash |-> NoHash, area |-> "QUICK", nJobs |-> 0]
NoMerge   == [list |-> {}, state |-> "NONE"]
NoReply   == [type |-> "NONE", hash |-> NoHash, ans |-> "NONE"]
NoResult  == [hash |-> NoHash, status |-> "NONE", jobs |-> {}]

\* What happened to the process: stopped from outside, an exception nobody
\* catches, or an access to freed or null memory
Causes  == {"killed", "uncaught", "join_twice", "null_instance", "dangling"}

Live      == {"RUNNING", "STOPPING"}
LiveApps  == {i \in JobId : app[i] \in Live}
Answered(r, a) == reply' = [type |-> r.type, hash |-> r.hash, ans |-> a]
Published(h, s, js) == pub' = [hash |-> h, status |-> s, jobs |-> js]
Silent == reply' = NoReply /\ pub' = NoResult

\* The loop index, and whether every job has been waited for
AllWaited == fJob = sim.nJobs
NextJob   == Len(jobs)
Least(a, b) == IF a < b THEN a ELSE b

Init ==
  /\ srv = "up"
  /\ mpc = "receive" /\ req = NoRequest /\ sidx = 0 /\ slen = 0
  /\ running = {} /\ linked = FALSE /\ thread = "none"
  /\ wpc = "off" /\ sim = NoSim /\ jobs = <<>> /\ fJob = 0 /\ merge = NoMerge
  /\ app = [i \in JobId |-> "NONE"] /\ lost = {} /\ orphans = {}
  /\ dirs = {} /\ merges = {} /\ out = [s \in Slot |-> [i \in JobId |-> "none"]]
  /\ reply = NoReply /\ pub = NoResult

\* The process ends: its memory is lost, its applications and the disk stay
Die(cause) ==
  /\ srv' = cause
  /\ mpc' = "receive" /\ req' = NoRequest /\ sidx' = 0 /\ slen' = 0
  /\ running' = {} /\ linked' = FALSE /\ thread' = "none"
  /\ wpc' = "off" /\ sim' = NoSim /\ jobs' = <<>> /\ fJob' = 0 /\ merge' = NoMerge
  /\ app' = [i \in JobId |-> "NONE"] /\ lost' = {}
  /\ orphans' = orphans \cup {<<SimSlot, i>> : i \in LiveApps \ lost}
  /\ UNCHANGED diskVars
  /\ Silent

-----------------------------------------------------------------------------
(* The main thread: one request after the other *)

\* Handlers that answer at once start from here
Receive(r) == srv = "up" /\ mpc = "receive" /\ r \in Request

RejectUnknown(r) ==
  /\ Receive(r)
  /\ r.type = "REQUNKNOWN"
  /\ Answered(r, "ansERROR") /\ pub' = NoResult
  /\ UNCHANGED <<srv, mainVars, mapVars, thread, workVars, appVars, orphans, diskVars>>

IsTest(r) == r.n = 0

AnswerTest(r) ==
  /\ Receive(r)
  /\ r.type # "REQUNKNOWN" /\ IsTest(r)
  /\ Answered(r, "ansDONE")
  /\ Published(NoHash, "SUCCESS", {})
  /\ UNCHANGED <<srv, mainVars, mapVars, thread, workVars, appVars, orphans, diskVars>>

\* fs::remove_all of both areas of the hash, whatever is running: a job that
\* runs there has nowhere left to write
ClearCache(r) ==
  /\ Receive(r)
  /\ r.type = "CLEAR" /\ ~IsTest(r)
  /\ LET cleared == {SlotOf(r.hash, a) : a \in Areas}
     IN  /\ dirs' = dirs \ cleared
         /\ merges' = merges \ cleared
         /\ out' = [s \in Slot |-> IF s \in cleared THEN [i \in JobId |-> "none"] ELSE out[s]]
         /\ orphans' = {o \in orphans : o[1] \notin cleared}
  /\ lost' = IF sim.hash = r.hash THEN LiveApps \cup lost ELSE lost
  /\ Answered(r, "ansOK") /\ pub' = NoResult
  /\ UNCHANGED <<srv, mainVars, mapVars, thread, workVars, app>>

\* STOP: stop every instance of the entry, then answer, then erase the entry
ReceiveStop(r) ==
  /\ Receive(r)
  /\ r.type = "STOP" /\ ~IsTest(r)
  /\ mpc' = "stopnext" /\ req' = r
  /\ Silent
  /\ UNCHANGED <<srv, sidx, slen, mapVars, thread, workVars, appVars, orphans, diskVars>>

\* running_simulations[hash].size(): operator[] inserts a missing entry
EntryIsSim == linked /\ sim.hash = req.hash
EntrySize  == IF EntryIsSim THEN Len(jobs) ELSE 0

StopNext ==
  /\ srv = "up" /\ mpc = "stopnext"
  /\ running' = running \cup {req.hash}
  /\ slen' = EntrySize
  /\ mpc' = IF sidx < EntrySize THEN "stopuse" ELSE "stopreply"
  /\ Silent
  /\ UNCHANGED <<srv, req, sidx, linked, thread, workVars, appVars, orphans, diskVars>>

StopInstanceFirst(i) == app' = [app EXCEPT ![0] = IF @ = "RUNNING" THEN "STOPPING" ELSE @]   \* mutant: always the first

StopInstance(i) == app' = [app EXCEPT ![i] = IF @ = "RUNNING" THEN "STOPPING" ELSE @]

\* A job found in the cache has no instance; *instance then dereferences null
StopNull ==
  /\ srv = "up" /\ mpc = "stopuse"
  /\ EntryIsSim /\ ~jobs[sidx + 1].inst
  /\ Die("null_instance")

StopUse ==
  /\ srv = "up" /\ mpc = "stopuse"
  /\ EntryIsSim => jobs[sidx + 1].inst
  /\ StopInstance(sidx)
  /\ sidx' = sidx + 1 /\ mpc' = "stopnext"
  /\ Silent
  /\ UNCHANGED <<srv, req, slen, mapVars, thread, workVars, lost, orphans, diskVars>>

\* The worker erased the entry, or grew the vector, after the size was read:
\* the reference the loop body uses may dangle
StopDangles ==
  /\ srv = "up" /\ mpc = "stopuse"
  /\ EntrySize # slen
  /\ Die("dangling")

\* Mutants of Erased: map::clear() instead of erase, and no erase at all
ErasedAll(h)  == {}
ErasedNone(h) == running

\* running_simulations.erase(h)
Erased(h) == running \ {h}

StopReply ==
  /\ srv = "up" /\ mpc = "stopreply"
  /\ Answered(req, "ansOK") /\ pub' = NoResult
  /\ running' = Erased(req.hash)
  /\ linked' = (linked /\ sim.hash # req.hash)
  /\ mpc' = "receive" /\ req' = NoRequest /\ sidx' = 0 /\ slen' = 0
  /\ UNCHANGED <<srv, thread, workVars, appVars, orphans, diskVars>>

-----------------------------------------------------------------------------
(* The main thread: SIMULATE and QUICK *)

IsSimulate(r) == r.type \in {"SIMULATE", "QUICK"} /\ ~IsTest(r)

\* The tests on the map before a simulation is accepted
AlreadyRuns(h) == h \in running
OtherRuns(h)   == ~AlreadyRuns(h) /\ running # {}

Vacant(h) == ~AlreadyRuns(h) /\ ~OtherRuns(h)

RefuseRunning(r) ==
  /\ Receive(r) /\ IsSimulate(r)
  /\ AlreadyRuns(r.hash)
  /\ Answered(r, "ansRUNNING") /\ pub' = NoResult
  /\ UNCHANGED <<srv, mainVars, mapVars, thread, workVars, appVars, orphans, diskVars>>

\* Mutant: the wrong answer
RefuseAsStarting(r) ==
  /\ Receive(r) /\ IsSimulate(r)
  /\ OtherRuns(r.hash)
  /\ Answered(r, "ansSTARTING") /\ pub' = NoResult
  /\ UNCHANGED <<srv, mainVars, mapVars, thread, workVars, appVars, orphans, diskVars>>

RefuseWait(r) ==
  /\ Receive(r) /\ IsSimulate(r)
  /\ OtherRuns(r.hash)
  /\ Answered(r, "ansWAIT") /\ pub' = NoResult
  /\ UNCHANGED <<srv, mainVars, mapVars, thread, workVars, appVars, orphans, diskVars>>

\* Mutant: the type of the request ignored
RequestSlotQuick(r) == SlotOf(r.hash, "QUICK")

RequestSlot(r) == SlotOf(r.hash, AreaOf(r.type))

\* Mutants: join forgotten ("not needed unless a stop request has been received"),
\* and join without looking whether there is a thread
AfterAcceptNoJoin   == "start"
AfterAcceptJoinOnly == "join"

\* if (thread.get() != nullptr) thread->join()
AfterAccept == IF thread = "none" THEN "start" ELSE "join"

\* The cache directory is created; earlier results are never reused as a whole
AcceptNew(r) ==
  /\ Receive(r) /\ IsSimulate(r)
  /\ Vacant(r.hash)
  /\ dirs' = dirs \cup {RequestSlot(r)}
  /\ req' = r /\ mpc' = AfterAccept
  /\ Silent
  /\ UNCHANGED <<srv, sidx, slen, mapVars, thread, workVars, appVars, orphans, merges, out>>

\* thread->join() returns when the previous worker has ended
Join ==
  /\ srv = "up" /\ mpc = "join"
  /\ thread = "joinable" /\ wpc = "ended"
  /\ thread' = "joined" /\ mpc' = "start"
  /\ wpc' = "off" /\ sim' = NoSim /\ jobs' = <<>> /\ fJob' = 0 /\ merge' = NoMerge
  /\ app' = [i \in JobId |-> "NONE"] /\ lost' = {}
  /\ Silent
  /\ UNCHANGED <<srv, req, sidx, slen, mapVars, orphans, diskVars>>

\* thread->join() on a thread already joined throws std::system_error
JoinAgain ==
  /\ srv = "up" /\ mpc = "join"
  /\ thread = "joined"
  /\ Die("join_twice")

TooManyJobsLate(n) == NJobs(n) > NUM_SEEDS + 1   \* mutant: off by one

TooManyJobs(n) == NJobs(n) > NUM_SEEDS

RefuseTooMany ==
  /\ srv = "up" /\ mpc = "start"
  /\ TooManyJobs(req.n)
  /\ Answered(req, "ansERROR") /\ pub' = NoResult
  /\ mpc' = "receive" /\ req' = NoRequest
  /\ UNCHANGED <<srv, sidx, slen, mapVars, thread, workVars, appVars, orphans, diskVars>>

Start ==
  /\ srv = "up" /\ mpc = "start"
  /\ ~TooManyJobs(req.n)
  /\ Answered(req, "ansSTARTING") /\ pub' = NoResult
  /\ running' = running \cup {req.hash} /\ linked' = TRUE
  /\ thread' = "joinable" /\ wpc' = "fill"
  /\ sim' = [hash |-> req.hash, area |-> AreaOf(req.type), nJobs |-> NJobs(req.n)]
  /\ mpc' = "receive" /\ req' = NoRequest
  /\ UNCHANGED <<srv, sidx, slen, jobs, fJob, merge, appVars, orphans, diskVars>>

-----------------------------------------------------------------------------
(* The worker thread *)

Worker(pc) == srv = "up" /\ wpc = pc

\* Mutants: no bound on the jobs submitted at once; one job too many; the last
\* merge forgotten
AfterFillUnbounded(n) == IF n < sim.nJobs THEN "fill" ELSE "head"
AfterFillOneMore(n)   == IF n <= Least(sim.nJobs, MAX_PARALLEL_JOBS) THEN "fill" ELSE "head"
AfterWaitNoMerge(f)   == IF f < sim.nJobs THEN "head" ELSE "erase"

\* After the submission of a job: the first loop goes on up to
\* min(nJobs, MAX_PARALLEL_JOBS), the second one moves to the next job
AfterFill(n) == IF n < Least(sim.nJobs, MAX_PARALLEL_JOBS) THEN "fill" ELSE "head"
AfterWait(f) == IF f < sim.nJobs THEN "head" ELSE "merge"
Advance(n) ==
  \/ /\ wpc \in {"fill", "fillpush"}
     /\ wpc' = AfterFill(n) /\ fJob' = fJob
  \/ /\ wpc \in {"refill", "refillpush"}
     /\ fJob' = fJob + 1 /\ wpc' = AfterWait(fJob + 1)

MoreToSubmit == wpc = "refill" => NextJob < sim.nJobs
Submitting   == wpc \in {"fill", "refill"} /\ MoreToSubmit
IsDone(i)    == out[SimSlot][i] # "none"

\* Mutant: the state of a job found in the cache never set
CachedJobUnset == [state |-> "RUNNING", inst |-> FALSE]

\* A job found in the cache: no application, no instance
CachedJob == [state |-> "SUCCESS", inst |-> FALSE]

\* submitOneJob when lc.is_done(i)
ReuseJob ==
  /\ srv = "up" /\ Submitting
  /\ IsDone(NextJob)
  /\ jobs' = Append(jobs, CachedJob)
  /\ Advance(NextJob + 1)
  /\ Silent
  /\ UNCHANGED <<srv, mainVars, mapVars, thread, sim, merge, appVars, orphans, diskVars>>

\* submitOneJob otherwise: start the application, wait for it to be running
LaunchJob ==
  /\ srv = "up" /\ Submitting
  /\ ~IsDone(NextJob)
  /\ app' = [app EXCEPT ![NextJob] = "RUNNING"]
  /\ lost' = IF SimSlot \in dirs THEN lost ELSE lost \cup {NextJob}
  /\ wpc' = IF wpc = "fill" THEN "fillpush" ELSE "refillpush"
  /\ Silent
  /\ UNCHANGED <<srv, mainVars, mapVars, thread, sim, jobs, fJob, merge, orphans, diskVars>>

\* waitFor(511) returns on any state: the job may have ended by then
PushJob ==
  /\ srv = "up" /\ wpc \in {"fillpush", "refillpush"}
  /\ \E s \in {"RUNNING"} \cup ({app[NextJob]} \cap Terminal) :
       jobs' = Append(jobs, [state |-> s, inst |-> TRUE])
  /\ Advance(NextJob + 1)
  /\ Silent
  /\ UNCHANGED <<srv, mainVars, mapVars, thread, sim, merge, appVars, orphans, diskVars>>

\* Every MAX_PARALLEL_JOBS jobs, if this one has not succeeded: merge first
PartialDue == fJob % MAX_PARALLEL_JOBS = 0 /\ jobs[fJob + 1].state # "SUCCESS"

NextToWait ==
  /\ Worker("head")
  /\ wpc' = IF PartialDue THEN "merge" ELSE "wait"
  /\ Silent
  /\ UNCHANGED <<srv, mainVars, mapVars, thread, sim, jobs, fJob, merge, appVars, orphans, diskVars>>

\* Mutants: waitFor() returning when a stop has been asked for, or on success only
WaitReturnsStopping(i) == app[i] \in Terminal \cup {"STOPPING"}
WaitReturnsSuccess(i)  == app[i] = "SUCCESS"

\* instance->waitFor() returns when the application has ended
WaitReturns(i) == app[i] \in Terminal

WaitJob ==
  /\ Worker("wait")
  /\ IF StillRunning(jobs[fJob + 1].state)
     THEN /\ WaitReturns(fJob)
          /\ jobs' = [jobs EXCEPT ![fJob + 1].state = app[fJob]]
     ELSE UNCHANGED jobs
  /\ wpc' = "refill"
  /\ Silent
  /\ UNCHANGED <<srv, mainVars, mapVars, thread, sim, fJob, merge, appVars, orphans, diskVars>>

NoMoreJobs ==
  /\ Worker("refill") /\ ~MoreToSubmit
  /\ Advance(NextJob)
  /\ Silent
  /\ UNCHANGED <<srv, mainVars, mapVars, thread, sim, jobs, merge, appVars, orphans, diskVars>>

\* Mutant: the last job forgotten
ListedButLast == {i \in JobId : i + 1 < Len(jobs) /\ jobs[i + 1].state = "SUCCESS"}

\* Mutant: only the jobs not waited for yet are listed
ListedSince == {i \in JobId : fJob <= i /\ i < Len(jobs) /\ jobs[i + 1].state = "SUCCESS"}

\* mergeJobs: list the outputs of the jobs known to have succeeded, remove the
\* previous merge and start the merge job
ListedJobs == {i \in JobId : i < Len(jobs) /\ jobs[i + 1].state = "SUCCESS"}

StartMerge ==
  /\ Worker("merge") /\ SimSlot \in dirs
  /\ merge' = [list |-> ListedJobs, state |-> "RUNNING"]
  /\ merges' = merges \ {SimSlot}
  /\ wpc' = "merging"
  /\ Silent
  /\ UNCHANGED <<srv, mainVars, mapVars, thread, sim, jobs, fJob, appVars, orphans, dirs, out>>

\* merge_list.txt cannot be created: std::runtime_error, caught by nobody
MergeListFails ==
  /\ Worker("merge") /\ SimSlot \notin dirs
  /\ Die("uncaught")

\* Mutants: partial results published as final ones; the failure not recorded
OutcomeAlwaysFinal == IF merge.state # "SUCCESS" THEN "FAILURE" ELSE "SUCCESS"
OutcomeUnset == IF merge.state # "SUCCESS" THEN "NONE"
                ELSE IF AllWaited THEN "SUCCESS" ELSE "RUNNING"

\* mergingJob->waitFor() has returned: publish the result or the failure.  The
\* directory of the merge is read again, and may have been cleared
MergeOutcome == IF merge.state # "SUCCESS" THEN "FAILURE"
                ELSE IF AllWaited THEN "SUCCESS" ELSE "RUNNING"

PublishMerge ==
  /\ Worker("merging") /\ merge.state \in Terminal
  /\ merge.state = "SUCCESS" => SimSlot \in merges
  /\ Published(sim.hash, MergeOutcome, IF merge.state = "SUCCESS" THEN merge.list ELSE {})
  /\ reply' = NoReply
  /\ wpc' = IF AllWaited THEN "erase" ELSE "wait"
  /\ merge' = NoMerge
  /\ UNCHANGED <<srv, mainVars, mapVars, thread, sim, jobs, fJob, appVars, orphans, diskVars>>

\* read_result iterates over a directory that is gone: filesystem_error
ReadResultFails ==
  /\ Worker("merging") /\ merge.state = "SUCCESS" /\ SimSlot \notin merges
  /\ Die("uncaught")

EraseEntry ==
  /\ Worker("erase")
  /\ running' = Erased(sim.hash) /\ linked' = FALSE
  /\ wpc' = "exit"
  /\ Silent
  /\ UNCHANGED <<srv, mainVars, thread, sim, jobs, fJob, merge, appVars, orphans, diskVars>>

EndWorker ==
  /\ Worker("exit")
  /\ wpc' = "ended"
  /\ Silent
  /\ UNCHANGED <<srv, mainVars, mapVars, thread, sim, jobs, fJob, merge, appVars, orphans, diskVars>>

\* STOP erased the entry sim_jobs refers to: an access to it may fault, or
\* (the actions above) still find the old contents
WorkerDangles ==
  /\ srv = "up" /\ ~linked
  /\ wpc \in {"fill", "fillpush", "head", "wait", "refill", "refillpush", "merge"}
  /\ Die("dangling")

-----------------------------------------------------------------------------
(* The applications and the outside world *)

Writes(i, content) ==
  out' = IF i \in lost THEN out ELSE [out EXCEPT ![SimSlot][i] = content]

\* A simulation job ends.  A stopped one may have saved a part of its neutrons; one
\* that fails may do so before, during or after it saves them
EndJob(i) ==
  /\ srv = "up" /\ app[i] \in Live
  /\ \/ /\ app' = [app EXCEPT ![i] = "SUCCESS"] /\ Writes(i, "full")
     \/ /\ app' = [app EXCEPT ![i] = "FAILURE"]
        /\ \E left \in FailureLeaves : IF left = "none" THEN UNCHANGED out ELSE Writes(i, left)
     \/ /\ app[i] = "STOPPING" /\ app' = [app EXCEPT ![i] = "STOPPED"]
        /\ UNCHANGED out \/ Writes(i, "partial")
  /\ Silent
  /\ UNCHANGED <<srv, mainVars, mapVars, thread, workVars, lost, orphans, dirs, merges>>

\* The merge job ends.  MCPL_input aborts on a file it cannot open, and
\* the merge directory can be made only inside an existing one
MergeableAnyway == TRUE   \* mutant: what is missing is skipped
Mergeable == SimSlot \in dirs /\ \A i \in merge.list : out[SimSlot][i] # "none"

EndMerge ==
  /\ srv = "up" /\ merge.state = "RUNNING"
  /\ \/ /\ Mergeable
        /\ merge' = [merge EXCEPT !.state = "SUCCESS"] /\ merges' = merges \cup {SimSlot}
     \/ merge' = [merge EXCEPT !.state = "FAILURE"] /\ UNCHANGED merges
  /\ Silent
  /\ UNCHANGED <<srv, mainVars, mapVars, thread, wpc, sim, jobs, fJob, appVars, orphans, dirs, out>>

\* An application the server no longer knows: its output appears before it is
\* complete, and stays incomplete if the application had been asked to stop
OrphanWrites(o) ==
  /\ o \in orphans /\ out[o[1]][o[2]] = "none"
  /\ out' = [out EXCEPT ![o[1]][o[2]] = "partial"]
  /\ Silent
  /\ UNCHANGED <<srv, mainVars, mapVars, thread, workVars, appVars, orphans, dirs, merges>>

OrphanEnds(o) ==
  /\ o \in orphans
  /\ orphans' = orphans \ {o}
  /\ \/ UNCHANGED out
     \/ out[o[1]][o[2]] = "partial" /\ out' = [out EXCEPT ![o[1]][o[2]] = "full"]
  /\ Silent
  /\ UNCHANGED <<srv, mainVars, mapVars, thread, workVars, appVars, dirs, merges>>

Kill == CanKill /\ srv = "up" /\ Die("killed")

\* A client that finds no server starts one
Restart ==
  /\ srv # "up"
  /\ srv' = "up"
  /\ Silent
  /\ UNCHANGED <<mainVars, mapVars, thread, workVars, appVars, orphans, diskVars>>

-----------------------------------------------------------------------------
Handle(r) ==
  \/ RejectUnknown(r) \/ AnswerTest(r) \/ ClearCache(r) \/ ReceiveStop(r)
  \/ RefuseRunning(r) \/ RefuseWait(r) \/ AcceptNew(r)

Main ==
  \/ StopNext \/ StopNull \/ StopUse \/ StopDangles \/ StopReply
  \/ Join \/ JoinAgain \/ RefuseTooMany \/ Start

WorkStep ==
  \/ ReuseJob \/ LaunchJob \/ PushJob \/ NextToWait \/ WaitJob \/ NoMoreJobs
  \/ StartMerge \/ MergeListFails \/ PublishMerge \/ ReadResultFails
  \/ EraseEntry \/ EndWorker

Work == WorkStep \/ WorkerDangles

Outside ==
  \/ \E i \in JobId : EndJob(i)
  \/ EndMerge
  \/ \E o \in orphans : OrphanWrites(o) \/ OrphanEnds(o)
  \/ Kill \/ Restart

Next == (\E r \in Request : Handle(r)) \/ Main \/ Work \/ Outside

Spec == Init /\ [][Next]_vars

\* Both threads run when they can, and every application ends.  Freed memory need
\* not fault: WorkerDangles gets no fairness
Fairness ==
  /\ WF_vars(Main) /\ WF_vars(WorkStep)
  /\ \A i \in JobId : WF_vars(EndJob(i))
  /\ WF_vars(EndMerge)

FairSpec == Spec /\ Fairness

-----------------------------------------------------------------------------
(* Type correctness *)

JobStates == {"RUNNING"} \cup Terminal
Job       == [state : JobStates, inst : BOOLEAN]
MainPcs   == {"receive", "stopnext", "stopuse", "stopreply", "join", "start"}
WorkerPcs == {"off", "fill", "fillpush", "head", "wait", "refill", "refillpush",
              "merge", "merging", "erase", "exit", "ended"}

\* Every variable has its type; sim_jobs is never longer than the seed table
TypeOK ==
  /\ srv \in {"up"} \cup Causes
  /\ mpc \in MainPcs
  /\ req \in Request \cup {NoRequest}
  /\ sidx \in 0 .. NUM_SEEDS /\ slen \in 0 .. NUM_SEEDS
  /\ running \subseteq Hash /\ linked \in BOOLEAN
  /\ thread \in {"none", "joinable", "joined"}
  /\ wpc \in WorkerPcs
  /\ sim \in [hash : Hash \cup {NoHash}, area : Areas, nJobs : 0 .. NUM_SEEDS]
  /\ jobs \in Seq(Job) /\ Len(jobs) <= NUM_SEEDS
  /\ fJob \in 0 .. NUM_SEEDS
  /\ merge \in [list : SUBSET JobId, state : {"NONE"} \cup JobStates]
  /\ app \in [JobId -> {"NONE", "STOPPING"} \cup JobStates]
  /\ lost \subseteq JobId
  /\ orphans \subseteq Slot \X JobId
  /\ dirs \subseteq Slot /\ merges \subseteq Slot
  /\ out \in [Slot -> [JobId -> {"none", "partial", "full"}]]
  /\ reply \in [type : ReqTypes \cup {"NONE"}, hash : Hash \cup {NoHash},
                ans : Answers \cup {"NONE"}]
  /\ pub \in [hash : Hash \cup {NoHash},
              status : {"NONE", "RUNNING", "SUCCESS", "FAILURE"}, jobs : SUBSET JobId]

-----------------------------------------------------------------------------
(* Safety *)

InStop == mpc \in {"stopnext", "stopuse", "stopreply"}

\* A worker exists exactly while the std::thread handle is joinable, and the
\* handle is free when a new worker is about to be stored in it: it is never
\* overwritten while it owns a running thread (thread.reset, line 375)
WorkerHandle ==
  /\ thread = "joinable" <=> wpc # "off"
  /\ mpc = "start" => thread # "joinable"

\* The map holds the simulation the worker refers to and nothing else, the key
\* STOP inserts by operator[] apart, from the test of lines 249-263 to the
\* insertion of line 372 it stays empty: simulations never overlap
OneSimulation ==
  /\ running \ (IF InStop THEN {req.hash} ELSE {})
       \subseteq IF linked THEN {sim.hash} ELSE {}
  /\ linked => sim.hash \in running /\ wpc \notin {"off", "exit", "ended"}
  /\ mpc \in {"join", "start"} => running = {}

\* Never more than MAX_PARALLEL_JOBS applications of the current simulation are
\* alive, even while a stopped one winds down: a job is submitted only in the
\* place of one that ended (lines 453-478)
ParallelBound == Cardinality(LiveApps) <= MAX_PARALLEL_JOBS

\* seeds[i] and sim_jobs[fJob] are always in range: jobs run ahead of fJob, and
\* there are never more than nJobs of them, hence than seeds
IndexInRange ==
  /\ wpc \in {"head", "wait", "refill", "refillpush"} => fJob < Len(jobs)
  /\ Submitting => NextJob < sim.nJobs
  /\ Len(jobs) <= sim.nJobs /\ sim.nJobs <= NUM_SEEDS

\* What sim_jobs records is what happened: a job is recorded as ended only in
\* the state its application ended in, or as SUCCESS when its output was found;
\* a job recorded as running has an instance to wait for, so waitFor is never
\* called through a null pointer (lines 466-469)
RecordedStates ==
  \A i \in JobId : i < Len(jobs) =>
     LET job == jobs[i + 1]
     IN  IF job.inst THEN /\ app[i] # "NONE"
                          /\ StillRunning(job.state) \/ app[i] = job.state
                     ELSE job.state = "SUCCESS" /\ app[i] = "NONE"

\* After the waiting loop every job has been submitted and has ended: the final
\* merge, the erasure of the entry and the end of the thread leave no
\* application running (lines 480-484)
AllEnded ==
  AllWaited /\ wpc # "off" =>
     /\ Len(jobs) = sim.nJobs
     /\ \A i \in 1 .. Len(jobs) : jobs[i].state \in Terminal
     /\ LiveApps = {}

\* Handling simulations and tests never takes the process down
NoFault == srv \in {"up", "killed"}

\* Whenever the main thread joins "any previous simulation" (line 311) there is
\* a thread to join
JoinHasThread == mpc = "join" => thread = "joinable"

\* STOP only dereferences instances that exist (lines 231-235)
StopHasInstance == mpc = "stopuse" /\ EntryIsSim => jobs[sidx + 1].inst

\* However the worker goes on submitting, and jobs end, while STOP walks through
\* sim_jobs, it leaves none behind: each job up to the size last read has been
\* asked to stop, or has ended, when STOP is answered (lines 229-236).  A job the
\* worker pushes later is not stopped
StopCovers ==
  InStop /\ EntryIsSim =>
    \A i \in JobId : i < (IF mpc = "stopreply" THEN slen ELSE sidx) => app[i] # "RUNNING"

\* A merge that succeeds has read only complete job outputs, although jobs go
\* on writing and CLEAR goes on deleting while it runs
MergeReadsWhole ==
  [][merge.state = "RUNNING" /\ merge'.state = "SUCCESS"
       => \A i \in merge.list : out[SimSlot][i] = "full"]_vars

\* The final result of a simulation contains exactly the jobs whose output is
\* in the cache, and those of its own slot only
FinalIsComplete ==
  [][pub'.status = "SUCCESS" /\ pub'.hash # NoHash
       => pub'.jobs = {i \in JobId : i < sim.nJobs /\ out[SimSlot][i] = "full"}]_vars

-----------------------------------------------------------------------------
(* Liveness, under FairSpec *)

\* Every request is answered: the main thread always returns to receive(), the
\* join of a worker and the STOP of a growing vector included
AlwaysReceives == mpc # "receive" ~> mpc = "receive"

\* A simulation answered with ansSTARTING ends with a published final result,
\* unless a CLEAR makes one of its merges bring the server down
StartedPublishes ==
  \A h \in Hash :
    reply.ans = "ansSTARTING" /\ reply.hash = h
      ~> \/ pub.hash = h /\ pub.status \in Terminal /\ wpc = "erase"
         \/ srv = "uncaught"

\* The server does not refuse simulations for ever: the map empties again
SimulationEnds == running # {} ~> running = {}
=============================================================================
