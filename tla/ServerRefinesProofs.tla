------------------------- MODULE ServerRefinesProofs -------------------------
(***************************************************************************)
(* Proof that McstasServer implements SimService, for every number of      *)
(* seeds, jobs, parallel jobs and hashes: the initial states map to an     *)
(* initial state, and each action to an action of the service.             *)
(***************************************************************************)
EXTENDS ServerRefines, McstasServerProofs

\* What the mapping needs besides IndInv: the list given to the merge that runs
\* is still what mergeJobs would list, as the worker waits for it; and the loop
\* of STOP treats a STOP
ListedInv == wpc = "merging" => merge.list = ListedJobs
StopReq   == InStop => req.type = "STOP"

\* A step that the service does not see
Unseen == Silent /\ UNCHANGED <<entryOf, producerOf, haveOf>>

LEMMA UnseenStep == Unseen => Service!Next
BY DEF Unseen, Silent, NoReply, NoResult,
       Service!Next, Service!Idle, Service!Quiet, Service!NoReply, Service!NoResult

\* The end of the process is a crash of the service
LEMMA DieRefines == ASSUME NEW cause, Die(cause) PROVE Service!Next
<1>1. entryOf' = NoHash /\ producerOf' = NoHash /\ haveOf' = {}
  BY DEF Die, entryOf, producerOf, haveOf, Publishing
<1> QED
  BY <1>1 DEF Die, Silent, NoReply, NoResult,
     Service!Next, Service!Crash, Service!Quiet, Service!NoReply, Service!NoResult

\* The three names depend on these variables only
LEMMA SameNames ==
  ASSUME UNCHANGED <<linked, sim, jobs>>, Publishing' = Publishing
  PROVE  UNCHANGED <<entryOf, producerOf, haveOf>>
BY DEF entryOf, producerOf, haveOf, ListedJobs

-----------------------------------------------------------------------------
(* The main thread *)

LEMMA HandleRefines ==
  ASSUME IndInv, NEW r \in Request, Handle(r)
  PROVE  Service!Next
<1>1. r.hash \in Hash /\ r.type \in Service!ReqTypes
  BY ServerConstants DEF Request, ReqTypes, Service!ReqTypes
<1>2. CASE ReceiveStop(r) \/ AcceptNew(r)
  BY <1>2, SameNames, UnseenStep
     DEF ReceiveStop, AcceptNew, Unseen, mapVars, workVars, Publishing
<1>3. CASE RejectUnknown(r) \/ AnswerTest(r) \/ ClearCache(r)
  <2>1. UNCHANGED <<entryOf, producerOf, haveOf>>
    BY <1>3, SameNames DEF RejectUnknown, AnswerTest, ClearCache, mapVars, workVars, Publishing
  <2>2. Service!Aside(r.hash, r.type)
    BY <1>3, <2>1 DEF RejectUnknown, AnswerTest, ClearCache, Answered, Published, NoResult,
       Service!Aside, Service!Answer, Service!NoResult
  <2> QED
    BY <1>1, <2>2 DEF Service!Next
<1>4. CASE RefuseRunning(r) \/ RefuseWait(r)
  <2>1. UNCHANGED <<entryOf, producerOf, haveOf>>
    BY <1>4, SameNames DEF RefuseRunning, RefuseWait, mapVars, workVars, Publishing
  <2>2. running \subseteq (IF linked THEN {sim.hash} ELSE {}) /\ running \subseteq Hash
    BY <1>4 DEF RefuseRunning, RefuseWait, Receive, IndInv, OneSimulation, InStop, TypeOK
  <2>3. linked => sim.hash \in running
    BY DEF IndInv, OneSimulation
  <2>4. Service!Busy(r.hash, r.type) => Service!Next
    BY <1>1 DEF Service!Next
  <2>5. CASE RefuseRunning(r)
    BY <2>1, <2>2, <2>4, <2>5 DEF RefuseRunning, AlreadyRuns, Answered, NoResult, entryOf,
       Service!Busy, Service!Answer, Service!NoResult
  <2>6. CASE RefuseWait(r)
    <3>1. linked /\ sim.hash # r.hash /\ sim.hash \in Hash
      BY <2>2, <2>3, <2>6 DEF RefuseWait, OtherRuns, AlreadyRuns
    <3>2. entryOf \notin {r.hash, NoHash}
      BY <3>1, ServerConstants DEF entryOf
    <3> QED
      BY <2>1, <2>4, <2>6, <3>2 DEF RefuseWait, Answered, NoResult,
         Service!Busy, Service!Answer, Service!NoResult
  <2> QED
    BY <1>4, <2>5, <2>6
<1> QED
  BY <1>2, <1>3, <1>4 DEF Handle

LEMMA MainRefines ==
  ASSUME IndInv, StopReq, Main
  PROVE  Service!Next
<1>1. mpc # "receive"
  BY DEF Main, StopNext, StopNull, StopUse, StopDangles, StopReply, Join, JoinAgain,
         RefuseTooMany, Start
<1>2. req \in Request /\ req.hash \in Hash /\ req.type \in Service!ReqTypes
  BY <1>1, ServerConstants DEF IndInv, HandleInv, Request, ReqTypes, Service!ReqTypes
<1>3. CASE StopNull \/ StopDangles \/ JoinAgain
  BY <1>3, DieRefines DEF StopNull, StopDangles, JoinAgain
<1>4. CASE StopNext \/ StopUse
  BY <1>4, SameNames, UnseenStep DEF StopNext, StopUse, Unseen, mapVars, workVars, Publishing
<1>5. CASE StopReply
  <2>1. producerOf' = producerOf /\ haveOf' = haveOf
    BY <1>5 DEF StopReply, workVars, producerOf, haveOf, Publishing, ListedJobs
  <2>2. entryOf' = IF entryOf = req.hash THEN NoHash ELSE entryOf
    BY <1>2, <1>5 DEF StopReply, workVars, entryOf
  <2> QED
    BY <1>2, <1>5, <2>1, <2>2 DEF StopReply, StopReq, InStop, Answered, NoResult,
       Service!Next, Service!Stop, Service!Answer, Service!NoResult
<1>6. CASE Join
  <2>1. ~linked /\ ~linked' /\ ~Publishing /\ ~Publishing'
    BY <1>6 DEF Join, mapVars, IndInv, OneSimulation, Publishing
  <2> QED
    BY <1>6, <2>1, UnseenStep DEF Join, Unseen, entryOf, producerOf, haveOf
<1>7. CASE RefuseTooMany
  <2>1. UNCHANGED <<entryOf, producerOf, haveOf>>
    BY <1>7, SameNames DEF RefuseTooMany, mapVars, workVars, Publishing
  <2> QED
    BY <1>2, <1>7, <2>1 DEF RefuseTooMany, Answered, NoResult,
       Service!Next, Service!Aside, Service!Answer, Service!NoResult
<1>8. CASE Start
  <2>1. wpc = "off" /\ ~linked
    BY <1>8 DEF Start, IndInv, HandleInv, WorkerHandle, OneSimulation, InStop
  <2>2. jobs' = <<>>
    BY <1>8, <2>1 DEF Start, IndInv, LoopInv
  <2>3. ListedJobs' = {}
    BY <2>2 DEF ListedJobs, JobId
  <2>4. entryOf = NoHash /\ producerOf = NoHash
    BY <2>1 DEF entryOf, producerOf, Publishing
  <2>5. entryOf' = req.hash /\ producerOf' = req.hash /\ haveOf' = {}
    BY <1>8, <2>3 DEF Start, entryOf, producerOf, haveOf, Publishing
  <2> QED
    BY <1>2, <1>8, <2>4, <2>5 DEF Start, Answered, NoResult,
       Service!Next, Service!Begin, Service!Answer, Service!NoResult
<1> QED
  BY <1>3, <1>4, <1>5, <1>6, <1>7, <1>8 DEF Main

-----------------------------------------------------------------------------
(* The worker thread *)

\* The list only grows: no step takes a job recorded as SUCCESS away
LEMMA GrowsRefines ==
  ASSUME IndInv, Publishing, Publishing', Silent, UNCHANGED <<linked, sim>>,
         ListedJobs \subseteq ListedJobs'
  PROVE  Service!Next
<1>1. entryOf' = entryOf /\ producerOf' = producerOf /\ producerOf \in Hash
  BY DEF entryOf, producerOf, Publishing, IndInv, LoopInv
<1>2. haveOf' = haveOf \cup haveOf' /\ haveOf' \subseteq Service!JobId
  BY DEF haveOf, ListedJobs, JobId, Service!JobId
<1> QED
  BY <1>1, <1>2, ServerConstants DEF Silent, NoReply, NoResult, Service!Next, Service!Progress,
     Service!Quiet, Service!NoReply, Service!NoResult

LEMMA WorkRefines ==
  ASSUME IndInv, ListedInv, Work
  PROVE  Service!Next
<1>1. jobs \in Seq(Job) /\ Len(jobs) \in Nat /\ fJob \in Nat
  BY DEF IndInv, TypeOK
<1>2. CASE MergeListFails \/ ReadResultFails \/ WorkerDangles
  BY <1>2, DieRefines DEF MergeListFails, ReadResultFails, WorkerDangles
<1>3. CASE ReuseJob \/ PushJob
  <2>1. PICK j : jobs' = Append(jobs, j)
    BY <1>3 DEF ReuseJob, PushJob
  <2>2. ListedJobs \subseteq ListedJobs'
    BY <1>1, <2>1 DEF ListedJobs, JobId
  <2>3. Publishing /\ Publishing' /\ Silent /\ UNCHANGED <<linked, sim>>
    BY <1>3 DEF ReuseJob, PushJob, Submitting, Publishing, Advance, AfterFill, AfterWait, mapVars
  <2> QED
    BY <2>2, <2>3, GrowsRefines
<1>4. CASE LaunchJob \/ NextToWait \/ NoMoreJobs \/ StartMerge
  <2>1. Publishing /\ Publishing' /\ Silent /\ UNCHANGED <<linked, sim, jobs>>
    BY <1>4 DEF LaunchJob, NextToWait, NoMoreJobs, StartMerge, Worker, Submitting, Publishing,
       Advance, AfterWait, mapVars
  <2> QED
    BY <2>1, SameNames, UnseenStep DEF Unseen
<1>5. CASE WaitJob
  <2>1. Publishing /\ Publishing' /\ Silent /\ UNCHANGED <<linked, sim>>
    BY <1>5 DEF WaitJob, Worker, Publishing, mapVars
  <2>2. \/ jobs' = jobs
        \/ /\ jobs[fJob + 1].state # "SUCCESS"
           /\ jobs' = [jobs EXCEPT ![fJob + 1].state = app[fJob]]
    BY <1>5 DEF WaitJob, StillRunning, Terminal
  <2>3. ListedJobs \subseteq ListedJobs'
    BY <1>1, <2>2 DEF ListedJobs, JobId
  <2> QED
    BY <2>1, <2>3, GrowsRefines
<1>6. CASE PublishMerge
  <2>1. Publishing /\ producerOf = sim.hash /\ haveOf = merge.list /\ producerOf \in Hash
    BY <1>6 DEF PublishMerge, Worker, Publishing, producerOf, haveOf, ListedInv, IndInv, LoopInv
  <2>2. entryOf' = entryOf /\ UNCHANGED <<sim, jobs>>
    BY <1>6 DEF PublishMerge, mapVars, entryOf
  <2>3. CASE AllWaited
    <3>1. producerOf' = NoHash /\ haveOf' = {}
      BY <1>6, <2>3 DEF PublishMerge, producerOf, haveOf, Publishing
    <3>2. \/ Service!Publish("SUCCESS", haveOf)
          \/ Service!Publish("FAILURE", {})
      BY <1>6, <2>1, <2>3 DEF PublishMerge, Published, MergeOutcome, NoReply, NoResult,
         Service!Publish, Service!NoReply
    <3> QED
      BY <2>1, <2>2, <3>1, <3>2, ServerConstants DEF Service!Next, Service!Final
  <2>4. CASE ~AllWaited
    <3>1. producerOf' = producerOf /\ haveOf' = haveOf
      BY <1>6, <2>1, <2>2, <2>4 DEF PublishMerge, producerOf, haveOf, Publishing, ListedJobs
    <3>2. \/ Service!Publish("RUNNING", haveOf)
          \/ Service!Publish("FAILURE", {})
      BY <1>6, <2>1, <2>4 DEF PublishMerge, Published, MergeOutcome, NoReply, NoResult,
         Service!Publish, Service!NoReply
    <3> QED
      BY <2>1, <2>2, <3>1, <3>2, ServerConstants DEF Service!Next, Service!Partial
  <2> QED
    BY <2>3, <2>4
<1>7. CASE EraseEntry
  <2>1. producerOf = NoHash /\ entryOf' = NoHash /\ producerOf' = producerOf /\ haveOf' = haveOf
    BY <1>7 DEF EraseEntry, Worker, entryOf, producerOf, haveOf, Publishing
  <2> QED
    BY <1>7, <2>1 DEF EraseEntry, Silent, NoReply, NoResult, Service!Next, Service!Release,
       Service!Quiet, Service!NoReply, Service!NoResult
<1>8. CASE EndWorker
  <2>1. UNCHANGED <<linked, sim, jobs>> /\ Publishing' = Publishing /\ Silent
    BY <1>8 DEF EndWorker, Worker, mapVars, Publishing
  <2> QED
    BY <2>1, SameNames, UnseenStep DEF Unseen
<1> QED
  BY <1>2, <1>3, <1>4, <1>5, <1>6, <1>7, <1>8 DEF Work, WorkStep

-----------------------------------------------------------------------------
(* The applications, the fault and the restart *)

LEMMA OutsideRefines == ASSUME Outside PROVE Service!Next
<1>1. CASE Kill
  BY <1>1, DieRefines DEF Kill
<1>2. CASE ~Kill
  <2>1. /\ UNCHANGED <<linked, sim, jobs, wpc>>
        /\ Silent
    BY <1>2 DEF Outside, EndJob, EndMerge, OrphanWrites, OrphanEnds, Restart, mapVars, workVars
  <2> QED
    BY <2>1, SameNames, UnseenStep DEF Unseen, Publishing
<1> QED
  BY <1>1, <1>2

-----------------------------------------------------------------------------
(* The theorem *)

LEMMA ListedStep == IndInv /\ ListedInv /\ [Next]_vars => ListedInv'
<1> SUFFICES ASSUME IndInv, ListedInv, [Next]_vars, wpc' = "merging"
             PROVE  merge'.list = ListedJobs'
  BY DEF ListedInv
<1>1. CASE UNCHANGED vars
  BY <1>1 DEF vars, workVars, ListedInv, ListedJobs
<1>2. CASE UNCHANGED <<wpc, jobs>> /\ merge'.list = merge.list
  BY <1>2 DEF ListedInv, ListedJobs
<1>3. ASSUME NEW r \in Request, Handle(r) PROVE UNCHANGED workVars
  BY <1>3 DEF Handle, RejectUnknown, AnswerTest, ClearCache, ReceiveStop, RefuseRunning,
     RefuseWait, AcceptNew
<1>4. CASE Main
  <2>1. UNCHANGED workVars
    BY <1>4 DEF Main, StopNext, StopNull, StopUse, StopDangles, StopReply, Join, JoinAgain,
       RefuseTooMany, Start, Die
  <2> QED
    BY <1>2, <2>1 DEF workVars
<1>5. CASE Work
  BY <1>5 DEF Work, WorkStep, ReuseJob, LaunchJob, PushJob, NextToWait, WaitJob, NoMoreJobs,
     StartMerge, MergeListFails, PublishMerge, ReadResultFails, EraseEntry, EndWorker,
     WorkerDangles, Die, Advance, AfterFill, AfterWait, ListedJobs
<1>6. CASE Outside
  <2>1. UNCHANGED <<wpc, jobs>> /\ merge'.list = merge.list
    BY <1>6 DEF Outside, EndJob, EndMerge, OrphanWrites, OrphanEnds, Kill, Restart, Die,
       workVars, IndInv, TypeOK
  <2> QED
    BY <1>2, <2>1
<1> QED
  BY <1>1, <1>2, <1>3, <1>4, <1>5, <1>6 DEF Next, workVars

LEMMA StopReqStep == StopReq /\ [Next]_vars => StopReq'
<1> USE DEF StopReq, InStop
<1>1. ASSUME NEW r \in Request, Handle(r), StopReq PROVE StopReq'
  BY <1>1 DEF Handle, RejectUnknown, AnswerTest, ClearCache, ReceiveStop, RefuseRunning,
     RefuseWait, AcceptNew, AfterAccept, mainVars
<1>2. ASSUME Main, StopReq PROVE StopReq'
  BY <1>2 DEF Main, StopNext, StopNull, StopUse, StopDangles, StopReply, Join, JoinAgain,
     RefuseTooMany, Start, Die
<1>3. ASSUME Work, StopReq PROVE StopReq'
  BY <1>3 DEF Work, WorkStep, ReuseJob, LaunchJob, PushJob, NextToWait, WaitJob, NoMoreJobs,
     StartMerge, MergeListFails, PublishMerge, ReadResultFails, EraseEntry, EndWorker,
     WorkerDangles, Die, mainVars
<1>4. ASSUME Outside, StopReq PROVE StopReq'
  BY <1>4 DEF Outside, EndJob, EndMerge, OrphanWrites, OrphanEnds, Kill, Restart, Die, mainVars
<1> QED
  BY <1>1, <1>2, <1>3, <1>4 DEF Next, vars, mainVars

\* Every step of the server is one of the service
LEMMA NextRefines == IndInv /\ ListedInv /\ StopReq /\ Next => Service!Next
BY HandleRefines, MainRefines, WorkRefines, OutsideRefines DEF Next

LEMMA StepRefines ==
  IndInv /\ ListedInv /\ StopReq /\ [Next]_vars => [Service!Next]_(Service!vars)
<1>1. UNCHANGED vars => UNCHANGED Service!vars
  BY SameNames DEF vars, mapVars, workVars, wires, Publishing, Service!vars
<1> QED
  BY <1>1, NextRefines

LEMMA InitRefines == Init => Service!Init /\ ListedInv /\ StopReq
BY DEF Init, StopReq, InStop, NoReply, NoResult, ListedInv, entryOf, producerOf, haveOf, Publishing,
   Service!Init, Service!NoReply, Service!NoResult

\* The server, its two threads, STOP, CLEAR, its faults and restarts implement the
\* service: what it answers about simulations is true, one publishes at a time,
\* each result contains the one before and nothing follows the final one
THEOREM Refinement == Spec => ImplementsService
BY InitRefines, StepRefines, ListedStep, StopReqStep, Inductive, PTL
   DEF Spec, ImplementsService, Service!Spec
=============================================================================
