---------------------------- MODULE OutcomeProofs ----------------------------
(***************************************************************************)
(* Proofs of what holds for some traffic only: without STOP and kills a    *)
(* merge reads complete outputs and a final result is complete; and each   *)
(* way in which the server can fault needs a kind of request of its own.   *)
(***************************************************************************)
EXTENDS ServerRefinesProofs

NoStops == "STOP" \notin ReqType
NoClear == "CLEAR" \notin ReqType
FewJobs == \A n \in Ncount : ~TooManyJobs(n)

-----------------------------------------------------------------------------
(* Without STOP the worker keeps its entry, and the image of a merge stays     *)
(* where it was made unless the whole directory is cleared                     *)

Working == wpc \notin {"off", "exit", "ended"}

LinkInv ==
  /\ ~InStop
  /\ Working => linked
  /\ merges \subseteq dirs
  /\ merge.state = "SUCCESS" /\ SimSlot \in dirs => SimSlot \in merges

LEMMA DieLink == ASSUME LinkInv, NEW cause, Die(cause) PROVE LinkInv'
BY DEF LinkInv, InStop, Working, Die, diskVars, NoMerge

\* No simulation is accepted while one has its entry
LEMMA AcceptUnlinked ==
  ASSUME IndInv, NEW r \in Request, AcceptNew(r)
  PROVE  ~linked
BY DEF IndInv, OneSimulation, AcceptNew, Vacant, AlreadyRuns, OtherRuns

LEMMA SlotOfSim ==
  ASSUME UNCHANGED sim
  PROVE  SimSlot' = SimSlot
BY DEF SimSlot, SlotOf

LEMMA HandleLink ==
  ASSUME NoStops, IndInv, LinkInv, NEW r \in Request, Handle(r)
  PROVE  LinkInv'
<1>1. SimSlot' = SimSlot
  BY SlotOfSim DEF Handle, RejectUnknown, AnswerTest, ClearCache, ReceiveStop, RefuseRunning,
     RefuseWait, AcceptNew, workVars
<1>2. CASE RejectUnknown(r) \/ AnswerTest(r) \/ RefuseRunning(r) \/ RefuseWait(r)
  BY <1>1, <1>2 DEF RejectUnknown, AnswerTest, RefuseRunning, RefuseWait, mainVars, mapVars,
     workVars, diskVars, LinkInv, InStop, Working
<1>3. CASE ClearCache(r)
  BY <1>1, <1>3 DEF ClearCache, mainVars, mapVars, workVars, LinkInv, InStop, Working
<1>4. CASE ReceiveStop(r)
  BY <1>4 DEF ReceiveStop, Request, NoStops
<1>5. CASE AcceptNew(r)
  <2>1. ~Working
    BY <1>5, AcceptUnlinked DEF LinkInv
  <2>2. merge.state = "NONE"
    BY <2>1 DEF Working, IndInv, LoopInv, NoMerge
  <2> QED
    BY <1>1, <1>5, <2>1, <2>2 DEF AcceptNew, AfterAccept, mapVars, workVars, LinkInv, InStop, Working
<1> QED
  BY <1>2, <1>3, <1>4, <1>5 DEF Handle

LEMMA MainLink ==
  ASSUME IndInv, LinkInv, Main
  PROVE  LinkInv'
<1>1. ~(StopNext \/ StopNull \/ StopUse \/ StopDangles \/ StopReply)
  BY DEF LinkInv, InStop, StopNext, StopNull, StopUse, StopDangles, StopReply
<1>2. CASE Join
  BY <1>2 DEF Join, diskVars, mapVars, LinkInv, InStop, Working, NoMerge
<1>3. CASE JoinAgain
  BY <1>3, DieLink DEF JoinAgain
<1>4. CASE RefuseTooMany
  BY <1>4, SlotOfSim DEF RefuseTooMany, diskVars, mapVars, workVars, LinkInv, InStop, Working
<1>5. CASE Start
  <2>1. wpc = "off"
    BY <1>5 DEF Start, IndInv, HandleInv, WorkerHandle
  <2>2. merge.state = "NONE"
    BY <2>1 DEF IndInv, LoopInv, NoMerge
  <2> QED
    BY <1>5, <2>2 DEF Start, diskVars, LinkInv, InStop, Working
<1> QED
  BY <1>1, <1>2, <1>3, <1>4, <1>5 DEF Main

LEMMA WorkLink ==
  ASSUME IndInv, LinkInv, Work
  PROVE  LinkInv'
<1>1. CASE MergeListFails \/ ReadResultFails \/ WorkerDangles
  BY <1>1, DieLink DEF MergeListFails, ReadResultFails, WorkerDangles
<1>2. CASE ~(MergeListFails \/ ReadResultFails \/ WorkerDangles)
  <2>1. WorkStep /\ SimSlot' = SimSlot /\ UNCHANGED <<mpc, dirs>>
    BY <1>2, SlotOfSim DEF Work, WorkStep, ReuseJob, LaunchJob, PushJob, NextToWait, WaitJob,
       NoMoreJobs, StartMerge, PublishMerge, EraseEntry, EndWorker, mainVars, diskVars
  <2>2. Working' => Working /\ linked' = linked
    BY <1>2, <2>1 DEF WorkStep, ReuseJob, LaunchJob, PushJob, NextToWait, WaitJob,
       NoMoreJobs, StartMerge, PublishMerge, EraseEntry, EndWorker, mapVars, Working, Worker,
       Submitting, Advance
  <2>3. /\ merges' \subseteq merges
        /\ merge'.state = "SUCCESS" => merge' = merge /\ merges' = merges
    BY <1>2, <2>1 DEF WorkStep, ReuseJob, LaunchJob, PushJob, NextToWait, WaitJob,
       NoMoreJobs, StartMerge, PublishMerge, EraseEntry, EndWorker, diskVars, NoMerge
  <2> QED
    BY <2>1, <2>2, <2>3 DEF LinkInv, InStop
<1> QED
  BY <1>1, <1>2

LEMMA OutsideLink ==
  ASSUME IndInv, LinkInv, Outside
  PROVE  LinkInv'
<1>1. CASE Kill
  BY <1>1, DieLink DEF Kill
<1>2. CASE EndMerge
  <2>1. SimSlot' = SimSlot
    BY <1>2, SlotOfSim DEF EndMerge
  <2>2. merge'.state = "SUCCESS" => SimSlot \in merges'
    BY <1>2 DEF EndMerge, IndInv, TypeOK
  <2>3. merges' \subseteq dirs
    BY <1>2 DEF EndMerge, Mergeable, LinkInv
  <2> QED
    BY <1>2, <2>1, <2>2, <2>3 DEF EndMerge, mainVars, mapVars, LinkInv, InStop, Working
<1>3. CASE ~Kill /\ ~EndMerge
  BY <1>3, SlotOfSim DEF Outside, EndJob, OrphanWrites, OrphanEnds, Restart, mainVars, mapVars,
     workVars, diskVars, LinkInv, InStop, Working
<1> QED
  BY <1>1, <1>2, <1>3

LEMMA LinkStep ==
  ASSUME NoStops, IndInv, LinkInv, [Next]_vars
  PROVE  LinkInv'
<1>1. CASE UNCHANGED vars
  BY <1>1, SlotOfSim DEF vars, mainVars, mapVars, workVars, diskVars, LinkInv, InStop, Working
<1>2. CASE Next
  BY <1>2, HandleLink, MainLink, WorkLink, OutsideLink DEF Next
<1> QED
  BY <1>1, <1>2

LEMMA LinkInit == Init => LinkInv
BY DEF Init, LinkInv, InStop, Working, NoMerge

-----------------------------------------------------------------------------
(* Without STOP and kills no output is ever incomplete, if no job that fails   *)
(* leaves one so, and as long as the directory of the simulation exists, what  *)
(* the server knows of its applications is what they left there                *)

WholeOrNone == "partial" \notin FailureLeaves
NothingLeft == FailureLeaves = {"none"}

Holds(i) ==
  /\ app[i] = "RUNNING" => out[SimSlot][i] = "none"
  /\ app[i] = "FAILURE" /\ NothingLeft => out[SimSlot][i] = "none"
  /\ app[i] = "SUCCESS" => out[SimSlot][i] = "full"
  /\ i < Len(jobs) /\ app[i] = "NONE" => out[SimSlot][i] = "full"

\* Once the directory is gone, it is for the rest of the simulation
AreaInv == IF SimSlot \in dirs THEN lost = {} /\ \A i \in JobId : Holds(i)
                               ELSE LiveApps \subseteq lost

OutInv ==
  /\ orphans = {}
  /\ \A s \in Slot, i \in JobId : out[s][i] # "partial"
  /\ \A i \in JobId : app[i] \notin {"STOPPING", "STOPPED"}
  /\ wpc = "off" => lost = {}
  /\ Working => AreaInv

\* AreaInv depends on these variables only
LEMMA SameArea ==
  ASSUME AreaInv, SimSlot' = SimSlot, Len(jobs') = Len(jobs), UNCHANGED <<dirs, lost, app, out>>
  PROVE  AreaInv'
BY DEF AreaInv, Holds, LiveApps

\* A crash leaves no orphan when every application has lost its directory
LEMMA DieOut ==
  ASSUME OutInv, NEW cause, Die(cause), LiveApps \subseteq lost
  PROVE  OutInv'
BY DEF Die, diskVars, OutInv, Working

LEMMA HandleOut ==
  ASSUME NoStops, IndInv, LinkInv, OutInv, NEW r \in Request, Handle(r)
  PROVE  OutInv'
<1>1. SimSlot' = SimSlot /\ UNCHANGED <<wpc, jobs>>
  BY SlotOfSim DEF Handle, RejectUnknown, AnswerTest, ClearCache, ReceiveStop, RefuseRunning,
     RefuseWait, AcceptNew, workVars
<1>2. CASE RejectUnknown(r) \/ AnswerTest(r) \/ RefuseRunning(r) \/ RefuseWait(r)
  <2>1. UNCHANGED <<dirs, lost, app, out, orphans>>
    BY <1>2 DEF RejectUnknown, AnswerTest, RefuseRunning, RefuseWait, appVars, diskVars
  <2> QED
    BY <1>1, <2>1, SameArea DEF OutInv, Working
<1>3. CASE ReceiveStop(r)
  BY <1>3 DEF ReceiveStop, Request, NoStops
<1>4. CASE AcceptNew(r)
  <2>1. ~Working /\ ~Working'
    BY <1>1, <1>4, AcceptUnlinked DEF LinkInv, Working
  <2> QED
    BY <1>1, <1>4, <2>1 DEF AcceptNew, appVars, OutInv
<1>5. CASE ClearCache(r)
  <2> DEFINE cleared == {SlotOf(r.hash, a) : a \in Areas}
  <2>1. /\ dirs' = dirs \ cleared /\ orphans' = {} /\ app' = app
        /\ out' = [s \in Slot |-> IF s \in cleared THEN [i \in JobId |-> "none"] ELSE out[s]]
        /\ lost' = IF sim.hash = r.hash THEN LiveApps \cup lost ELSE lost
    BY <1>5 DEF ClearCache, OutInv
  <2>2. \A s \in Slot, i \in JobId : out'[s][i] # "partial"
    BY <2>1 DEF OutInv
  <2>3. wpc = "off" => LiveApps = {}
    BY LiveHasWorker DEF IndInv, LiveApps, Live
  <2>4. ASSUME Working PROVE AreaInv'
    <3>1. SimSlot \in Slot /\ sim.area \in Areas
      BY <2>4 DEF Working, IndInv, LoopInv, TypeOK, SimSlot, SlotOf, Slot
    <3>2. SimSlot \in cleared <=> sim.hash = r.hash
      BY <3>1 DEF SimSlot, SlotOf
    <3>3. CASE sim.hash = r.hash
      BY <1>1, <2>1, <3>2, <3>3 DEF AreaInv, LiveApps
    <3>4. CASE sim.hash # r.hash
      <4>1. (SimSlot \in dirs' <=> SimSlot \in dirs) /\ out'[SimSlot] = out[SimSlot] /\ lost' = lost
        BY <2>1, <3>1, <3>2, <3>4
      <4> QED
        BY <1>1, <2>1, <2>4, <4>1 DEF OutInv, AreaInv, Holds, LiveApps
    <3> QED
      BY <3>3, <3>4
  <2> QED
    BY <1>1, <2>1, <2>2, <2>3, <2>4 DEF OutInv, Working
<1> QED
  BY <1>2, <1>3, <1>4, <1>5 DEF Handle

LEMMA MainOut ==
  ASSUME IndInv, LinkInv, OutInv, Main
  PROVE  OutInv'
<1>1. ~(StopNext \/ StopNull \/ StopUse \/ StopDangles \/ StopReply)
  BY DEF LinkInv, InStop, StopNext, StopNull, StopUse, StopDangles, StopReply
<1>2. wpc = "off" => LiveApps = {} /\ jobs = <<>> /\ \A i \in JobId : app[i] = "NONE"
  BY LiveHasWorker DEF IndInv, LiveApps, Live, LoopInv
<1>3. CASE Join
  BY <1>3 DEF Join, diskVars, OutInv, Working
<1>4. CASE JoinAgain
  <2>1. wpc = "off"
    BY <1>4 DEF JoinAgain, IndInv, HandleInv, WorkerHandle
  <2> QED
    BY <1>2, <1>4, <2>1, DieOut DEF JoinAgain
<1>5. CASE RefuseTooMany
  <2>1. SimSlot' = SimSlot /\ UNCHANGED <<wpc, jobs, dirs, lost, app, out, orphans>>
    BY <1>5, SlotOfSim DEF RefuseTooMany, workVars, appVars, diskVars
  <2> QED
    BY <2>1, SameArea DEF OutInv, Working
<1>6. CASE Start
  <2>1. wpc = "off"
    BY <1>6 DEF Start, IndInv, HandleInv, WorkerHandle
  <2>2. UNCHANGED <<dirs, lost, app, out, orphans>> /\ jobs' = <<>> /\ lost = {}
    BY <1>2, <1>6, <2>1 DEF Start, appVars, diskVars, OutInv
  <2>3. LiveApps' = {} /\ \A i \in JobId : app'[i] = "NONE" /\ ~(i < Len(jobs'))
    BY <1>2, <2>1, <2>2 DEF LiveApps, JobId
  <2>4. AreaInv'
    BY <2>2, <2>3 DEF AreaInv, Holds
  <2> QED
    BY <2>2, <2>4 DEF OutInv
<1> QED
  BY <1>1, <1>3, <1>4, <1>5, <1>6 DEF Main

LEMMA WorkOut ==
  ASSUME IndInv, LinkInv, OutInv, Work
  PROVE  OutInv'
<1>1. ~WorkerDangles
  BY DEF WorkerDangles, LinkInv, Working
<1>2. CASE MergeListFails
  BY <1>2, DieOut DEF MergeListFails, Worker, OutInv, Working, AreaInv
<1>3. CASE ReadResultFails
  BY <1>3, DieOut DEF ReadResultFails, Worker, OutInv, Working, AreaInv, LinkInv
<1>4. SimSlot \in Slot \/ ~Working
  BY DEF Working, IndInv, LoopInv, TypeOK, SimSlot, SlotOf, Slot
<1>5. CASE ReuseJob \/ PushJob
  <2>1. Working /\ SimSlot' = SimSlot /\ UNCHANGED <<dirs, lost, app, out, orphans>>
    BY <1>5, SlotOfSim DEF ReuseJob, PushJob, Submitting, Working, appVars, diskVars
  <2>2. PICK j : jobs' = Append(jobs, j)
    BY <1>5 DEF ReuseJob, PushJob
  <2>3. Len(jobs) \in Nat /\ Len(jobs') = Len(jobs) + 1 /\ Len(jobs) \in JobId
    <3>1. Submitting \/ Pushing
      BY <1>5 DEF ReuseJob, PushJob, Pushing
    <3> QED
      BY <2>2, <3>1, NextJobInRange, AppendProperties DEF IndInv, TypeOK, NextJob
  <2>4. app[Len(jobs)] = "NONE" => out[SimSlot][Len(jobs)] = "full"
    <3>1. CASE ReuseJob
      BY <1>4, <2>1, <2>3, <3>1 DEF ReuseJob, IsDone, NextJob, IndInv, TypeOK, OutInv
    <3>2. CASE PushJob
      BY <2>3, <3>2 DEF PushJob, IndInv, AppsInv, Pushing
    <3> QED
      BY <1>5, <3>1, <3>2
  <2>5. \A i \in JobId : i < Len(jobs') => i < Len(jobs) \/ i = Len(jobs)
    BY <2>3 DEF JobId
  <2>6. AreaInv'
    BY <2>1, <2>4, <2>5 DEF OutInv, AreaInv, Holds, LiveApps
  <2>7. wpc' # "off"
    BY <1>5 DEF ReuseJob, PushJob, Advance, AfterFill, AfterWait
  <2> QED
    BY <2>1, <2>6, <2>7 DEF OutInv
<1>6. CASE LaunchJob
  <2>1. Working /\ SimSlot' = SimSlot /\ UNCHANGED <<jobs, dirs, out, orphans>>
    BY <1>6, SlotOfSim DEF LaunchJob, Submitting, Working, diskVars
  <2>2. /\ app' = [app EXCEPT ![NextJob] = "RUNNING"] /\ NextJob \in JobId
        /\ lost' = IF SimSlot \in dirs THEN lost ELSE lost \cup {NextJob}
    BY <1>6, NextJobInRange DEF LaunchJob, IndInv, TypeOK
  <2>3. \A i \in JobId : app'[i] = IF i = NextJob THEN "RUNNING" ELSE app[i]
    BY <2>2 DEF IndInv, TypeOK
  <2>4. out[SimSlot][NextJob] = "none"
    BY <1>6 DEF LaunchJob, IsDone
  <2>5. AreaInv'
    BY <2>1, <2>2, <2>3, <2>4 DEF OutInv, AreaInv, Holds, LiveApps, Live
  <2>6. wpc' # "off"
    BY <1>6 DEF LaunchJob
  <2> QED
    BY <2>1, <2>3, <2>5, <2>6 DEF OutInv
<1>7. CASE NextToWait \/ WaitJob \/ NoMoreJobs \/ StartMerge \/ PublishMerge \/ EraseEntry \/ EndWorker
  <2>1. SimSlot' = SimSlot /\ UNCHANGED <<dirs, lost, app, out, orphans>> /\ wpc' # "off"
    BY <1>7, SlotOfSim DEF NextToWait, WaitJob, NoMoreJobs, StartMerge, PublishMerge, EraseEntry,
       EndWorker, Advance, AfterWait, Worker, appVars, diskVars
  <2>2. Len(jobs') = Len(jobs)
    BY <1>7 DEF NextToWait, WaitJob, NoMoreJobs, StartMerge, PublishMerge, EraseEntry, EndWorker,
       IndInv, TypeOK
  <2>3. Working' => Working
    BY <1>7 DEF NextToWait, WaitJob, NoMoreJobs, StartMerge, PublishMerge, EraseEntry, EndWorker,
       Worker, Working
  <2> QED
    BY <2>1, <2>2, <2>3, SameArea DEF OutInv
<1> QED
  BY <1>1, <1>2, <1>3, <1>5, <1>6, <1>7 DEF Work, WorkStep

LEMMA OutsideOut ==
  ASSUME ~CanKill, WholeOrNone, IndInv, OutInv, Outside
  PROVE  OutInv'
<1>1. CASE \E o \in orphans : OrphanWrites(o) \/ OrphanEnds(o)
  BY <1>1 DEF OutInv
<1>2. CASE Kill
  BY <1>2 DEF Kill
<1>3. CASE EndMerge \/ Restart
  <2>1. SimSlot' = SimSlot /\ UNCHANGED <<wpc, jobs, dirs, lost, app, out, orphans>>
    BY <1>3, SlotOfSim DEF EndMerge, Restart, workVars, appVars, diskVars
  <2> QED
    BY <2>1, SameArea DEF OutInv, Working
<1>4. ASSUME NEW k \in JobId, EndJob(k) PROVE OutInv'
  <2>1. SimSlot' = SimSlot /\ UNCHANGED <<wpc, jobs, dirs, lost, orphans>>
    BY <1>4, SlotOfSim DEF EndJob, workVars
  <2>2. app[k] = "RUNNING"
    BY <1>4 DEF EndJob, Live, OutInv
  <2>3. wpc # "off" /\ SimSlot \in Slot
    BY <2>2, LiveHasWorker DEF IndInv, LoopInv, TypeOK, SimSlot, SlotOf, Slot
  <2>4. \/ app' = [app EXCEPT ![k] = "SUCCESS"] /\ Writes(k, "full")
        \/ app' = [app EXCEPT ![k] = "FAILURE"] /\ out' = out
        \/ app' = [app EXCEPT ![k] = "FAILURE"] /\ Writes(k, "full") /\ ~NothingLeft
    BY <1>4, <2>2, ServerConstants DEF EndJob, WholeOrNone, NothingLeft
  <2>5. \A s \in Slot, i \in JobId : out'[s][i] = out[s][i] \/ out'[s][i] = "full"
    <3>1. out \in [Slot -> [JobId -> {"none", "partial", "full"}]]
      BY DEF IndInv, TypeOK
    <3>2. out' = out \/ out' = [out EXCEPT ![SimSlot][k] = "full"]
      BY <2>4 DEF Writes
    <3> QED
      BY <3>1, <3>2
  <2>6. \A i \in JobId : i # k => app'[i] = app[i] /\ out'[SimSlot][i] = out[SimSlot][i]
    BY <2>3, <2>4 DEF Writes, IndInv, TypeOK
  <2>7. app'[k] \in {"SUCCESS", "FAILURE"}
    BY <2>4 DEF IndInv, TypeOK
  <2>8. ASSUME Working PROVE AreaInv'
    <3>1. CASE SimSlot \in dirs
      <4>1. lost = {} /\ \A i \in JobId : Holds(i)
        BY <2>8, <3>1 DEF OutInv, AreaInv
      <4>2. \/ app'[k] = "SUCCESS" /\ out'[SimSlot][k] = "full"
            \/ app'[k] = "FAILURE" /\ (NothingLeft => out'[SimSlot][k] = "none")
        BY <2>2, <2>3, <2>4, <4>1 DEF Writes, Holds, IndInv, TypeOK
      <4> QED
        BY <2>1, <2>6, <3>1, <4>1, <4>2 DEF AreaInv, Holds
    <3>2. CASE SimSlot \notin dirs
      BY <2>1, <2>6, <2>7, <2>8, <3>2 DEF OutInv, AreaInv, LiveApps, Live
    <3> QED
      BY <3>1, <3>2
  <2> QED
    BY <2>1, <2>3, <2>5, <2>6, <2>7, <2>8 DEF OutInv, Working
<1> QED
  BY <1>1, <1>2, <1>3, <1>4 DEF Outside

LEMMA OutStep ==
  ASSUME NoStops, ~CanKill, WholeOrNone, IndInv, LinkInv, OutInv, [Next]_vars
  PROVE  OutInv'
<1>1. CASE UNCHANGED vars
  BY <1>1, SlotOfSim, SameArea DEF vars, workVars, appVars, diskVars, OutInv, Working
<1>2. CASE Next
  BY <1>2, HandleOut, MainOut, WorkOut, OutsideOut DEF Next
<1> QED
  BY <1>1, <1>2

LEMMA OutInit == Init => OutInv
BY DEF Init, OutInv, Working

\* When the final result is published, every job is recorded as it ended
LEMMA FinalJobs ==
  ASSUME NothingLeft, IndInv, LinkInv, ListedInv, OutInv,
         PublishMerge, AllWaited, merge.state = "SUCCESS"
  PROVE  merge.list = {i \in JobId : i < sim.nJobs /\ out[SimSlot][i] = "full"}
<1>1. wpc = "merging" /\ Working /\ SimSlot \in dirs
  BY DEF PublishMerge, Worker, Working, LinkInv
<1>2. fJob = sim.nJobs /\ Len(jobs) = sim.nJobs /\ sim.nJobs \in Nat
  BY <1>1 DEF AllWaited, IndInv, LoopInv, TypeOK
<1>3. merge.list = {i \in JobId : i < sim.nJobs /\ jobs[i + 1].state = "SUCCESS"}
  BY <1>1, <1>2 DEF ListedInv, ListedJobs
<1>4. \A i \in JobId : i < sim.nJobs => jobs[i + 1].state \in Terminal
  BY <1>1, <1>2 DEF IndInv, WindowInv, Waited
<1>5. \A i \in JobId : Holds(i)
  BY <1>1 DEF OutInv, AreaInv
<1>6. ASSUME NEW i \in JobId, i < sim.nJobs
      PROVE  jobs[i + 1].state = "SUCCESS" <=> out[SimSlot][i] = "full"
  <2>1. CASE jobs[i + 1].inst
    <3>1. app[i] = jobs[i + 1].state /\ app[i] \in {"SUCCESS", "FAILURE"}
      BY <1>2, <1>4, <1>6, <2>1 DEF IndInv, AppsInv, RecordedStates, StillRunning, OutInv, Terminal
    <3> QED
      BY <1>5, <3>1 DEF Holds
  <2>2. CASE ~jobs[i + 1].inst
    BY <1>2, <1>5, <1>6, <2>2 DEF IndInv, AppsInv, RecordedStates, Holds
  <2> QED
    BY <2>1, <2>2
<1> QED
  BY <1>3, <1>6

\* Only PublishMerge publishes a result of a simulation
LEMMA OnlyPublish ==
  ASSUME Next, pub'.status = "SUCCESS", pub'.hash # NoHash
  PROVE  PublishMerge
<1>1. pub' # NoResult
  BY DEF NoResult
<1>2. ASSUME NEW r \in Request, Handle(r) PROVE FALSE
  BY <1>1, <1>2 DEF Handle, RejectUnknown, AnswerTest, ClearCache, ReceiveStop, RefuseRunning,
     RefuseWait, AcceptNew, Silent, Published
<1>3. ~Main
  BY <1>1 DEF Main, StopNext, StopNull, StopUse, StopDangles, StopReply, Join, JoinAgain,
     RefuseTooMany, Start, Die, Silent
<1>4. ~Outside
  BY <1>1 DEF Outside, EndJob, EndMerge, OrphanWrites, OrphanEnds, Kill, Restart, Die, Silent
<1>5. Work => PublishMerge
  BY <1>1 DEF Work, WorkStep, ReuseJob, LaunchJob, PushJob, NextToWait, WaitJob, NoMoreJobs,
     StartMerge, MergeListFails, ReadResultFails, EraseEntry, EndWorker, WorkerDangles, Die, Silent
<1> QED
  BY <1>2, <1>3, <1>4, <1>5 DEF Next

\* Where nobody stops a simulation or kills the server, and a job that fails leaves
\* no output, a final result contains every job whose output exists and no other,
\* although CLEAR deletes directories at any time, whatever came from the cache and
\* whatever failed
THEOREM FinalComplete == NoStops /\ ~CanKill /\ NothingLeft => (Spec => FinalIsComplete)
<1> SUFFICES ASSUME NoStops, ~CanKill, NothingLeft PROVE Spec => FinalIsComplete
  OBVIOUS
<1>0. WholeOrNone
  BY DEF WholeOrNone, NothingLeft
<1> DEFINE Complete == pub'.status = "SUCCESS" /\ pub'.hash # NoHash
              => pub'.jobs = {i \in JobId : i < sim.nJobs /\ out[SimSlot][i] = "full"}
<1>1. Init => LinkInv /\ ListedInv /\ OutInv
  BY LinkInit, OutInit DEF Init, ListedInv
<1>2. IndInv /\ LinkInv /\ ListedInv /\ OutInv /\ [Next]_vars => LinkInv' /\ ListedInv' /\ OutInv'
  BY <1>0, LinkStep, ListedStep, OutStep
<1>3. IndInv /\ LinkInv /\ ListedInv /\ OutInv /\ [Next]_vars => [Complete]_vars
  <2> SUFFICES ASSUME IndInv, LinkInv, ListedInv, OutInv, Next,
                      pub'.status = "SUCCESS", pub'.hash # NoHash
               PROVE  pub'.jobs = {i \in JobId : i < sim.nJobs /\ out[SimSlot][i] = "full"}
    OBVIOUS
  <2>1. PublishMerge
    BY OnlyPublish
  <2>2. AllWaited /\ merge.state = "SUCCESS" /\ pub'.jobs = merge.list
    BY <2>1 DEF PublishMerge, Published, MergeOutcome
  <2> QED
    BY <2>1, <2>2, FinalJobs
<1> QED
  BY <1>1, <1>2, <1>3, Inductive, PTL DEF Spec, FinalIsComplete

-----------------------------------------------------------------------------
(* What a merge reads *)

\* Only EndMerge ends a merge
LEMMA OnlyEndMerge ==
  ASSUME Next, merge.state = "RUNNING", merge'.state = "SUCCESS"
  PROVE  EndMerge
<1>1. ASSUME NEW r \in Request, Handle(r) PROVE FALSE
  BY <1>1 DEF Handle, RejectUnknown, AnswerTest, ClearCache, ReceiveStop, RefuseRunning,
     RefuseWait, AcceptNew, workVars
<1>2. ~Main
  BY DEF Main, StopNext, StopNull, StopUse, StopDangles, StopReply, Join, JoinAgain,
     RefuseTooMany, Start, Die, NoMerge, workVars
<1>3. ~Work
  BY DEF Work, WorkStep, ReuseJob, LaunchJob, PushJob, NextToWait, WaitJob, NoMoreJobs,
     StartMerge, MergeListFails, PublishMerge, ReadResultFails, EraseEntry, EndWorker,
     WorkerDangles, Die, NoMerge, Worker, Terminal
<1>4. Outside => EndMerge
  <2>1. ~Kill /\ ~Restart
    BY DEF Kill, Restart, Die, NoMerge, workVars
  <2>2. \A i \in JobId : ~EndJob(i)
    BY DEF EndJob, workVars
  <2>3. \A o \in orphans : ~OrphanWrites(o) /\ ~OrphanEnds(o)
    BY DEF OrphanWrites, OrphanEnds, workVars
  <2> QED
    BY <2>1, <2>2, <2>3 DEF Outside
<1> QED
  BY <1>1, <1>2, <1>3, <1>4 DEF Next

\* Where nobody stops a simulation or kills the server, and no job that fails leaves
\* a part of its output, a merge that succeeds has read complete outputs only: no application that outlived a server, and
\* none that was asked to stop, has left a part of one where a job is looked for
\* in the cache (local_cache.hh, lines 47-50; mcstas_server.cpp, lines 381-421)
THEOREM WholeMerges == NoStops /\ ~CanKill /\ WholeOrNone => (Spec => MergeReadsWhole)
<1> SUFFICES ASSUME NoStops, ~CanKill, WholeOrNone PROVE Spec => MergeReadsWhole
  OBVIOUS
<1> DEFINE Whole == merge.state = "RUNNING" /\ merge'.state = "SUCCESS"
                      => \A i \in merge.list : out[SimSlot][i] = "full"
<1>1. Init => LinkInv /\ OutInv
  BY LinkInit, OutInit
<1>2. IndInv /\ LinkInv /\ OutInv /\ [Next]_vars => LinkInv' /\ OutInv'
  BY LinkStep, OutStep
<1>3. IndInv /\ LinkInv /\ OutInv /\ [Next]_vars => [Whole]_vars
  <2> SUFFICES ASSUME IndInv, OutInv, Next, merge.state = "RUNNING", merge'.state = "SUCCESS",
                      NEW i \in merge.list
               PROVE  out[SimSlot][i] = "full"
    OBVIOUS
  <2>1. EndMerge
    BY OnlyEndMerge
  <2>2. Mergeable
    BY <2>1 DEF EndMerge, IndInv, TypeOK
  <2>3. SimSlot \in Slot /\ i \in JobId
    BY <2>2 DEF Mergeable, IndInv, TypeOK
  <2> QED
    BY <2>2, <2>3 DEF Mergeable, IndInv, TypeOK, OutInv
<1> QED
  BY <1>1, <1>2, <1>3, Inductive, PTL DEF Spec, MergeReadsWhole

-----------------------------------------------------------------------------
(* Each fault needs its own kind of request, whatever the others are           *)

\* Without CLEAR the directories the two threads have made stay
AreaKept ==
  /\ wpc # "off" => SimSlot \in dirs
  /\ mpc \in {"join", "start"} => RequestSlot(req) \in dirs
  /\ merge.state = "SUCCESS" => SimSlot \in merges
  /\ srv # "uncaught"

LEMMA DieKept ==
  ASSUME AreaKept, NEW cause, Die(cause), cause # "uncaught"
  PROVE  AreaKept'
BY DEF Die, AreaKept, NoMerge

LEMMA KeptStep ==
  ASSUME NoClear, IndInv, AreaKept, [Next]_vars
  PROVE  AreaKept'
<1>1. CASE UNCHANGED vars
  BY <1>1, SlotOfSim DEF vars, mainVars, workVars, diskVars, AreaKept, RequestSlot, SlotOf
<1>2. ASSUME NEW r \in Request, Handle(r) PROVE AreaKept'
  <2>1. ~ClearCache(r)
    BY DEF ClearCache, Request, NoClear
  <2>2. /\ SimSlot' = SimSlot /\ UNCHANGED <<srv, wpc, merge, merges>>
        /\ mpc = "receive" /\ dirs \subseteq dirs'
    BY <1>2, <2>1, SlotOfSim DEF Handle, RejectUnknown, AnswerTest, ReceiveStop, RefuseRunning,
       RefuseWait, AcceptNew, Receive, workVars, diskVars
  <2>3. mpc' \in {"join", "start"} => RequestSlot(req') \in dirs'
    BY <1>2, <2>1, <2>2 DEF Handle, RejectUnknown, AnswerTest, ReceiveStop, RefuseRunning,
       RefuseWait, AcceptNew, mainVars
  <2> QED
    BY <2>2, <2>3 DEF AreaKept, RequestSlot, SlotOf
<1>3. CASE Main
  <2>1. CASE StopNull \/ StopDangles \/ JoinAgain
    BY <2>1, DieKept DEF StopNull, StopDangles, JoinAgain
  <2>2. CASE StopNext \/ StopUse \/ StopReply \/ RefuseTooMany
    <3>1. /\ SimSlot' = SimSlot /\ UNCHANGED <<srv, wpc, merge, dirs, merges>>
          /\ mpc' \notin {"join", "start"}
      BY <2>2, SlotOfSim DEF StopNext, StopUse, StopReply, RefuseTooMany, workVars, diskVars
    <3> QED
      BY <3>1 DEF AreaKept
  <2>3. CASE Join
    BY <2>3 DEF Join, AreaKept, diskVars, NoMerge, RequestSlot, SlotOf
  <2>4. CASE Start
    <3>1. merge.state = "NONE"
      BY <2>4 DEF Start, IndInv, HandleInv, WorkerHandle, LoopInv, NoMerge
    <3> QED
      BY <2>4, <3>1 DEF Start, AreaKept, diskVars, RequestSlot, SimSlot, SlotOf
  <2> QED
    BY <1>3, <2>1, <2>2, <2>3, <2>4 DEF Main
<1>4. CASE Work
  <2>1. ~MergeListFails /\ ~ReadResultFails
    BY DEF MergeListFails, ReadResultFails, Worker, AreaKept
  <2>2. CASE WorkerDangles
    BY <2>2, DieKept DEF WorkerDangles
  <2>3. CASE ~WorkerDangles
    <3>1. /\ WorkStep /\ SimSlot' = SimSlot /\ UNCHANGED <<srv, dirs, mpc, req>> /\ wpc # "off"
      BY <1>4, <2>1, <2>3, SlotOfSim DEF Work, WorkStep, ReuseJob, LaunchJob, PushJob,
         NextToWait, WaitJob, NoMoreJobs, StartMerge, PublishMerge, EraseEntry, EndWorker,
         mainVars, diskVars, Worker, Submitting
    <3>2. merge'.state = "SUCCESS" => merge.state = "SUCCESS" /\ merges' = merges
      BY <2>1, <3>1 DEF WorkStep, ReuseJob, LaunchJob, PushJob,
         NextToWait, WaitJob, NoMoreJobs, StartMerge, PublishMerge, EraseEntry, EndWorker,
         diskVars, NoMerge
    <3> QED
      BY <3>1, <3>2 DEF AreaKept, RequestSlot, SlotOf
  <2> QED
    BY <2>2, <2>3
<1>5. CASE Outside
  <2>1. CASE Kill
    BY <2>1, DieKept DEF Kill
  <2>2. CASE EndMerge
    <3>1. merge' \in {[merge EXCEPT !.state = "SUCCESS"], [merge EXCEPT !.state = "FAILURE"]}
          /\ (merge'.state = "SUCCESS" => SimSlot \in merges')
      BY <2>2 DEF EndMerge, IndInv, TypeOK
    <3>2. SimSlot' = SimSlot /\ UNCHANGED <<srv, wpc, dirs, mpc, req>>
      BY <2>2, SlotOfSim DEF EndMerge, mainVars
    <3> QED
      BY <3>1, <3>2 DEF AreaKept, RequestSlot, SlotOf
  <2>3. CASE ~Kill /\ ~EndMerge
    <3>1. /\ SimSlot' = SimSlot /\ UNCHANGED <<wpc, dirs, merges, merge, mpc, req>>
          /\ srv' \in {srv, "up"}
      BY <1>5, <2>3, SlotOfSim DEF Outside, EndJob, OrphanWrites, OrphanEnds, Restart,
         mainVars, workVars, diskVars
    <3> QED
      BY <3>1 DEF AreaKept, RequestSlot, SlotOf
  <2> QED
    BY <2>1, <2>2, <2>3
<1> QED
  BY <1>1, <1>2, <1>3, <1>4, <1>5 DEF Next

\* Only CLEAR makes an exception nobody catches: without it the worker finds the
\* directory its simulation was given, and the merge it reads, with STOP, kills,
\* restarts and any number of jobs (mcstas_server.cpp, lines 44-67 and 381-421)
THEOREM OnlyClearThrows == NoClear => (Spec => [](srv # "uncaught"))
<1> SUFFICES ASSUME NoClear PROVE Spec => [](srv # "uncaught")
  OBVIOUS
<1>1. Init => AreaKept
  BY DEF Init, AreaKept, NoMerge
<1>2. IndInv /\ AreaKept /\ [Next]_vars => AreaKept'
  BY KeptStep
<1>3. AreaKept => srv # "uncaught"
  BY DEF AreaKept
<1> QED
  BY <1>1, <1>2, <1>3, Inductive, PTL DEF Spec

\* A joined handle is left behind only by a request refused for its number of jobs
JoinInv ==
  /\ thread = "joined" => mpc = "start"
  /\ mpc = "join" => thread = "joinable"
  /\ srv # "join_twice"

LEMMA DieJoin ==
  ASSUME NEW cause, Die(cause), cause # "join_twice"
  PROVE  JoinInv'
BY DEF Die, JoinInv

LEMMA JoinStep ==
  ASSUME FewJobs, IndInv, JoinInv, [Next]_vars
  PROVE  JoinInv'
<1>1. CASE UNCHANGED <<srv, mpc, thread>>
  BY <1>1 DEF JoinInv
<1>2. ASSUME NEW r \in Request, Handle(r) PROVE JoinInv'
  <2>1. mpc = "receive" /\ UNCHANGED <<srv, thread>>
    BY <1>2 DEF Handle, RejectUnknown, AnswerTest, ClearCache, ReceiveStop, RefuseRunning,
       RefuseWait, AcceptNew, Receive
  <2>2. mpc' = "join" => thread # "none"
    BY <1>2, <2>1 DEF Handle, RejectUnknown, AnswerTest, ClearCache, ReceiveStop, RefuseRunning,
       RefuseWait, AcceptNew, AfterAccept, mainVars
  <2>3. thread \in {"none", "joinable"}
    BY <2>1 DEF JoinInv, IndInv, TypeOK
  <2> QED
    BY <2>1, <2>2, <2>3 DEF JoinInv
<1>3. CASE Main
  <2>1. ~RefuseTooMany
    BY DEF RefuseTooMany, FewJobs, IndInv, HandleInv, Request
  <2>2. ~JoinAgain
    BY DEF JoinAgain, JoinInv
  <2>3. CASE StopNull \/ StopDangles
    BY <2>3, DieJoin DEF StopNull, StopDangles
  <2>4. CASE StopNext \/ StopUse \/ StopReply
    BY <2>4 DEF StopNext, StopUse, StopReply, JoinInv
  <2>5. CASE Join \/ Start
    BY <2>5 DEF Join, Start, JoinInv
  <2> QED
    BY <1>3, <2>1, <2>2, <2>3, <2>4, <2>5 DEF Main
<1>4. CASE Work
  <2>1. CASE MergeListFails \/ ReadResultFails \/ WorkerDangles
    BY <2>1, DieJoin DEF MergeListFails, ReadResultFails, WorkerDangles
  <2>2. CASE ~(MergeListFails \/ ReadResultFails \/ WorkerDangles)
    BY <1>1, <1>4, <2>2 DEF Work, WorkStep, ReuseJob, LaunchJob, PushJob, NextToWait, WaitJob,
       NoMoreJobs, StartMerge, PublishMerge, EraseEntry, EndWorker, mainVars
  <2> QED
    BY <2>1, <2>2
<1>5. CASE Outside
  <2>1. CASE Kill
    BY <2>1, DieJoin DEF Kill
  <2>2. CASE ~Kill
    BY <1>5, <2>2 DEF Outside, EndJob, EndMerge, OrphanWrites, OrphanEnds, Restart, JoinInv, mainVars
  <2> QED
    BY <2>1, <2>2
<1> QED
  BY <1>1, <1>2, <1>3, <1>4, <1>5 DEF Next, vars, mainVars

\* Where no request asks for more jobs than there are seeds, the main thread
\* joins a previous simulation only while there is a thread to join, and no
\* std::system_error ends it, STOP, CLEAR, kills and restarts included
\* (mcstas_server.cpp, lines 308-313 and 358-366)
THEOREM JoinSafe == FewJobs => (Spec => [](JoinHasThread /\ srv # "join_twice"))
<1> SUFFICES ASSUME FewJobs PROVE Spec => [](JoinHasThread /\ srv # "join_twice")
  OBVIOUS
<1>1. Init => JoinInv
  BY DEF Init, JoinInv
<1>2. IndInv /\ JoinInv /\ [Next]_vars => JoinInv'
  BY JoinStep
<1>3. JoinInv => JoinHasThread /\ srv # "join_twice"
  BY DEF JoinInv, JoinHasThread
<1> QED
  BY <1>1, <1>2, <1>3, Inductive, PTL DEF Spec

\* What ends a server that nobody asks to stop a simulation
StopFree == srv \notin {"null_instance", "dangling"}

\* Only STOP makes the server use an instance it does not have, or an entry that
\* is gone: without it the worker's sim_jobs refers to the map as long as it is
\* used, CLEAR, requests refused and restarts included (mcstas_server.cpp, lines
\* 229-236 and 425-484)
THEOREM OnlyStopDangles == NoStops => (Spec => []StopFree)
<1> SUFFICES ASSUME NoStops PROVE Spec => []StopFree
  OBVIOUS
<1>1. Init => LinkInv /\ StopFree
  BY LinkInit DEF Init, StopFree
<1>2. IndInv /\ LinkInv /\ [Next]_vars => LinkInv'
  BY LinkStep
<1>3. IndInv /\ LinkInv /\ StopFree /\ [Next]_vars => StopFree'
  <2> SUFFICES ASSUME IndInv, LinkInv, StopFree, Next PROVE StopFree'
    BY DEF StopFree, vars
  <2>1. ~StopNull /\ ~StopDangles /\ ~WorkerDangles
    BY DEF LinkInv, InStop, Working, StopNull, StopDangles, WorkerDangles
  <2>2. ASSUME NEW r \in Request, Handle(r) PROVE srv' = srv
    BY <2>2 DEF Handle, RejectUnknown, AnswerTest, ClearCache, ReceiveStop, RefuseRunning,
       RefuseWait, AcceptNew
  <2>3. Main => srv' \in {srv, "join_twice"}
    BY <2>1 DEF Main, StopNext, StopUse, StopReply, Join, JoinAgain, RefuseTooMany, Start, Die
  <2>4. Work => srv' \in {srv, "uncaught"}
    BY <2>1 DEF Work, WorkStep, ReuseJob, LaunchJob, PushJob, NextToWait, WaitJob, NoMoreJobs,
       StartMerge, MergeListFails, PublishMerge, ReadResultFails, EraseEntry, EndWorker, Die
  <2>5. Outside => srv' \in {srv, "up", "killed"}
    BY DEF Outside, EndJob, EndMerge, OrphanWrites, OrphanEnds, Kill, Restart, Die
  <2> QED
    BY <2>2, <2>3, <2>4, <2>5 DEF Next, StopFree
<1> QED
  BY <1>1, <1>2, <1>3, Inductive, PTL DEF Spec

\* Where nobody stops a simulation, clears the cache or asks for more jobs than
\* there are seeds, no exception and no dangling reference ends the server, for
\* every number of jobs, hashes and parallel jobs, kills and restarts included
THEOREM FaultFree == NoStops /\ NoClear /\ FewJobs => (Spec => []NoFault)
<1>1. TypeOK /\ srv # "uncaught" /\ (JoinHasThread /\ srv # "join_twice") /\ StopFree => NoFault
  BY DEF TypeOK, Causes, StopFree, NoFault
<1> QED
  BY <1>1, TypeCorrect, OnlyClearThrows, JoinSafe, OnlyStopDangles, PTL
=============================================================================
