----------------------------- MODULE StopProofs -----------------------------
(***************************************************************************)
(* Proof that STOP leaves behind none of the jobs it walks over, although  *)
(* the worker submits others and the applications end meanwhile.           *)
(***************************************************************************)
EXTENDS McstasServerProofs

\* The walk of STOP: what is behind its index has been stopped, and its index
\* never passes the end of a vector that only grows
StopInv ==
  /\ ~InStop => sidx = 0
  /\ InStop /\ EntryIsSim =>
       /\ sidx <= Len(jobs)
       /\ \A i \in JobId : i < sidx => app[i] # "RUNNING"
  /\ mpc = "stopuse" /\ EntryIsSim => sidx < Len(jobs)
  /\ mpc = "stopreply" => slen <= sidx

\* The end of the process ends the walk
LEMMA DieStop == ASSUME NEW cause, Die(cause) PROVE StopInv'
BY DEF Die, StopInv, InStop

LEMMA HandleStop ==
  ASSUME TypeOK, StopInv, NEW r \in Request, Handle(r)
  PROVE  StopInv'
<1>1. mpc = "receive" /\ sidx = 0
  BY DEF Handle, RejectUnknown, AnswerTest, ClearCache, ReceiveStop, RefuseRunning, RefuseWait,
         AcceptNew, Receive, StopInv, InStop
<1>2. sidx' = 0 /\ jobs' = jobs /\ mpc' \in {"receive", "stopnext", "join", "start"}
  BY <1>1 DEF Handle, RejectUnknown, AnswerTest, ClearCache, ReceiveStop, RefuseRunning, RefuseWait,
         AcceptNew, AfterAccept, mainVars, workVars
<1>3. Len(jobs) \in Nat
  BY DEF TypeOK
<1> QED
  BY <1>2, <1>3 DEF StopInv, InStop, JobId

LEMMA MainStop ==
  ASSUME TypeOK, HandleInv, StopInv, Main
  PROVE  StopInv'
<1>1. Len(jobs) \in Nat /\ sidx \in Nat /\ slen \in Nat
  BY DEF TypeOK
<1>2. CASE StopNext
  <2>1. mpc = "stopnext" /\ mpc' \in {"stopuse", "stopreply"}
    BY <1>2 DEF StopNext
  <2>2. UNCHANGED <<req, sidx, sim, linked, jobs, app>>
    BY <1>2 DEF StopNext, workVars, appVars
  <2>3. EntryIsSim' = EntryIsSim
    BY <2>2 DEF EntryIsSim
  <2>4. slen' = EntrySize /\ (mpc' = "stopuse" <=> sidx < EntrySize)
    BY <1>2 DEF StopNext
  <2>5. EntryIsSim => EntrySize = Len(jobs)
    BY DEF EntrySize
  <2>6. EntrySize \in Nat
    BY <1>1 DEF EntrySize
  <2>7. InStop /\ InStop'
    BY <2>1 DEF InStop
  <2>8. mpc' = "stopreply" => slen' <= sidx'
    BY <1>1, <2>1, <2>2, <2>4, <2>6
  <2> QED
    BY <2>2, <2>3, <2>4, <2>5, <2>7, <2>8 DEF StopInv
<1>3. CASE StopNull \/ StopDangles \/ JoinAgain
  BY <1>3, DieStop DEF StopNull, StopDangles, JoinAgain
<1>4. CASE StopUse
  <2>1. mpc = "stopuse" /\ mpc' = "stopnext" /\ sidx' = sidx + 1
    BY <1>4 DEF StopUse
  <2>2. UNCHANGED <<req, sim, linked, jobs>>
    BY <1>4 DEF StopUse, mapVars, workVars
  <2>3. EntryIsSim' = EntryIsSim
    BY <2>2 DEF EntryIsSim
  <2>4. app' = [app EXCEPT ![sidx] = IF @ = "RUNNING" THEN "STOPPING" ELSE @]
    BY <1>4 DEF StopUse, StopInstance
  <2>5. app \in [JobId -> {"NONE", "STOPPING"} \cup JobStates]
    BY DEF TypeOK
  <2>6. ASSUME EntryIsSim, NEW i \in JobId, i < sidx + 1 PROVE app'[i] # "RUNNING"
    <3>1. i = sidx \/ i < sidx
      BY <1>1, <2>6 DEF JobId
    <3>2. CASE i = sidx
      BY <2>4, <2>5, <3>2
    <3>3. CASE i < sidx
      <4>1. app[i] # "RUNNING"
        BY <2>1, <2>6, <3>3 DEF StopInv, InStop
      <4>2. i # sidx
        BY <1>1, <3>3 DEF JobId
      <4> QED
        BY <2>4, <2>5, <4>1, <4>2
    <3> QED
      BY <3>1, <3>2, <3>3
  <2>7. EntryIsSim => sidx + 1 <= Len(jobs)
    BY <1>1, <2>1 DEF StopInv
  <2>8. InStop'
    BY <2>1 DEF InStop
  <2> QED
    BY <2>1, <2>2, <2>3, <2>6, <2>7, <2>8 DEF StopInv
<1>5. CASE StopReply
  BY <1>5 DEF StopReply, StopInv, InStop
<1>6. CASE Join \/ RefuseTooMany \/ Start
  <2>1. ~InStop /\ ~InStop' /\ sidx' = sidx /\ mpc' \notin {"stopuse", "stopreply"}
    BY <1>6 DEF Join, RefuseTooMany, Start, InStop
  <2> QED
    BY <2>1 DEF StopInv
<1> QED
  BY <1>2, <1>3, <1>4, <1>5, <1>6 DEF Main

\* What a step of the worker may do to the entry STOP walks over: add to its end
LEMMA WorkAppends ==
  ASSUME TypeOK, WorkStep
  PROVE  \/ srv' \in Causes /\ StopInv'
         \/ /\ UNCHANGED <<mainVars, sim>> /\ (linked' => linked)
            /\ Len(jobs') \in Nat /\ Len(jobs) <= Len(jobs')
            /\ \A i \in JobId : i < Len(jobs) => app'[i] = app[i]
<1>1. jobs \in Seq(Job) /\ Len(jobs) \in Nat
  BY DEF TypeOK
<1>2. CASE MergeListFails \/ ReadResultFails
  <2>1. Die("uncaught")
    BY <1>2 DEF MergeListFails, ReadResultFails
  <2> QED
    BY <2>1, DieStop DEF Die, Causes
<1>3. CASE ReuseJob
  <2>1. CachedJob \in Job /\ jobs' = Append(jobs, CachedJob)
    BY <1>3, ConstantTypes DEF ReuseJob
  <2> QED
    BY <1>1, <1>3, <2>1 DEF ReuseJob, mapVars, appVars
<1>4. CASE PushJob
  <2>1. PICK j : jobs' = Append(jobs, j)
    BY <1>4 DEF PushJob
  <2>2. Len(jobs') = Len(jobs) + 1
    BY <1>1, <2>1
  <2> QED
    BY <1>1, <1>4, <2>2 DEF PushJob, mapVars, appVars
<1>5. CASE LaunchJob
  <2>1. app' = [app EXCEPT ![Len(jobs)] = "RUNNING"]
    BY <1>5 DEF LaunchJob, NextJob
  <2>2. ASSUME NEW i \in JobId, i < Len(jobs) PROVE app'[i] = app[i]
    BY <1>1, <2>1, <2>2 DEF TypeOK, JobId
  <2> QED
    BY <1>1, <1>5, <2>2 DEF LaunchJob, mapVars
<1>6. CASE WaitJob
  <2>1. Len(jobs') = Len(jobs)
    BY <1>1, <1>6 DEF WaitJob
  <2> QED
    BY <1>1, <1>6, <2>1 DEF WaitJob, mapVars, appVars
<1>7. CASE NextToWait \/ NoMoreJobs \/ StartMerge \/ PublishMerge \/ EraseEntry \/ EndWorker
  BY <1>1, <1>7 DEF NextToWait, NoMoreJobs, StartMerge, PublishMerge, EraseEntry, EndWorker,
                    mapVars, appVars
<1> QED
  BY <1>2, <1>3, <1>4, <1>5, <1>6, <1>7 DEF WorkStep

LEMMA WorkStop ==
  ASSUME TypeOK, StopInv, Work
  PROVE  StopInv'
<1>1. CASE WorkerDangles
  BY <1>1, DieStop DEF WorkerDangles
<1>2. CASE WorkStep
  <2>1. CASE StopInv'
    BY <2>1
  <2>2. CASE /\ UNCHANGED <<mainVars, sim>> /\ (linked' => linked)
             /\ Len(jobs') \in Nat /\ Len(jobs) <= Len(jobs')
             /\ \A i \in JobId : i < Len(jobs) => app'[i] = app[i]
    <3>1. Len(jobs) \in Nat /\ sidx \in Nat
      BY DEF TypeOK
    <3>2. UNCHANGED <<mpc, req, sidx, slen>> /\ (InStop' <=> InStop)
      BY <2>2 DEF mainVars, InStop
    <3>3. EntryIsSim' => EntryIsSim
      BY <2>2, <3>2 DEF EntryIsSim
    <3>4. ASSUME InStop, EntryIsSim
          PROVE  /\ sidx <= Len(jobs')
                 /\ \A i \in JobId : i < sidx => app'[i] # "RUNNING"
      <4>1. sidx <= Len(jobs) /\ \A i \in JobId : i < sidx => app[i] # "RUNNING"
        BY <3>4 DEF StopInv
      <4>2. ASSUME NEW i \in JobId, i < sidx PROVE app'[i] # "RUNNING"
        <5>1. i < Len(jobs)
          BY <3>1, <4>1, <4>2 DEF JobId
        <5> QED
          BY <2>2, <4>1, <4>2, <5>1
      <4> QED
        BY <2>2, <3>1, <4>1, <4>2
    <3>5. mpc = "stopuse" /\ EntryIsSim => sidx < Len(jobs')
      BY <2>2, <3>1 DEF StopInv
    <3> QED
      BY <3>2, <3>3, <3>4, <3>5 DEF StopInv
  <2> QED
    BY <1>2, <2>1, <2>2, WorkAppends
<1> QED
  BY <1>1, <1>2 DEF Work

LEMMA OutsideStop ==
  ASSUME TypeOK, StopInv, Outside
  PROVE  StopInv'
<1>1. ASSUME NEW i \in JobId, EndJob(i) PROVE StopInv'
  <2>1. UNCHANGED <<mpc, req, sidx, slen, linked, sim, jobs>>
    BY <1>1 DEF EndJob, mainVars, mapVars, workVars
  <2>2. \A k \in JobId : app'[k] = app[k] \/ app'[k] # "RUNNING"
    BY <1>1 DEF EndJob, TypeOK
  <2> QED
    BY <2>1, <2>2 DEF StopInv, InStop, EntryIsSim
<1>2. CASE \/ EndMerge \/ Restart
           \/ \E o \in orphans : OrphanWrites(o) \/ OrphanEnds(o)
  <2>1. UNCHANGED <<mpc, req, sidx, slen, linked, sim, jobs, app>>
    BY <1>2 DEF EndMerge, Restart, OrphanWrites, OrphanEnds, mainVars, mapVars, workVars, appVars
  <2> QED
    BY <2>1 DEF StopInv, InStop, EntryIsSim
<1>3. CASE Kill
  BY <1>3, DieStop DEF Kill
<1> QED
  BY <1>1, <1>2, <1>3 DEF Outside

LEMMA StopStep == IndInv /\ StopInv /\ [Next]_vars => StopInv'
<1> SUFFICES ASSUME IndInv, StopInv, [Next]_vars PROVE StopInv'
  OBVIOUS
<1>1. TypeOK /\ HandleInv
  BY DEF IndInv
<1>2. CASE UNCHANGED vars
  BY <1>2 DEF vars, mainVars, mapVars, workVars, appVars, StopInv, InStop, EntryIsSim
<1>3. CASE Next
  BY <1>1, <1>3, HandleStop, MainStop, WorkStop, OutsideStop DEF Next
<1> QED
  BY <1>2, <1>3

\* STOP leaves none of the jobs it has counted running, for every number of jobs
\* and every order of the steps of both threads and the applications
THEOREM StopCorrect == Spec => []StopCovers
<1>1. Init => StopInv
  BY DEF Init, StopInv, InStop
<1>2. IndInv /\ StopInv => StopCovers
  <2> SUFFICES ASSUME IndInv, StopInv, InStop, EntryIsSim, NEW i \in JobId,
                      i < (IF mpc = "stopreply" THEN slen ELSE sidx)
               PROVE  app[i] # "RUNNING"
    BY DEF StopCovers
  <2>1. sidx \in Nat /\ slen \in Nat /\ i \in Int
    BY DEF IndInv, TypeOK, JobId
  <2>2. i < sidx
    BY <2>1 DEF StopInv
  <2> QED
    BY <2>2 DEF StopInv
<1> QED
  BY <1>1, <1>2, StopStep, Inductive, PTL DEF Spec
=============================================================================
