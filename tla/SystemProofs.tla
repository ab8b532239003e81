---------------------------- MODULE SystemProofs ----------------------------
(***************************************************************************)
(* Proofs about the server together with its clients, for every number of  *)
(* clients, hashes, seeds, jobs and parallel jobs.  A step of the system   *)
(* is a step of McstasServer or leaves the server alone, so that IndInv    *)
(* carries over.                                                           *)
(***************************************************************************)
EXTENDS McstasSystem, ServerRefinesProofs

\* The main thread treats the request of the client being served, which waits
ServedInv ==
  /\ mpc # "receive" => who \in Client /\ req = ask[who]
  /\ who \in Client => cpc[who] = "asked"

\* Whatever a client has received up to the first result that does not say
\* RUNNING is its own; while there is no such result its simulation publishes
OwnQueue(c) ==
  /\ \A k \in 1 .. Len(queue[c]) :
       (\A j \in 1 .. (k - 1) : queue[c][j].status = "RUNNING") => queue[c][k].hash = ask[c].hash
  /\ (\A j \in 1 .. Len(queue[c]) : queue[c][j].status = "RUNNING")
       => Publishing /\ sim.hash = ask[c].hash

Started(c) == answer[c] = "ansSTARTING" /\ fresh[c]

OwnInv(c) ==
  /\ cpc[c] \in {"idle", "subscribed", "asked"} => answer[c] = "NONE" /\ got[c] = NoResult
  /\ Started(c) => /\ got[c] # NoResult => got[c].hash = ask[c].hash
                   /\ cpc[c] = "reading" => OwnQueue(c)

SysInv == IndInv /\ SysTypeOK /\ ServedInv

-----------------------------------------------------------------------------
(* What a step of the server says and publishes *)

\* The applications end, or a client stops the server
Environment == ServerOutside \/ \E c \in Client : StopServer(c)

LEMMA EnvironmentSteps == Environment => Outside /\ Deliver(who)
BY DEF Environment, ServerOutside, Applications, StopServer, Outside

LEMMA StepsAreServerSteps == SysNext => [Next]_vars
<1>1. ASSUME NEW c \in Client, Serve(c) PROVE Next
  <2>1. ask[c] \in Request
    BY <1>1 DEF Serve, Handle, RejectUnknown, AnswerTest, ClearCache, ReceiveStop, RefuseRunning,
       RefuseWait, AcceptNew, Receive
  <2> QED
    BY <1>1, <2>1 DEF Serve, Next
<1>2. ASSUME NEW c \in Client, ClientStep(c) PROVE UNCHANGED vars
  BY <1>2 DEF ClientStep, Subscribe, Send, ReadResult
<1>3. ASSUME NEW c \in Client, StartServer(c) PROVE Next
  BY <1>3 DEF StartServer, Outside, Next
<1>4. Environment => Next
  BY EnvironmentSteps DEF Next
<1> QED
  BY <1>1, <1>2, <1>3, <1>4 DEF SysNext, ServerMain, ServerWork, Environment, Next

\* Only the worker and a test publish; an answer ends the treatment of a request
LEMMA WorkQuiet == ASSUME Work PROVE reply' = NoReply
BY DEF Work, WorkStep, ReuseJob, LaunchJob, PushJob, NextToWait, WaitJob, NoMoreJobs,
   StartMerge, MergeListFails, PublishMerge, ReadResultFails, EraseEntry, EndWorker,
   WorkerDangles, Die, Silent

LEMMA OutsideQuiet == ASSUME Outside PROVE Silent
BY DEF Outside, EndJob, EndMerge, OrphanWrites, OrphanEnds, Kill, Restart, Die

LEMMA MainQuiet == ASSUME Main PROVE pub' = NoResult
BY DEF Main, StopNext, StopNull, StopUse, StopDangles, StopReply, Join, JoinAgain,
   RefuseTooMany, Start, Die, Silent

LEMMA HandleTells ==
  ASSUME NEW r \in Request, Handle(r)
  PROVE  /\ reply' # NoReply => mpc' = "receive" /\ reply'.ans # "ansSTARTING"
         /\ mpc' # "receive" => req' = r
         /\ pub' # NoResult => r.n = 0 /\ pub' = [hash |-> NoHash, status |-> "SUCCESS", jobs |-> {}]
         /\ UNCHANGED <<srv, wpc, sim>>
BY DEF Handle, RejectUnknown, AnswerTest, ClearCache, ReceiveStop, RefuseRunning, RefuseWait,
   AcceptNew, Receive, IsTest, Answered, Published, Silent, NoReply, NoResult,
   mainVars, workVars

LEMMA MainTells ==
  ASSUME Main
  PROVE  /\ mpc # "receive"
         /\ reply' # NoReply => mpc' = "receive"
         /\ mpc' # "receive" => req' = req
         /\ reply'.ans = "ansSTARTING" => Start
BY DEF Main, StopNext, StopNull, StopUse, StopDangles, StopReply, Join, JoinAgain,
   RefuseTooMany, Start, Die, Answered, Silent, NoReply

LEMMA WorkPublishes ==
  ASSUME IndInv, Work, pub' # NoResult
  PROVE  /\ pub'.hash = sim.hash /\ pub'.status # "NONE" /\ Publishing
         /\ pub'.status = "RUNNING" => Publishing' /\ sim' = sim
<1>1. PublishMerge
  BY DEF Work, WorkStep, ReuseJob, LaunchJob, PushJob, NextToWait, WaitJob, NoMoreJobs,
     StartMerge, MergeListFails, ReadResultFails, EraseEntry, EndWorker,
     WorkerDangles, Die, Silent
<1> QED
  BY <1>1 DEF PublishMerge, Published, MergeOutcome, Publishing, Worker

\* A simulation goes on publishing until its final result or the end of the process
LEMMA PublishingGoesOn ==
  ASSUME IndInv, Next, Publishing, srv' = "up", pub' = NoResult
  PROVE  Publishing' /\ sim' = sim
<1>1. ASSUME NEW r \in Request, Handle(r) PROVE Publishing' /\ sim' = sim
  BY <1>1, HandleTells DEF Publishing
<1>2. CASE Main
  <2>1. ~Join /\ ~Start
    BY DEF Join, Start, Publishing, IndInv, HandleInv, WorkerHandle
  <2> QED
    BY <1>2, <2>1 DEF Main, StopNext, StopNull, StopUse, StopDangles, StopReply, JoinAgain,
       RefuseTooMany, Die, workVars, Publishing
<1>3. CASE Work
  BY <1>3 DEF Work, WorkStep, ReuseJob, LaunchJob, PushJob, NextToWait, WaitJob, NoMoreJobs,
     StartMerge, MergeListFails, PublishMerge, ReadResultFails, EraseEntry, EndWorker,
     WorkerDangles, Die, Silent, Published, NoResult, Advance, AfterFill, AfterWait, Worker,
     MergeOutcome, Publishing
<1>4. CASE Outside
  BY <1>4 DEF Outside, EndJob, EndMerge, OrphanWrites, OrphanEnds, Kill, Restart, Die,
     workVars, Publishing
<1> QED
  BY <1>1, <1>2, <1>3, <1>4 DEF Next

-----------------------------------------------------------------------------
(* Types *)

\* A result that reaches the clients is one
LEMMA ResultType ==
  ASSUME IndInv, Next, pub' # NoResult
  PROVE  pub' \in Result
<1>1. pub' \in [hash : Hash \cup {NoHash},
                status : {"NONE", "RUNNING", "SUCCESS", "FAILURE"}, jobs : SUBSET JobId]
  BY NextInd DEF IndInv, TypeOK
<1>2. pub'.status # "NONE"
  BY HandleTells, MainQuiet, WorkPublishes, OutsideQuiet DEF Next, Silent
<1> QED
  BY <1>1, <1>2 DEF Result

LEMMA ReplyType ==
  ASSUME IndInv, Next
  PROVE  reply'.ans \in Answers \cup {"NONE"}
BY NextInd DEF IndInv, TypeOK

\* What Deliver does to one client
LEMMA Delivered ==
  ASSUME SysTypeOK, NEW c \in Client \cup {NoClient}, Deliver(c), NEW d \in Client
  PROVE  /\ queue'[d] = IF pub' # NoResult /\ Subscribed(d) THEN Append(queue[d], pub') ELSE queue[d]
         /\ cpc'[d] = IF srv' # "up" /\ Subscribed(d) THEN "failed"
                      ELSE IF srv' # "up" /\ cpc[d] = "leaving" THEN "done"
                      ELSE IF reply' # NoReply /\ d = c
                           THEN IF WaitPub(reply'.ans) THEN "reading" ELSE "refused"
                           ELSE cpc[d]
         /\ answer'[d] = IF reply' # NoReply /\ d = c THEN reply'.ans ELSE answer[d]
         /\ fresh'[d] = IF reply' # NoReply /\ d = c THEN queue[d] = <<>> ELSE fresh[d]
         /\ ask'[d] = ask[d] /\ got'[d] = got[d]
BY DEF Deliver, Up, SysTypeOK

LEMMA DeliverType ==
  ASSUME IndInv, SysTypeOK, NEW c \in Client \cup {NoClient}, Next, Deliver(c)
  PROVE  SysTypeOK'
<1>1. /\ ask' \in [Client -> Request] /\ who' \in Client \cup {NoClient}
      /\ got' \in [Client -> Result \cup {NoResult}]
  BY DEF Deliver, SysTypeOK
<1>2. cpc' \in [Client -> ClientPcs]
  <2>1. DOMAIN cpc' = Client /\ cpc' = [d \in Client |-> cpc'[d]]
    BY DEF Deliver
  <2>2. \A d \in Client : cpc'[d] \in ClientPcs
    BY Delivered DEF SysTypeOK, ClientPcs
  <2> QED
    BY <2>1, <2>2
<1>3. ASSUME NEW d \in Client PROVE queue'[d] \in Seq(Result)
  <2>1. queue[d] \in Seq(Result)
    BY DEF SysTypeOK
  <2>2. queue'[d] = queue[d] \/ (pub' \in Result /\ queue'[d] = Append(queue[d], pub'))
    BY Delivered, ResultType
  <2> QED
    BY <2>1, <2>2
<1>4. queue' \in [Client -> Seq(Result)]
  BY <1>3 DEF Deliver
<1>5. answer' \in [Client -> Answers \cup {"NONE"}]
  BY ReplyType DEF Deliver, SysTypeOK
<1>6. fresh' \in [Client -> BOOLEAN]
  BY DEF Deliver, SysTypeOK
<1> QED
  BY <1>1, <1>2, <1>4, <1>5, <1>6 DEF SysTypeOK

LEMMA ClientType ==
  ASSUME SysTypeOK, NEW c \in Client, ClientStep(c)
  PROVE  SysTypeOK'
<1>1. CASE Subscribe(c) \/ Send(c)
  BY <1>1 DEF Subscribe, Send, SysTypeOK, ClientPcs
<1>2. CASE ReadResult(c)
  <2>1. queue[c] \in Seq(Result) /\ queue[c] # <<>>
    BY <1>2 DEF ReadResult, SysTypeOK
  <2>2. Head(queue[c]) \in Result /\ Tail(queue[c]) \in Seq(Result)
    BY <2>1
  <2>3. queue' \in [Client -> Seq(Result)] /\ got' \in [Client -> Result \cup {NoResult}]
    BY <1>2, <2>2 DEF ReadResult, SysTypeOK
  <2>4. cpc' \in [Client -> ClientPcs]
    BY <1>2 DEF ReadResult, SysTypeOK, ClientPcs
  <2> QED
    BY <1>2, <2>3, <2>4 DEF ReadResult, SysTypeOK
<1> QED
  BY <1>1, <1>2 DEF ClientStep

-----------------------------------------------------------------------------
(* The client being served *)

LEMMA ServedStep ==
  ASSUME SysInv, SysNext
  PROVE  ServedInv'
<1>1. IndInv'
  BY StepsAreServerSteps, NextInd, StutterInd DEF SysInv
<1>2. mpc' # "receive" => srv' = "up"
  BY <1>1 DEF IndInv, HandleInv
<1>3. ASSUME NEW c \in Client, ClientStep(c) PROVE ServedInv'
  <2>1. UNCHANGED <<mpc, req, who, ask>>
    BY <1>3 DEF ClientStep, Subscribe, Send, ReadResult, vars, mainVars
  <2>2. \A d \in Client : cpc[d] = "asked" => cpc'[d] = "asked"
    BY <1>3 DEF ClientStep, Subscribe, Send, ReadResult, SysInv, SysTypeOK
  <2> QED
    BY <2>1, <2>2 DEF SysInv, ServedInv
<1>4. ASSUME NEW c \in Client \cup {NoClient}, Deliver(c), c \in Client => cpc[c] = "asked",
             mpc' # "receive" => c \in Client /\ req' = ask[c] /\ reply' = NoReply
      PROVE  ServedInv'
  <2>1. who' \in Client => who' = c /\ reply' = NoReply /\ srv' = "up"
    BY <1>4, SystemConstants DEF Deliver, Up
  <2>2. who' \in Client => cpc'[who'] = "asked"
    BY <1>4, <2>1, Delivered DEF SysInv
  <2>3. mpc' # "receive" => who' \in Client /\ req' = ask'[who']
    BY <1>2, <1>4 DEF Deliver, Up
  <2> QED
    BY <2>2, <2>3 DEF ServedInv
<1>5. who \in Client \cup {NoClient} /\ (who \in Client => cpc[who] = "asked")
  BY DEF SysInv, SysTypeOK, ServedInv
<1>6. ASSUME NEW c \in Client, Serve(c) PROVE ServedInv'
  <2>1. ask[c] \in Request
    BY DEF SysInv, SysTypeOK
  <2> QED
    BY <1>4, <1>6, <2>1, HandleTells DEF Serve
<1>7. CASE ServerMain
  BY <1>4, <1>5, <1>7, MainTells DEF ServerMain, SysInv, ServedInv
<1>8. ASSUME Work \/ Outside
      PROVE  mpc' # "receive" => mpc' = mpc /\ req' = req
  BY <1>8 DEF Work, WorkStep, ReuseJob, LaunchJob, PushJob, NextToWait, WaitJob, NoMoreJobs,
     StartMerge, MergeListFails, PublishMerge, ReadResultFails, EraseEntry, EndWorker,
     WorkerDangles, Die, Outside, EndJob, EndMerge, OrphanWrites, OrphanEnds, Kill, Restart,
     mainVars
<1>9. CASE ServerWork \/ Environment
  BY <1>4, <1>5, <1>8, <1>9, WorkQuiet, OutsideQuiet, EnvironmentSteps
     DEF ServerWork, Silent, SysInv, ServedInv
<1>10. ASSUME NEW c \in Client, StartServer(c) PROVE ServedInv'
  BY <1>10 DEF StartServer, Restart, mainVars, clientVars, SysInv, ServedInv
<1> QED
  BY <1>3, <1>6, <1>7, <1>9, <1>10 DEF SysNext, Environment

LEMMA SysInductive == SysInv /\ [SysNext]_sysVars => SysInv'
<1> SUFFICES ASSUME SysInv, [SysNext]_sysVars PROVE SysInv'
  OBVIOUS
<1>1. CASE UNCHANGED sysVars
  BY <1>1, StutterInd DEF sysVars, clientVars, vars, mainVars, SysInv, SysTypeOK, ServedInv
<1>2. CASE SysNext
  <2>1. IndInv'
    BY <1>2, StepsAreServerSteps, NextInd, StutterInd DEF SysInv
  <2>2. who \in Client \cup {NoClient}
    BY DEF SysInv, SysTypeOK
  <2>3. ASSUME NEW c \in Client, Serve(c) PROVE Next /\ Deliver(c)
    BY <2>3 DEF Serve, Next, SysInv, SysTypeOK
  <2>4. ASSUME NEW c \in Client, StartServer(c) PROVE SysTypeOK'
    BY <2>4 DEF StartServer, clientVars, SysInv, SysTypeOK
  <2>5. ASSUME Environment PROVE SysTypeOK'
    BY <2>2, <2>5, DeliverType, EnvironmentSteps DEF SysInv, Next
  <2>6. SysTypeOK'
    BY <1>2, <2>2, <2>3, <2>4, <2>5, DeliverType, ClientType
       DEF SysNext, SysInv, ServerMain, ServerWork, Environment, Next
  <2> QED
    BY <1>2, <2>1, <2>6, ServedStep DEF SysInv
<1> QED
  BY <1>1, <1>2

LEMMA SysInitInv == SysInit => SysInv
<1> SUFFICES ASSUME SysInit PROVE SysInv
  OBVIOUS
<1>1. IndInv
  BY InitInd DEF SysInit
<1>2. queue \in [Client -> Seq(Result)]
  BY DEF SysInit
<1> QED
  BY <1>1, <1>2, SystemConstants
     DEF SysInit, Init, SysInv, SysTypeOK, ServedInv, ClientPcs, Result

\* Every variable of the clients keeps its type: no queue receives what is not a
\* result, and every answer is one a client knows
THEOREM SystemTypes == SysSpec => []SysTypeOK
<1>1. SysInv => SysTypeOK
  BY DEF SysInv
<1> QED
  BY <1>1, SysInitInv, SysInductive, PTL DEF SysSpec

-----------------------------------------------------------------------------
(* The results a client reads are its own *)

LEMMA OwnClient ==
  ASSUME SysTypeOK, NEW c \in Client, ClientStep(c), NEW d \in Client, OwnInv(d)
  PROVE  OwnInv(d)'
<1>1. UNCHANGED <<wpc, sim, answer, fresh, ask>>
  BY DEF ClientStep, Subscribe, Send, ReadResult, vars, workVars
<1>2. CASE Subscribe(c) \/ Send(c)
  <2>1. UNCHANGED <<queue, got>> /\ cpc' = [cpc EXCEPT ![c] = cpc'[c]]
        /\ cpc[c] \in {"idle", "subscribed"} /\ cpc'[c] \in {"subscribed", "asked"}
    BY <1>2 DEF Subscribe, Send, SysTypeOK
  <2>2. cpc'[d] = cpc[d] \/ (cpc[d] \in {"idle", "subscribed"} /\ cpc'[d] \in {"subscribed", "asked"})
    BY <2>1 DEF SysTypeOK
  <2> QED
    BY <1>1, <2>1, <2>2 DEF OwnInv, Started, OwnQueue, Publishing
<1>3. CASE ReadResult(c) /\ c # d
  <2>1. queue'[d] = queue[d] /\ got'[d] = got[d] /\ cpc'[d] = cpc[d]
    BY <1>3 DEF ReadResult, SysTypeOK
  <2> QED
    BY <1>1, <2>1 DEF OwnInv, Started, OwnQueue, Publishing
<1>4. CASE ReadResult(c) /\ c = d
  <2>1. /\ cpc[d] = "reading" /\ queue[d] # <<>>
        /\ got'[d] = Head(queue[d]) /\ queue'[d] = Tail(queue[d])
        /\ cpc'[d] = IF Head(queue[d]).status = "RUNNING" THEN "reading" ELSE "leaving"
    BY <1>4 DEF ReadResult, SysTypeOK
  <2>2. CASE Started(d) /\ Head(queue[d]).status = "RUNNING"
    <3>1. queue[d] \in Seq(Result)
      BY DEF SysTypeOK
    <3>2. /\ Len(queue'[d]) = Len(queue[d]) - 1 /\ Len(queue[d]) \in Nat \ {0}
          /\ \A k \in 1 .. Len(queue'[d]) : queue'[d][k] = queue[d][k + 1]
          /\ Head(queue[d]) = queue[d][1]
      BY <2>1, <3>1
    <3>3. OwnQueue(d)
      BY <2>1, <2>2 DEF OwnInv
    <3>4. got'[d].hash = ask[d].hash
      BY <2>1, <3>2, <3>3 DEF OwnQueue
    <3>5. ASSUME NEW k \in 1 .. Len(queue'[d]),
                 \A j \in 1 .. (k - 1) : queue'[d][j].status = "RUNNING"
          PROVE  queue'[d][k].hash = ask[d].hash
      <4>1. k + 1 \in 1 .. Len(queue[d])
        BY <3>2
      <4>2. ASSUME NEW j \in 1 .. ((k + 1) - 1) PROVE queue[d][j].status = "RUNNING"
        <5>1. CASE j = 1
          BY <2>2, <3>2, <5>1
        <5>2. CASE j # 1
          <6>1. j - 1 \in 1 .. (k - 1) /\ j - 1 \in 1 .. Len(queue'[d]) /\ (j - 1) + 1 = j
            BY <3>2, <5>2
          <6> QED
            BY <3>2, <3>5, <6>1
        <5> QED
          BY <5>1, <5>2
      <4> QED
        BY <3>2, <3>3, <4>1, <4>2 DEF OwnQueue
    <3>6. ASSUME \A j \in 1 .. Len(queue'[d]) : queue'[d][j].status = "RUNNING"
          PROVE  Publishing /\ sim.hash = ask[d].hash
      <4>1. ASSUME NEW j \in 1 .. Len(queue[d]) PROVE queue[d][j].status = "RUNNING"
        <5>1. CASE j = 1
          BY <2>2, <3>2, <5>1
        <5>2. CASE j # 1
          <6>1. j - 1 \in 1 .. Len(queue'[d]) /\ (j - 1) + 1 = j
            BY <3>2, <5>2
          <6> QED
            BY <3>2, <3>6, <6>1
        <5> QED
          BY <5>1, <5>2
      <4> QED
        BY <3>3, <4>1 DEF OwnQueue
    <3>7. OwnQueue(d)'
      BY <1>1, <3>5, <3>6 DEF OwnQueue, Publishing
    <3> QED
      BY <1>1, <2>1, <2>2, <3>4, <3>7 DEF OwnInv, Started
  <2>3. CASE Started(d) /\ Head(queue[d]).status # "RUNNING"
    <3>1. queue[d] \in Seq(Result)
      BY DEF SysTypeOK
    <3>2. Len(queue[d]) \in Nat \ {0} /\ Head(queue[d]) = queue[d][1]
      BY <2>1, <3>1
    <3>3. got'[d].hash = ask[d].hash
      BY <2>1, <2>3, <3>2 DEF OwnInv, OwnQueue
    <3> QED
      BY <1>1, <2>1, <2>3, <3>3 DEF OwnInv, Started
  <2>4. CASE ~Started(d)
    BY <1>1, <2>1, <2>4 DEF OwnInv, Started
  <2> QED
    BY <2>2, <2>3, <2>4
<1> QED
  BY <1>2, <1>3, <1>4 DEF ClientStep

\* Without tests only the worker publishes
LEMMA OnlyWorkerPublishes ==
  ASSUME 0 \notin Ncount, IndInv, Next, pub' # NoResult
  PROVE  /\ Publishing /\ pub'.hash = sim.hash
         /\ pub'.status = "RUNNING" => Publishing' /\ sim' = sim
<1>1. ASSUME NEW r \in Request, Handle(r) PROVE FALSE
  BY <1>1, HandleTells DEF Request
<1> QED
  BY <1>1, MainQuiet, OutsideQuiet, WorkPublishes DEF Next, Silent

\* The queue of a client while the server goes on
LEMMA QueueGoesOn ==
  ASSUME 0 \notin Ncount, IndInv, SysTypeOK, Next, srv' = "up", NEW d \in Client, OwnQueue(d),
         ask'[d] = ask[d],
         queue'[d] = IF pub' # NoResult THEN Append(queue[d], pub') ELSE queue[d]
  PROVE  OwnQueue(d)'
<1>1. queue[d] \in Seq(Result) /\ Len(queue[d]) \in Nat
  BY DEF SysTypeOK
<1>2. CASE pub' = NoResult
  BY <1>2, PublishingGoesOn DEF OwnQueue
<1>3. CASE pub' # NoResult
  <2>1. pub' \in Result
    BY <1>3, ResultType
  <2>2. /\ Len(queue'[d]) = Len(queue[d]) + 1
        /\ \A k \in 1 .. Len(queue[d]) : queue'[d][k] = queue[d][k]
        /\ queue'[d][Len(queue[d]) + 1] = pub'
    BY <1>1, <1>3, <2>1
  <2>3. ASSUME NEW k \in 1 .. Len(queue'[d]),
               \A j \in 1 .. (k - 1) : queue'[d][j].status = "RUNNING"
        PROVE  queue'[d][k].hash = ask[d].hash
    <3>1. \A j \in 1 .. (k - 1) : queue[d][j].status = "RUNNING"
      <4> SUFFICES ASSUME NEW j \in 1 .. (k - 1) PROVE queue[d][j].status = "RUNNING"
        OBVIOUS
      <4>1. j \in 1 .. Len(queue[d])
        BY <1>1, <2>2
      <4> QED
        BY <2>2, <2>3, <4>1
    <3>2. CASE k \in 1 .. Len(queue[d])
      BY <2>2, <3>1, <3>2 DEF OwnQueue
    <3>3. CASE k = Len(queue[d]) + 1
      <4>1. \A j \in 1 .. Len(queue[d]) : queue[d][j].status = "RUNNING"
        BY <1>1, <3>1, <3>3
      <4>2. sim.hash = ask[d].hash
        BY <4>1 DEF OwnQueue
      <4> QED
        BY <1>3, <2>2, <3>3, <4>2, OnlyWorkerPublishes
    <3> QED
      BY <1>1, <2>2, <3>2, <3>3
  <2>4. ASSUME \A j \in 1 .. Len(queue'[d]) : queue'[d][j].status = "RUNNING"
        PROVE  Publishing' /\ sim'.hash = ask[d].hash
    <3>1. pub'.status = "RUNNING"
      BY <1>1, <2>2, <2>4
    <3>2. \A j \in 1 .. Len(queue[d]) : queue[d][j].status = "RUNNING"
      BY <1>1, <2>2, <2>4
    <3> QED
      BY <1>3, <3>1, <3>2, OnlyWorkerPublishes DEF OwnQueue
  <2> QED
    BY <2>3, <2>4 DEF OwnQueue
<1> QED
  BY <1>2, <1>3

LEMMA OwnDeliver ==
  ASSUME 0 \notin Ncount, SysInv, NEW c \in Client \cup {NoClient}, Next, Deliver(c),
         c \in Client => cpc[c] = "asked",
         reply'.ans = "ansSTARTING" => Start /\ c = who,
         NEW d \in Client, OwnInv(d)
  PROVE  OwnInv(d)'
<1>1. IndInv /\ SysTypeOK /\ ServedInv
  BY DEF SysInv
<1>2. CASE reply' # NoReply /\ d = c
  <2>1. /\ cpc'[d] \in {"failed", "done", "reading", "refused"}
        /\ answer'[d] = reply'.ans /\ got'[d] = NoResult /\ ask'[d] = ask[d]
        /\ fresh'[d] <=> queue[d] = <<>>
    BY <1>1, <1>2, Delivered DEF OwnInv
  <2>2. ASSUME Started(d)' PROVE OwnQueue(d)'
    <3>1. Start /\ c = who
      BY <2>1, <2>2 DEF Started
    <3>2. req = ask[d]
      BY <1>1, <1>2, <3>1 DEF Start, ServedInv
    <3>3. Publishing' /\ sim'.hash = ask'[d].hash
      BY <2>1, <3>1, <3>2 DEF Start, Publishing
    <3>4. queue[d] = <<>> /\ pub' = NoResult
      BY <2>1, <2>2, <3>1 DEF Started, Start
    <3>5. Len(queue'[d]) = 0
      BY <1>1, <3>4, Delivered
    <3> QED
      BY <3>3, <3>5 DEF OwnQueue
  <2> QED
    BY <2>1, <2>2 DEF OwnInv
<1>3. CASE ~(reply' # NoReply /\ d = c)
  <2>1. /\ cpc'[d] = (IF srv' # "up" /\ Subscribed(d) THEN "failed"
                      ELSE IF srv' # "up" /\ cpc[d] = "leaving" THEN "done" ELSE cpc[d])
        /\ answer'[d] = answer[d] /\ fresh'[d] = fresh[d] /\ got'[d] = got[d] /\ ask'[d] = ask[d]
    BY <1>1, <1>3, Delivered
  <2>2. ASSUME Started(d), cpc'[d] = "reading" PROVE OwnQueue(d)'
    <3>1. cpc[d] = "reading" /\ srv' = "up" /\ Subscribed(d)
      BY <2>1, <2>2 DEF Subscribed
    <3>2. queue'[d] = IF pub' # NoResult THEN Append(queue[d], pub') ELSE queue[d]
      BY <1>1, <3>1, Delivered
    <3> QED
      BY <1>1, <2>1, <2>2, <3>1, <3>2, QueueGoesOn DEF OwnInv
  <2> QED
    BY <2>1, <2>2 DEF OwnInv, Started
<1> QED
  BY <1>2, <1>3

LEMMA OwnStep ==
  ASSUME 0 \notin Ncount, SysInv, [SysNext]_sysVars, \A d \in Client : OwnInv(d)
  PROVE  \A d \in Client : OwnInv(d)'
<1> SUFFICES ASSUME NEW d \in Client PROVE OwnInv(d)'
  OBVIOUS
<1>1. SysTypeOK /\ OwnInv(d) /\ who \in Client \cup {NoClient}
      /\ (who \in Client => cpc[who] = "asked")
  BY DEF SysInv, SysTypeOK, ServedInv
<1>2. CASE UNCHANGED sysVars
  BY <1>1, <1>2 DEF sysVars, clientVars, vars, workVars, OwnInv, Started, OwnQueue, Publishing
<1>3. ASSUME NEW c \in Client, ClientStep(c) PROVE OwnInv(d)'
  BY <1>1, <1>3, OwnClient
<1>4. ASSUME NEW c \in Client, Serve(c) PROVE OwnInv(d)'
  <2>1. ask[c] \in Request /\ Handle(ask[c]) /\ Deliver(c) /\ cpc[c] = "asked"
    BY <1>1, <1>4 DEF Serve, SysTypeOK
  <2>2. Next
    BY <2>1 DEF Next
  <2>3. reply'.ans # "ansSTARTING"
    BY <2>1, HandleTells DEF NoReply
  <2> QED
    BY <1>1, <2>1, <2>2, <2>3, OwnDeliver
<1>5. CASE ServerMain
  BY <1>1, <1>5, MainTells, OwnDeliver DEF ServerMain, Next
<1>6. CASE ServerWork \/ Environment
  <2>1. Next /\ Deliver(who) /\ reply'.ans # "ansSTARTING"
    BY <1>6, WorkQuiet, OutsideQuiet, EnvironmentSteps DEF ServerWork, Silent, NoReply, Next
  <2> QED
    BY <1>1, <2>1, OwnDeliver
<1>7. ASSUME NEW c \in Client, StartServer(c) PROVE OwnInv(d)'
  BY <1>1, <1>7 DEF StartServer, Restart, clientVars, workVars, OwnInv, Started, OwnQueue, Publishing
<1> QED
  BY <1>2, <1>3, <1>4, <1>5, <1>6, <1>7 DEF SysNext, Environment

\* Where no client asks for a test, whose result carries no mark either, a client
\* told that its simulation starts reads its own results only, for every number of
\* clients that ask, stop and clear, and that stop and start the server
THEOREM OwnResults == 0 \notin Ncount => (SysSpec => []OwnIfFresh)
<1> SUFFICES ASSUME 0 \notin Ncount PROVE SysSpec => []OwnIfFresh
  OBVIOUS
<1> DEFINE AllOwn == \A d \in Client : OwnInv(d)
<1>1. SysInit => AllOwn
  BY DEF SysInit, OwnInv, Started
<1>2. SysInv /\ AllOwn /\ [SysNext]_sysVars => AllOwn'
  BY OwnStep
<1>3. AllOwn => OwnIfFresh
  BY DEF OwnIfFresh, OwnInv, Started
<1> QED
  BY <1>1, <1>2, <1>3, SysInitInv, SysInductive, PTL DEF SysSpec

-----------------------------------------------------------------------------
(* The system contains the server, and keeps the promises of the service       *)

\* What the server does among its clients it could do alone: whatever is proved
\* of the server holds in the system
THEOREM ContainsServer == SysSpec => Spec
<1>1. SysInit => Init
  BY DEF SysInit
<1>2. [SysNext]_sysVars => [Next]_vars
  BY StepsAreServerSteps DEF sysVars
<1> QED
  BY <1>1, <1>2, PTL DEF SysSpec, Spec

\* Clients that subscribe, ask and read at any time get the service: an abstract
\* server without threads, applications or files
THEOREM SystemServes == SysSpec => ImplementsService
BY ContainsServer, Refinement

-----------------------------------------------------------------------------
(* What a client is shown only grows: the service publishes what it has, which *)
(* grows while its simulation publishes, and the queue keeps the order         *)

AllRunning(q, n) == \A j \in 1 .. n : q[j].status = "RUNNING"

\* Each result still to be read contains those before it, and the service has
\* what the last one contains
GrowQueue(c) ==
  LET q == queue[c]
  IN  /\ \A k \in 1 .. Len(q) : AllRunning(q, k - 1) /\ q[k].status # "FAILURE" =>
           /\ got[c].jobs \subseteq q[k].jobs
           /\ \A j \in 1 .. (k - 1) : q[j].jobs \subseteq q[k].jobs
      /\ AllRunning(q, Len(q)) =>
           /\ got[c].jobs \subseteq haveOf
           /\ \A j \in 1 .. Len(q) : q[j].jobs \subseteq haveOf

GrowInv(c) == Started(c) /\ cpc[c] = "reading" => GrowQueue(c)

\* While a simulation publishes the service loses nothing it has
LEMMA ServiceKeeps ==
  ASSUME Service!Next, producerOf # NoHash, producerOf' = producerOf
  PROVE  haveOf \subseteq haveOf'
BY DEF Service!Next, Service!Begin, Service!Busy, Service!Aside, Service!Progress, Service!Partial,
   Service!Final, Service!Release, Service!Stop, Service!Crash, Service!Idle

\* A result of a simulation that does not say FAILURE is all the service has
LEMMA ServicePublishes ==
  ASSUME Service!Next, pub' # NoResult, pub'.hash # NoHash, pub'.status # "FAILURE"
  PROVE  pub'.jobs = haveOf
BY DEF NoResult, Service!Next, Service!Begin, Service!Busy, Service!Aside, Service!Progress,
   Service!Partial, Service!Final, Service!Release, Service!Stop, Service!Crash, Service!Idle,
   Service!Quiet, Service!Answer, Service!Publish, Service!NoResult

LEMMA SameProducer ==
  ASSUME IndInv, Publishing, Publishing', sim' = sim
  PROVE  producerOf # NoHash /\ producerOf' = producerOf
BY ServerConstants DEF producerOf, Publishing, IndInv, LoopInv

\* The queue of a client while the server goes on
LEMMA QueueGrows ==
  ASSUME 0 \notin Ncount, IndInv, SysTypeOK, Next, Service!Next, srv' = "up", NEW d \in Client,
         OwnQueue(d), GrowQueue(d), got'[d] = got[d],
         queue'[d] = IF pub' # NoResult THEN Append(queue[d], pub') ELSE queue[d]
  PROVE  GrowQueue(d)'
<1> DEFINE q == queue[d]
           n == Len(queue[d])
<1>1. q \in Seq(Result) /\ n \in Nat
  BY DEF SysTypeOK
<1>2. AllRunning(q, n) => Publishing
  BY DEF OwnQueue, AllRunning
<1>3. CASE pub' = NoResult
  <2>1. AllRunning(q, n) => haveOf \subseteq haveOf'
    BY <1>2, <1>3, PublishingGoesOn, SameProducer, ServiceKeeps
  <2>2. queue'[d] = q
    BY <1>3
  <2> QED
    BY <2>1, <2>2 DEF GrowQueue, AllRunning
<1>4. CASE pub' # NoResult
  <2>1. pub' \in Result /\ pub'.hash = sim.hash /\ Publishing
        /\ (pub'.status = "RUNNING" => Publishing' /\ sim' = sim)
    BY <1>4, ResultType, OnlyWorkerPublishes
  <2>2. pub'.hash # NoHash
    BY <2>1, ServerConstants DEF Publishing, IndInv, LoopInv
  <2>3. pub'.status # "FAILURE" => pub'.jobs = haveOf
    BY <1>4, <2>2, ServicePublishes
  <2>4. pub'.status = "RUNNING" => haveOf \subseteq haveOf'
    BY <2>1, SameProducer, ServiceKeeps
  <2> DEFINE r == queue'[d]
  <2>5. /\ Len(r) = n + 1 /\ r[n + 1] = pub'
        /\ \A k \in 1 .. n : r[k] = q[k]
    BY <1>1, <1>4, <2>1
  <2> HIDE DEF r
  <2>6. \A k \in 0 .. n : AllRunning(r, k) <=> AllRunning(q, k)
    BY <1>1, <2>5 DEF AllRunning
  <2>7. ASSUME NEW k \in 1 .. Len(r), AllRunning(r, k - 1), r[k].status # "FAILURE"
        PROVE  got[d].jobs \subseteq r[k].jobs /\ \A j \in 1 .. (k - 1) : r[j].jobs \subseteq r[k].jobs
    <3>1. k \in 1 .. n \/ k = n + 1
      BY <1>1, <2>5
    <3>2. AllRunning(q, k - 1) /\ \A j \in 1 .. (k - 1) : r[j] = q[j]
      BY <1>1, <2>5, <2>6, <2>7
    <3>3. CASE k \in 1 .. n
      <4>1. r[k] = q[k]
        BY <2>5, <3>3
      <4> QED
        BY <2>7, <3>2, <3>3, <4>1 DEF GrowQueue
    <3>4. CASE k = n + 1
      <4>1. r[k].jobs = haveOf /\ k - 1 = n
        BY <1>1, <2>3, <2>5, <2>7, <3>4
      <4> QED
        BY <3>2, <4>1 DEF GrowQueue
    <3> QED
      BY <3>1, <3>3, <3>4
  <2>8. ASSUME AllRunning(r, Len(r))
        PROVE  got[d].jobs \subseteq haveOf' /\ \A j \in 1 .. Len(r) : r[j].jobs \subseteq haveOf'
    <3>1. pub'.status = "RUNNING" /\ AllRunning(q, n)
      BY <1>1, <2>5, <2>8 DEF AllRunning
    <3>2. got[d].jobs \subseteq haveOf /\ \A j \in 1 .. n : q[j].jobs \subseteq haveOf
      BY <3>1 DEF GrowQueue
    <3>3. \A j \in 1 .. Len(r) : j \in 1 .. n \/ r[j].jobs = haveOf
      BY <1>1, <2>3, <2>5, <3>1
    <3> QED
      BY <2>4, <2>5, <3>1, <3>2, <3>3
  <2> QED
    BY <2>7, <2>8 DEF GrowQueue, r, AllRunning
<1> QED
  BY <1>3, <1>4

\* The queue of a client that reads
LEMMA ReadGrows ==
  ASSUME SysTypeOK, NEW d \in Client, ReadResult(d), Started(d), GrowQueue(d), cpc'[d] = "reading"
  PROVE  GrowQueue(d)'
<1> DEFINE q == queue[d]
           r == queue'[d]
           n == Len(queue[d])
<1>1. q \in Seq(Result) /\ q # <<>> /\ got'[d] = q[1] /\ q[1].status = "RUNNING" /\ r = Tail(q)
  BY DEF ReadResult, SysTypeOK
<1>2. /\ n \in Nat \ {0} /\ Len(r) = n - 1
      /\ \A k \in 1 .. Len(r) : r[k] = q[k + 1]
  BY <1>1
<1>3. haveOf' = haveOf
  BY DEF ReadResult, vars, workVars, haveOf, Publishing, ListedJobs
<1> HIDE DEF q, r
<1>4. ASSUME NEW k \in 1 .. (Len(r) + 1), AllRunning(r, k - 1) PROVE AllRunning(q, k)
  <2> SUFFICES ASSUME NEW j \in 1 .. k PROVE q[j].status = "RUNNING"
    BY DEF AllRunning
  <2>1. CASE j = 1
    BY <1>1, <2>1
  <2>2. CASE j # 1
    <3>1. j - 1 \in 1 .. (k - 1) /\ j - 1 \in 1 .. Len(r) /\ (j - 1) + 1 = j
      BY <1>2, <2>2
    <3> QED
      BY <1>2, <1>4, <3>1 DEF AllRunning
  <2> QED
    BY <2>1, <2>2
<1>5. /\ \A k \in 1 .. n : AllRunning(q, k - 1) /\ q[k].status # "FAILURE" =>
              \A j \in 1 .. (k - 1) : q[j].jobs \subseteq q[k].jobs
      /\ AllRunning(q, n) => \A j \in 1 .. n : q[j].jobs \subseteq haveOf
  BY DEF GrowQueue, q
<1>6. ASSUME NEW k \in 1 .. Len(r), AllRunning(r, k - 1), r[k].status # "FAILURE"
      PROVE  q[1].jobs \subseteq r[k].jobs /\ \A j \in 1 .. (k - 1) : r[j].jobs \subseteq r[k].jobs
  <2>1. k + 1 \in 1 .. n /\ r[k] = q[k + 1] /\ (k + 1) - 1 = k /\ 1 \in 1 .. k
    BY <1>2
  <2>2. AllRunning(q, k)
    BY <1>4, <1>6
  <2>3. \A j \in 1 .. k : q[j].jobs \subseteq r[k].jobs
    BY <1>5, <1>6, <2>1, <2>2
  <2>4. \A j \in 1 .. (k - 1) : j + 1 \in 1 .. k /\ r[j] = q[j + 1]
    BY <1>2
  <2> QED
    BY <2>1, <2>3, <2>4
<1>7. ASSUME AllRunning(r, Len(r))
      PROVE  q[1].jobs \subseteq haveOf /\ \A j \in 1 .. Len(r) : r[j].jobs \subseteq haveOf
  <2>1. AllRunning(q, n)
    <3>1. Len(r) + 1 = n /\ n \in 1 .. (Len(r) + 1) /\ n - 1 = Len(r)
      BY <1>2
    <3> QED
      BY <1>4, <1>7, <3>1
  <2>2. 1 \in 1 .. n /\ \A j \in 1 .. Len(r) : j + 1 \in 1 .. n
    BY <1>2
  <2> QED
    BY <1>2, <1>5, <2>1, <2>2
<1> QED
  BY <1>1, <1>3, <1>6, <1>7 DEF GrowQueue, AllRunning, r

LEMMA GrowDeliver ==
  ASSUME 0 \notin Ncount, SysInv, NEW c \in Client \cup {NoClient}, Next, Service!Next, Deliver(c),
         c \in Client => cpc[c] = "asked",
         reply'.ans = "ansSTARTING" => Start,
         NEW d \in Client, OwnInv(d), GrowInv(d)
  PROVE  GrowInv(d)'
<1>1. IndInv /\ SysTypeOK /\ got'[d] = got[d]
  BY Delivered DEF SysInv
<1>2. SUFFICES ASSUME Started(d)', cpc'[d] = "reading" PROVE GrowQueue(d)'
  BY DEF GrowInv
<1>3. CASE reply' # NoReply /\ d = c
  <2>1. reply'.ans = "ansSTARTING" /\ queue[d] = <<>> /\ got[d] = NoResult
    BY <1>1, <1>2, <1>3, Delivered DEF Started, OwnInv
  <2>2. pub' = NoResult
    BY <2>1 DEF Start
  <2>3. Len(queue'[d]) = 0
    BY <1>1, <2>1, <2>2, Delivered
  <2>4. got'[d].jobs = {}
    BY <1>1, <2>1 DEF NoResult
  <2> QED
    BY <2>3, <2>4 DEF GrowQueue
<1>4. CASE ~(reply' # NoReply /\ d = c)
  <2>1. /\ cpc'[d] = (IF srv' # "up" /\ Subscribed(d) THEN "failed"
                      ELSE IF srv' # "up" /\ cpc[d] = "leaving" THEN "done" ELSE cpc[d])
        /\ answer'[d] = answer[d] /\ fresh'[d] = fresh[d]
    BY <1>1, <1>4, Delivered
  <2>2. cpc[d] = "reading" /\ srv' = "up" /\ Subscribed(d) /\ Started(d)
    BY <1>2, <2>1 DEF Subscribed, Started
  <2>3. queue'[d] = IF pub' # NoResult THEN Append(queue[d], pub') ELSE queue[d]
    BY <1>1, <2>2, Delivered
  <2> QED
    BY <1>1, <2>2, <2>3, QueueGrows DEF OwnInv, GrowInv
<1> QED
  BY <1>3, <1>4

LEMMA GrowClient ==
  ASSUME SysTypeOK, NEW c \in Client, ClientStep(c), NEW d \in Client, GrowInv(d)
  PROVE  GrowInv(d)'
<1>1. UNCHANGED <<answer, fresh>> /\ haveOf' = haveOf
  BY DEF ClientStep, Subscribe, Send, ReadResult, vars, workVars, haveOf, Publishing, ListedJobs
<1>2. CASE Subscribe(c) \/ Send(c)
  <2>1. UNCHANGED <<queue, got>> /\ (cpc'[d] = "reading" => cpc[d] = "reading")
    BY <1>2 DEF Subscribe, Send, SysTypeOK
  <2> QED
    BY <1>1, <2>1 DEF GrowInv, Started, GrowQueue, AllRunning
<1>3. CASE ReadResult(c) /\ c # d
  <2>1. queue'[d] = queue[d] /\ got'[d] = got[d] /\ cpc'[d] = cpc[d]
    BY <1>3 DEF ReadResult, SysTypeOK
  <2> QED
    BY <1>1, <2>1 DEF GrowInv, Started, GrowQueue, AllRunning
<1>4. CASE ReadResult(d)
  BY <1>1, <1>4, ReadGrows DEF GrowInv, Started, ReadResult
<1> QED
  BY <1>2, <1>3, <1>4 DEF ClientStep

LEMMA GrowStep ==
  ASSUME 0 \notin Ncount, SysInv, ListedInv, StopReq, [SysNext]_sysVars,
         NEW d \in Client, OwnInv(d), GrowInv(d)
  PROVE  GrowInv(d)'
<1>1. SysTypeOK /\ IndInv /\ who \in Client \cup {NoClient}
      /\ (who \in Client => cpc[who] = "asked")
  BY DEF SysInv, SysTypeOK, ServedInv
<1>2. CASE UNCHANGED sysVars
  BY <1>2 DEF sysVars, clientVars, vars, workVars, GrowInv, Started, GrowQueue, AllRunning,
     haveOf, Publishing, ListedJobs
<1>3. ASSUME NEW c \in Client, ClientStep(c) PROVE GrowInv(d)'
  BY <1>1, <1>3, GrowClient
<1>4. ASSUME NEW c \in Client, Serve(c) PROVE GrowInv(d)'
  <2>1. ask[c] \in Request /\ Handle(ask[c]) /\ Deliver(c) /\ cpc[c] = "asked"
    BY <1>1, <1>4 DEF Serve, SysTypeOK
  <2>2. Next /\ Service!Next
    BY <1>1, <2>1, NextRefines DEF Next
  <2>3. reply'.ans # "ansSTARTING"
    BY <2>1, HandleTells DEF NoReply
  <2> QED
    BY <2>1, <2>2, <2>3, GrowDeliver
<1>5. CASE ServerMain \/ ServerWork \/ Environment
  <2>1. Next /\ Service!Next /\ Deliver(who)
    BY <1>1, <1>5, NextRefines, EnvironmentSteps DEF ServerMain, ServerWork, Next
  <2>2. reply'.ans = "ansSTARTING" => Start
    BY <1>5, MainTells, WorkQuiet, OutsideQuiet, EnvironmentSteps
       DEF ServerMain, ServerWork, Silent, NoReply
  <2> QED
    BY <1>1, <2>1, <2>2, GrowDeliver
<1>6. ASSUME NEW c \in Client, StartServer(c) PROVE GrowInv(d)'
  BY <1>1, <1>6 DEF StartServer, Restart, clientVars, workVars, GrowInv, Started, GrowQueue,
     AllRunning, haveOf, Publishing, ListedJobs
<1> QED
  BY <1>2, <1>3, <1>4, <1>5, <1>6 DEF SysNext, Environment

\* A client reads what its queue begins with
LEMMA ReadsLarger ==
  ASSUME SysInv, SysNext, NEW c \in Client, Started(c), GrowInv(c), got'[c] # got[c],
         got'[c].status # "FAILURE"
  PROVE  got[c].jobs \subseteq got'[c].jobs
<1>1. SysTypeOK
  BY DEF SysInv
<1>2. ReadResult(c)
  <2>1. ~(ServerMain \/ ServerWork \/ Environment) /\ \A d \in Client : ~Serve(d) /\ ~StartServer(d)
    BY EnvironmentSteps DEF ServerMain, ServerWork, Serve, Deliver, StartServer, clientVars
  <2>2. ASSUME NEW d \in Client, ClientStep(d), ~ReadResult(c) PROVE FALSE
    BY <1>1, <2>2 DEF ClientStep, Subscribe, Send, ReadResult, SysTypeOK
  <2> QED
    BY <2>1, <2>2 DEF SysNext, Environment
<1>3. cpc[c] = "reading" /\ queue[c] \in Seq(Result) /\ queue[c] # <<>>
  BY <1>1, <1>2 DEF ReadResult, SysTypeOK
<1>4. 1 \in 1 .. Len(queue[c]) /\ got'[c] = queue[c][1]
  BY <1>1, <1>2, <1>3 DEF ReadResult, SysTypeOK
<1>5. AllRunning(queue[c], 1 - 1)
  BY DEF AllRunning
<1> QED
  BY <1>3, <1>4, <1>5 DEF GrowInv, GrowQueue

\* Where no client asks for a test, the results a client reads for the simulation
\* it has started only grow, for every number of clients, jobs and seeds, with
\* STOP and CLEAR, and with clients that stop and start the server: what the
\* service promises reaches the client
THEOREM ResultsGrow == 0 \notin Ncount => (SysSpec => GrowIfFresh)
<1> SUFFICES ASSUME 0 \notin Ncount PROVE SysSpec => GrowIfFresh
  OBVIOUS
<1> DEFINE AllOwn  == \A d \in Client : OwnInv(d)
           AllGrow == \A d \in Client : GrowInv(d)
           Larger  == \A c \in Client :
              answer[c] = "ansSTARTING" /\ fresh[c] /\ got'[c] # got[c] /\ got'[c].status # "FAILURE"
                => got[c].jobs \subseteq got'[c].jobs
<1>1. SysInit => AllOwn /\ AllGrow /\ ListedInv /\ StopReq
  BY InitRefines DEF SysInit, OwnInv, GrowInv, Started
<1>2. SysInv /\ AllOwn /\ AllGrow /\ ListedInv /\ StopReq /\ [SysNext]_sysVars
        => AllOwn' /\ AllGrow' /\ ListedInv' /\ StopReq'
  <2> SUFFICES ASSUME SysInv, AllOwn, AllGrow, ListedInv, StopReq, [SysNext]_sysVars
               PROVE  AllOwn' /\ AllGrow' /\ ListedInv' /\ StopReq'
    OBVIOUS
  <2>1. ListedInv' /\ StopReq'
    BY StepsAreServerSteps, ListedStep, StopReqStep DEF SysInv, sysVars
  <2> QED
    BY <2>1, OwnStep, GrowStep
<1>3. SysInv /\ AllGrow /\ [SysNext]_sysVars => [Larger]_sysVars
  BY ReadsLarger DEF Started
<1> QED
  BY <1>1, <1>2, <1>3, SysInitInv, SysInductive, PTL DEF SysSpec, GrowIfFresh
=============================================================================
