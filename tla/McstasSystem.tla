---------------------------- MODULE McstasSystem ----------------------------
(***************************************************************************)
(* The server together with its clients, fakeNomad.cpp.  A client starts   *)
(* the server if there is none, subscribes to its one publisher, sends one *)
(* request, and if the answer says so reads the publisher until a result   *)
(* does not say RUNNING; then it stops the server, whoever else uses it.   *)
(* Nothing else starts or stops it here.  The responder treats one request *)
(* at a time; the publisher sends every result to every subscriber, in     *)
(* order.  A result carries no mark of the request it belongs to: pub.hash *)
(* is for the properties only.                                             *)
(***************************************************************************)
EXTENDS McstasServer

CONSTANTS
  Client,   \* the clients; each sends one request
  NoClient  \* the server is treating no request

ASSUME SystemConstants == NoClient \notin Client /\ CanKill

VARIABLES
  cpc,      \* idle, subscribed, asked, reading, leaving, done, refused or failed
  ask,      \* the request of each client
  queue,    \* results its subscriber has received and not yet read
  answer,   \* the answer it was given
  got,      \* the last result it has read
  fresh,    \* whether the queue was empty when the answer was given
  who       \* the client whose request the main thread is treating

clientVars == <<cpc, ask, queue, answer, got, fresh, who>>
sysVars    == <<vars, clientVars>>

SysInit ==
  /\ Init
  /\ cpc = [c \in Client |-> "idle"]
  /\ ask \in [Client -> Request]
  /\ queue = [c \in Client |-> <<>>]
  /\ answer = [c \in Client |-> "NONE"]
  /\ got = [c \in Client |-> NoResult]
  /\ fresh = [c \in Client |-> TRUE]
  /\ who = NoClient

-----------------------------------------------------------------------------
(* The client *)

StartServer(c) ==
  /\ cpc[c] = "idle"
  /\ Restart
  /\ UNCHANGED clientVars

Subscribe(c) ==
  /\ srv = "up" /\ cpc[c] = "idle"
  /\ cpc' = [cpc EXCEPT ![c] = "subscribed"]
  /\ UNCHANGED <<vars, ask, queue, answer, got, fresh, who>>

Send(c) ==
  /\ cpc[c] = "subscribed"
  /\ cpc' = [cpc EXCEPT ![c] = "asked"]
  /\ UNCHANGED <<vars, ask, queue, answer, got, fresh, who>>

\* The loop of lines 135-153
ReadResult(c) ==
  /\ cpc[c] = "reading" /\ queue[c] # <<>>
  /\ got' = [got EXCEPT ![c] = Head(queue[c])]
  /\ queue' = [queue EXCEPT ![c] = Tail(@)]
  /\ cpc' = [cpc EXCEPT ![c] = IF Head(queue[c]).status = "RUNNING" THEN "reading" ELSE "leaving"]
  /\ UNCHANGED <<vars, ask, answer, fresh, who>>

ClientStep(c) == Subscribe(c) \/ Send(c) \/ ReadResult(c)

-----------------------------------------------------------------------------
(* What a step of the server brings to the clients *)

Subscribed(c) == cpc[c] \in {"subscribed", "asked", "reading"}
Up == srv' = "up"

\* c is the client being served.  A client that waits for an answer or a result
\* when the server goes down gets none and throws; one that was about to stop the
\* server has nothing left to do
Deliver(c) ==
  LET told == reply' # NoReply
  IN  /\ queue' = [d \in Client |->
                     IF pub' # NoResult /\ Subscribed(d) THEN Append(queue[d], pub') ELSE queue[d]]
      /\ cpc' = [d \in Client |->
                   IF ~Up /\ Subscribed(d) THEN "failed"
                   ELSE IF ~Up /\ cpc[d] = "leaving" THEN "done"
                   ELSE IF told /\ d = c
                        THEN IF WaitPub(reply'.ans) THEN "reading" ELSE "refused"
                   ELSE cpc[d]]
      /\ answer' = IF told THEN [answer EXCEPT ![c] = reply'.ans] ELSE answer
      /\ fresh' = IF told THEN [fresh EXCEPT ![c] = queue[c] = <<>>] ELSE fresh
      /\ who' = IF told \/ ~Up THEN NoClient ELSE c
      /\ UNCHANGED <<ask, got>>

\* responderServer->stop()
StopServer(c) ==
  /\ cpc[c] = "leaving"
  /\ Kill
  /\ Deliver(who)

\* A request is received when the previous one has been answered
Serve(c) ==
  /\ cpc[c] = "asked" /\ who = NoClient
  /\ Handle(ask[c])
  /\ Deliver(c)

ServerMain == Main /\ Deliver(who)
ServerWork == Work /\ Deliver(who)

\* The applications end; it is the clients that stop and start the server
Applications ==
  \/ \E i \in JobId : EndJob(i)
  \/ EndMerge
  \/ \E o \in orphans : OrphanWrites(o) \/ OrphanEnds(o)

ServerOutside == Applications /\ Deliver(who)

SysNext ==
  \/ \E c \in Client : StartServer(c) \/ ClientStep(c) \/ Serve(c) \/ StopServer(c)
  \/ ServerMain \/ ServerWork \/ ServerOutside

SysSpec == SysInit /\ [][SysNext]_sysVars

\* The threads of the server and of the clients run, and applications end
SysFairness ==
  /\ \A c \in Client : WF_sysVars(ReadResult(c) \/ Send(c) \/ StopServer(c)) /\ WF_sysVars(Serve(c))
  /\ WF_sysVars(ServerMain) /\ WF_sysVars(WorkStep /\ Deliver(who))
  /\ WF_sysVars(ServerOutside)

FairSysSpec == SysSpec /\ SysFairness

-----------------------------------------------------------------------------
(* Properties *)

ClientPcs == {"idle", "subscribed", "asked", "reading", "leaving", "done", "refused", "failed"}

\* The results that travel to the clients
Result == [hash : Hash \cup {NoHash}, status : {"RUNNING", "SUCCESS", "FAILURE"},
           jobs : SUBSET JobId]

SysTypeOK ==
  /\ cpc \in [Client -> ClientPcs]
  /\ ask \in [Client -> Request]
  /\ queue \in [Client -> Seq(Result)]
  /\ got \in [Client -> Result \cup {NoResult}]
  /\ answer \in [Client -> Answers \cup {"NONE"}]
  /\ fresh \in [Client -> BOOLEAN]
  /\ who \in Client \cup {NoClient}

\* A client told that its simulation starts, whose subscriber had nothing
\* pending, reads results of its own simulation only, although another client
\* may get the server as soon as the last one is out and results carry no name
OwnIfFresh ==
  \A c \in Client :
    answer[c] = "ansSTARTING" /\ fresh[c] /\ got[c] # NoResult
      => got[c].hash = ask[c].hash

\* The image such a client is shown only grows: a result contains every job of
\* the result read before it, unless it says FAILURE, although jobs, merges and
\* requests of others go on between the publication and the reading
GrowIfFresh ==
  [][\A c \in Client :
       answer[c] = "ansSTARTING" /\ fresh[c] /\ got'[c] # got[c] /\ got'[c].status # "FAILURE"
         => got[c].jobs \subseteq got'[c].jobs]_sysVars

\* A client told that its simulation starts leaves its loop with a result that is
\* not RUNNING, or fails because another client that was done has stopped the server
\* under it (fakeNomad.cpp, line 166): the subscription was made before the
\* request, and the server publishes such a result unless it is stopped
StartedFinishes ==
  \A c \in Client :
    cpc[c] = "reading" /\ answer[c] = "ansSTARTING"
      ~> \/ cpc[c] \in {"leaving", "done"}
         \/ cpc[c] = "failed" /\ \E d \in Client \ {c} : cpc[d] = "done"

\* A client told that "a simulation for this request is already running" finds its
\* last result in its queue, or a simulation that still publishes: what it is sent
\* to wait for (sim_request_answer.hh, lines 21 and 34-37) is still to come
RunningIsServed ==
  \A c \in Client :
    cpc[c] = "reading" /\ answer[c] = "ansRUNNING" =>
      \/ \E k \in DOMAIN queue[c] : queue[c][k].status # "RUNNING"
      \/ wpc \notin {"off", "erase", "exit", "ended"}

\* Every request sent is answered, or the server is stopped by a client that is done
SentIsAnswered ==
  \A c \in Client :
    cpc[c] = "asked"
      ~> \/ cpc[c] \in {"reading", "refused", "leaving", "done"}
         \/ cpc[c] = "failed" /\ \E d \in Client \ {c} : cpc[d] = "done"
=============================================================================
