---------------------------- MODULE ServerRefines ----------------------------
(***************************************************************************)
(* The server implements SimService: the run "stop" checks it, and         *)
(* ServerRefinesProofs proves it.                                          *)
(***************************************************************************)
EXTENDS McstasServer

\* The worker may still publish a result
Publishing == wpc \notin {"off", "erase", "exit", "ended"}

\* The entry of the map that requests are answered about, the simulation that
\* publishes, and the jobs that a merge of it would list now
entryOf    == IF linked THEN sim.hash ELSE NoHash
producerOf == IF Publishing THEN sim.hash ELSE NoHash
haveOf     == IF Publishing THEN ListedJobs ELSE {}

Service == INSTANCE SimService WITH
  entry <- entryOf, producer <- producerOf, have <- haveOf

\* Every behaviour of the server, with STOP, CLEAR, faults and restarts, is one
\* the service allows: answers about the running simulation are truthful, one
\* simulation publishes at a time, each result contains the one before, and
\* nothing follows the final one (the main loop and the worker of
\* mcstas_server.cpp, lines 162-485)
ImplementsService == Service!Spec
=============================================================================
