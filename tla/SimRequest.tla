----------------------------- MODULE SimRequest -----------------------------
(***************************************************************************)
(* What a request says and what the server makes of it: the client builds  *)
(* it with the methods of sim_request; the server turns it into the name   *)
(* of a cache directory and the arguments of the jobs.  McstasServer takes *)
(* a request for its hash; this module says what the hash stands for.      *)
(*                                                                         *)
(* The hash of a JSON value is taken for the value itself.  A simulation   *)
(* is one step here, its jobs one after the other are in McstasServer.     *)
(***************************************************************************)
EXTENDS SimTypes, Integers, Sequences

CONSTANTS
  Value,      \* the numbers the client tries
  Ncount,     \* the numbers of neutrons it asks for
  MaxCalls,   \* bound: calls of the client in a behaviour
  MaxRuns     \* bound: simulations

ASSUME RequestConstants ==
  /\ Value \subseteq Int
  /\ Ncount \subseteq Nat
  /\ MaxCalls \in Nat /\ MaxRuns \in Nat

\* param_names: the parameters with a stage; for the others add_parameter throws
Params == {"lambda", "D22_collimation", "sample_size_r", "sample_size_y"}
Keys   == Params \cup {"material"}

InRange(p, v) ==
  /\ p = "lambda" => v \in 3 .. 6
  /\ p = "D22_collimation" => v \in 2 .. 18
  /\ p \in {"sample_size_r", "sample_size_y"} => v >= 0

\* What a key of the JSON may hold
Absent    == [kind |-> "absent", val |-> 0]
Scalar(v) == [kind |-> "scalar", val |-> v]
Vector(v) == [kind |-> "vector", val |-> v]   \* an array, of one number
Slot      == [kind : {"absent", "scalar", "vector"}, val : Int]
Request   == [Keys -> Slot]
NoKeys    == [k \in Keys |-> Absent]

VARIABLES
  named,  \* the instrument is set: without it the server cannot parse the request
  par,    \* the parameters of the request: the objects of the stages in _j
  calls,  \* calls so far
  outs,   \* the outputs of jobs in the cache
  last,   \* the last simulation: what it asked for and what it used
  runs    \* simulations so far

requestVars == <<named, par, calls, outs, last, runs>>
clientVars  == <<named, par, calls>>
serverVars  == <<outs, last, runs>>

\* The request as it is sent; "return" is left out, which changes neither the
\* hash nor the arguments
SimTypesAsked == {"SIMULATE", "QUICK"}
Message   == [type : SimTypesAsked, ncount : Nat, par : Request]

\* The application started, and the arguments it acts on
Effective == [app : SimTypesAsked, ncount : Nat, par : Request]
Output    == [area : Areas, hash : Request, job : JobId, from : Effective]

NoRun == [asked |-> [app |-> "QUICK", ncount |-> 0, par |-> NoKeys], used |-> {}]

RequestInit ==
  /\ named = FALSE /\ par = NoKeys /\ calls = 0
  /\ outs = {} /\ last = NoRun /\ runs = 0

-----------------------------------------------------------------------------
(* The client.  A call that throws before it stores anything is no step.    *)

\* The objects of all the stages are made anew
SetInstrument ==
  named' = TRUE /\ par' = NoKeys

Converted(p, v) == IF p = "D22_collimation" THEN 20 - v ELSE v

AcceptsAbove(p, v) == p = "lambda" \/ InRange(p, Converted(p, v))   \* mutant: no range for the wavelength

Accepts(p, v) == InRange(p, Converted(p, v))

AddParameter(p, v) ==
  /\ Accepts(p, v)
  /\ par' = [par EXCEPT ![p] = Scalar(Converted(p, v))]
  /\ UNCHANGED named

\* No range is checked and nothing converted
AddParameterArray(p, v) ==
  /\ par' = [par EXCEPT ![p] = Vector(v)]
  /\ UNCHANGED named

\* A height out of range throws after the radius is stored; a sphere has height
\* 0.  With three numbers the call throws at the first
SetSampleSize(r, h) ==
  /\ Accepts("sample_size_r", r)
  /\ par' = [par EXCEPT !["sample_size_r"] = Scalar(r),
                        !["sample_size_y"] = IF Accepts("sample_size_y", h) THEN Scalar(h) ELSE @]
  /\ UNCHANGED named

\* H2O or D2O, by their number
SetSampleMaterial(m) ==
  /\ par' = [par EXCEPT !["material"] = Scalar(m)]
  /\ UNCHANGED named

-----------------------------------------------------------------------------
(* The server *)

HashedNoSample(m) == [k \in Keys |-> IF k = "lambda" THEN m.par[k] ELSE Absent]   \* mutant

\* hash(): the request without its type and --ncount
Hashed(m) == m.par

\* set_type(QUICK), after the area of the cache was chosen by the type asked for
Forced(m) == [m EXCEPT !.type = "QUICK"]

\* args() holds the --ncount of the request, and main appends its own
Counts(m) == <<m.ncount, NEUTRONS_PER_JOB>>

CountFirst(counts) == counts[1]   \* mutant

\* McStas keeps the last
CountKept(counts) == counts[Len(counts)]

\* What the application acts on.  get_stage finds no stage file (save_stage, which
\* nothing calls, would give it another name), and ILL_D22_quick would not read one
JobArgs(m) == [app |-> Forced(m).type, ncount |-> CountKept(Counts(m)), par |-> m.par]

TooManyIgnored(n) == FALSE   \* mutant: more jobs than seeds

TooMany(n) == NJobs(n) > NUM_SEEDS

OutputsOf(os, area, h, n) ==
  {o \in os : o.area = area /\ o.hash = h /\ o.job < NJobs(n)}

\* The jobs with an output are not run again; those of ok succeed
Simulate(m, ok) ==
  LET area   == AreaOf(m.type)
      cached == {o.job : o \in OutputsOf(outs, area, Hashed(m), m.ncount)}
  IN /\ named /\ m.ncount > 0 /\ ~TooMany(m.ncount) /\ runs < MaxRuns
     /\ ok \cap cached = {}
     /\ outs' = outs \cup {[area |-> area, hash |-> Hashed(m), job |-> i, from |-> JobArgs(m)] : i \in ok}
     /\ last' = [asked |-> JobArgs(m), used |-> OutputsOf(outs', area, Hashed(m), m.ncount)]
     /\ runs' = runs + 1
     /\ UNCHANGED clientVars

\* The directories of the hash in both areas
Clear(m) ==
  /\ named
  /\ outs' = {o \in outs : o.hash # Hashed(m)}
  /\ UNCHANGED <<clientVars, last, runs>>

ClientStep ==
  /\ \/ SetInstrument
     \/ \E p \in Params, v \in Value : AddParameter(p, v) \/ AddParameterArray(p, v)
     \/ \E r, h \in Value : SetSampleSize(r, h)
     \/ \E m \in {0, 1} : SetSampleMaterial(m)
  /\ calls < MaxCalls /\ calls' = calls + 1
  /\ UNCHANGED serverVars

\* The type and the count are set when the request is sent
Sent(type, n) == [type |-> type, ncount |-> n, par |-> par]

ServerStep ==
  \E type \in SimTypesAsked, n \in Ncount :
    \/ \E ok \in SUBSET (0 .. (NJobs(n) - 1)) : Simulate(Sent(type, n), ok)
    \/ Clear(Sent(type, n))

RequestNext == ClientStep \/ ServerStep

RequestSpec == RequestInit /\ [][RequestNext]_requestVars

-----------------------------------------------------------------------------
(* Properties *)

\* Type invariant: among the rest, a job has a seed of its own
RequestTypeOK ==
  /\ named \in BOOLEAN /\ par \in Request
  /\ outs \subseteq Output
  /\ last.asked \in Effective /\ last.used \subseteq Output
  /\ runs \in 0 .. MaxRuns /\ calls \in 0 .. MaxCalls

\* Every output a simulation uses, the reused ones included, was computed by the
\* application and with the arguments it would start itself: the hash forgets the
\* type and the count of the request, and neither reaches a job
\* (sim_request_server.hh, lines 80-87; mcstas_server.cpp, lines 301 and 339-344)
ReusedAsAsked == \A o \in last.used : o.from = last.asked

\* No job ran with a number out of its range, however the request was built, by
\* calls that threw halfway and calls again after them, unless it was given as an
\* array (sim_request.cc, lines 64-91 and 117-136)
ArgsInRange ==
  \A o \in last.used : \A p \in Params :
    o.from.par[p].kind = "scalar" => InRange(p, o.from.par[p].val)
=============================================================================
