-------------------------- MODULE SimRequestProofs --------------------------
(***************************************************************************)
(* Proofs that what SimRequest says of reuse holds for every number of     *)
(* neutrons, jobs, seeds and values, and for any number of simulations.    *)
(***************************************************************************)
EXTENDS SimRequest, TLAPS

-----------------------------------------------------------------------------
(* The inductive invariant: what the names in the cache say of its contents *)

\* What a hash, which has neither type nor count, says of the arguments
ArgsOfHash(p) == [app |-> "QUICK", ncount |-> NEUTRONS_PER_JOB, par |-> p]

\* An output under a hash was computed with the arguments the hash stands for
OutputsAsHashed == \A o \in outs : o.from = ArgsOfHash(o.hash)

\* The numbers of a request are in their ranges
NumbersInRange(r) == \A p \in Params : r[p].kind = "scalar" => InRange(p, r[p].val)

RangesInv == NumbersInRange(par) /\ \A o \in outs : NumbersInRange(o.hash)

ReuseInv ==
  /\ RequestTypeOK
  /\ OutputsAsHashed /\ RangesInv
  /\ ReusedAsAsked /\ ArgsInRange

-----------------------------------------------------------------------------
(* Lemmas on the operators *)

\* The number of jobs is a natural number (mcstas_server.cpp, line 319)
LEMMA JobsAreCounted ==
  ASSUME NEW n \in Nat
  PROVE  NJobs(n) \in Nat
<1> DEFINE N == NEUTRONS_PER_JOB
<1>1. N \in Nat \ {0}
  BY JobConstants
<1>2. NJobs(n) = (n + (N - 1)) \div N
  BY DEF NJobs
<1> QED
  BY <1>1, <1>2

\* Accepted numbers are integers, in the range of their parameter
LEMMA AcceptedInRange ==
  ASSUME NEW p \in Params, NEW v \in Int, Accepts(p, v)
  PROVE  /\ Scalar(Converted(p, v)) \in Slot
         /\ InRange(p, Converted(p, v))
<1>1. Converted(p, v) \in Int
  BY DEF Converted
<1> QED
  BY <1>1 DEF Accepts, Scalar, Slot

LEMMA NothingSet == NoKeys \in Request /\ NumbersInRange(NoKeys)
<1>1. Absent \in Slot
  BY DEF Absent, Slot
<1> QED
  BY <1>1 DEF NoKeys, Request, NumbersInRange, Absent, Keys

\* The hash fixes the arguments, whatever the type and the count of the request:
\* the step on which the reuse of outputs rests
LEMMA HashFixesArgs ==
  ASSUME NEW m \in Message
  PROVE  JobArgs(m) = ArgsOfHash(Hashed(m))
<1>1. Forced(m).type = "QUICK"
  BY DEF Forced, Message
<1>2. CountKept(Counts(m)) = NEUTRONS_PER_JOB
  BY DEF CountKept, Counts
<1> QED
  BY <1>1, <1>2 DEF JobArgs, ArgsOfHash, Hashed

LEMMA ArgsType == \A p \in Request : ArgsOfHash(p) \in Effective
BY JobConstants DEF ArgsOfHash, Effective, SimTypesAsked

-----------------------------------------------------------------------------
(* The invariant is inductive *)

LEMMA RequestInitInv == RequestInit => ReuseInv
<1> SUFFICES ASSUME RequestInit PROVE ReuseInv
  OBVIOUS
<1>1. RequestTypeOK
  <2>1. last.asked \in Effective /\ last.used = {}
    BY NothingSet DEF RequestInit, NoRun, Effective, SimTypesAsked
  <2>2. named \in BOOLEAN /\ par \in Request /\ outs = {}
    BY NothingSet DEF RequestInit
  <2>3. runs \in 0 .. MaxRuns /\ calls \in 0 .. MaxCalls
    BY RequestConstants DEF RequestInit
  <2> QED
    BY <2>1, <2>2, <2>3 DEF RequestTypeOK
<1>2. OutputsAsHashed /\ RangesInv
  BY NothingSet DEF RequestInit, OutputsAsHashed, RangesInv
<1>3. ReusedAsAsked /\ ArgsInRange
  BY DEF RequestInit, NoRun, ReusedAsAsked, ArgsInRange
<1> QED
  BY <1>1, <1>2, <1>3 DEF ReuseInv

\* The client changes its request only, and keeps it in range
LEMMA ClientKeeps == ReuseInv /\ ClientStep => ReuseInv'
<1> SUFFICES ASSUME ReuseInv, ClientStep PROVE ReuseInv'
  OBVIOUS
<1> USE DEF ReuseInv
<1>1. par \in Request /\ NumbersInRange(par) /\ named \in BOOLEAN
  BY DEF RequestTypeOK, RangesInv
<1>2. named' \in BOOLEAN /\ par' \in Request /\ NumbersInRange(par')
  <2>1. CASE SetInstrument
    BY <2>1, NothingSet DEF SetInstrument
  <2>2. ASSUME NEW p \in Params, NEW v \in Value, AddParameter(p, v)
        PROVE  named' \in BOOLEAN /\ par' \in Request /\ NumbersInRange(par')
    <3>1. v \in Int /\ p \in Keys
      BY RequestConstants DEF Keys
    <3>2. Scalar(Converted(p, v)) \in Slot /\ InRange(p, Converted(p, v))
      BY <2>2, <3>1, AcceptedInRange DEF AddParameter
    <3> QED
      BY <1>1, <2>2, <3>1, <3>2 DEF AddParameter, Request, NumbersInRange, Scalar, Keys
  <2>3. ASSUME NEW p \in Params, NEW v \in Value, AddParameterArray(p, v)
        PROVE  named' \in BOOLEAN /\ par' \in Request /\ NumbersInRange(par')
    <3>1. Vector(v) \in Slot /\ Vector(v).kind # "scalar" /\ p \in Keys
      BY RequestConstants DEF Vector, Slot, Keys
    <3> QED
      BY <1>1, <2>3, <3>1 DEF AddParameterArray, Request, NumbersInRange, Keys
  <2>4. ASSUME NEW r \in Value, NEW h \in Value, SetSampleSize(r, h)
        PROVE  named' \in BOOLEAN /\ par' \in Request /\ NumbersInRange(par')
    <3>1. r \in Int /\ h \in Int
      BY RequestConstants
    <3>2. Accepts("sample_size_r", r) => Scalar(r) \in Slot /\ InRange("sample_size_r", r)
      BY <3>1 DEF Accepts, Converted, Scalar, Slot
    <3>3. Accepts("sample_size_y", h) => Scalar(h) \in Slot /\ InRange("sample_size_y", h)
      BY <3>1 DEF Accepts, Converted, Scalar, Slot
    <3>4. CASE Accepts("sample_size_y", h)
      <4>1. par' = [par EXCEPT !["sample_size_r"] = Scalar(r), !["sample_size_y"] = Scalar(h)]
        BY <2>4, <3>4 DEF SetSampleSize
      <4> QED
        BY <1>1, <2>4, <3>2, <3>3, <3>4, <4>1
           DEF SetSampleSize, Request, NumbersInRange, Scalar, Keys, Params
    <3>5. CASE ~Accepts("sample_size_y", h)
      <4>1. par' = [par EXCEPT !["sample_size_r"] = Scalar(r)]
        BY <1>1, <2>4, <3>5 DEF SetSampleSize, Request, Keys, Params
      <4> QED
        BY <1>1, <2>4, <3>2, <4>1 DEF SetSampleSize, Request, NumbersInRange, Scalar, Keys, Params
    <3> QED
      BY <3>4, <3>5
  <2>5. ASSUME NEW m \in {0, 1}, SetSampleMaterial(m)
        PROVE  named' \in BOOLEAN /\ par' \in Request /\ NumbersInRange(par')
    <3>1. Scalar(m) \in Slot
      BY DEF Scalar, Slot
    <3> QED
      BY <1>1, <2>5, <3>1 DEF SetSampleMaterial, Request, NumbersInRange, Keys, Params
  <2> QED
    BY <2>1, <2>2, <2>3, <2>4, <2>5 DEF ClientStep
<1>3. UNCHANGED serverVars /\ calls' \in 0 .. MaxCalls
  BY RequestConstants DEF ClientStep, RequestTypeOK
<1>4. RequestTypeOK'
  BY <1>2, <1>3 DEF RequestTypeOK, serverVars
<1>5. OutputsAsHashed' /\ RangesInv'
  BY <1>2, <1>3 DEF OutputsAsHashed, RangesInv, serverVars
<1>6. ReusedAsAsked' /\ ArgsInRange'
  BY <1>3 DEF ReusedAsAsked, ArgsInRange, serverVars
<1> QED
  BY <1>4, <1>5, <1>6

LEMMA SimulateKeeps ==
  ASSUME ReuseInv, NEW type \in SimTypesAsked, NEW n \in Ncount,
         NEW ok \in SUBSET (0 .. (NJobs(n) - 1)), Simulate(Sent(type, n), ok)
  PROVE  ReuseInv'
<1> USE DEF ReuseInv
<1> DEFINE m    == Sent(type, n)
           area == AreaOf(type)
           used == OutputsOf(outs', area, par, n)
           new  == {[area |-> area, hash |-> par, job |-> i, from |-> JobArgs(m)] : i \in ok}
<1>1. par \in Request /\ area \in Areas /\ NumbersInRange(par) /\ n \in Nat
  BY RequestConstants DEF RequestTypeOK, AreaOf, Areas, RangesInv
<1>2. m \in Message /\ m.type = type /\ m.ncount = n /\ m.par = par
  BY <1>1 DEF Sent, Message
<1>3. Hashed(m) = par
  BY <1>2 DEF Hashed
<1>4. JobArgs(m) = ArgsOfHash(par) /\ JobArgs(m) \in Effective
  BY <1>1, <1>2, <1>3, HashFixesArgs, ArgsType
<1> HIDE DEF m
<1>5. /\ outs' = outs \cup new
      /\ last' = [asked |-> JobArgs(m), used |-> used]
      /\ runs < MaxRuns /\ runs' = runs + 1 /\ ~TooMany(n)
      /\ UNCHANGED <<named, par, calls>>
  BY <1>2, <1>3 DEF Simulate, clientVars, m
<1>6. ok \subseteq JobId
  <2>1. NJobs(n) \in Nat /\ NJobs(n) <= NUM_SEEDS
    BY <1>1, <1>5, JobsAreCounted, JobConstants DEF TooMany
  <2> QED
    BY <2>1, JobConstants DEF JobId
<1>7. outs' \subseteq Output
  <2> HIDE DEF area
  <2>1. new \subseteq Output
    BY <1>1, <1>4, <1>6 DEF Output
  <2> QED
    BY <1>5, <2>1 DEF RequestTypeOK
<1>8. /\ last'.asked = JobArgs(m) /\ last'.used = used
      /\ \A o \in used : o \in outs' /\ o.hash = par
  BY <1>5 DEF OutputsOf
<1> HIDE DEF used
<1>9. RequestTypeOK'
  <2>1. runs' \in 0 .. MaxRuns
    BY <1>5, RequestConstants DEF RequestTypeOK
  <2>2. last'.asked \in Effective /\ last'.used \subseteq Output
    BY <1>4, <1>7, <1>8
  <2> QED
    BY <1>5, <1>7, <2>1, <2>2 DEF RequestTypeOK
<1>10. OutputsAsHashed'
  BY <1>4, <1>5 DEF OutputsAsHashed
<1>11. RangesInv'
  <2>1. \A o \in outs' : NumbersInRange(o.hash)
    BY <1>1, <1>5 DEF RangesInv
  <2> QED
    BY <1>1, <1>5, <2>1 DEF RangesInv
<1>12. ReusedAsAsked'
  BY <1>4, <1>8, <1>10 DEF ReusedAsAsked, OutputsAsHashed
<1>13. ArgsInRange'
  <2>1. \A o \in last'.used : o.from.par = par
    BY <1>4, <1>8, <1>12 DEF ReusedAsAsked, ArgsOfHash
  <2> QED
    BY <1>1, <2>1 DEF ArgsInRange, NumbersInRange
<1> QED
  BY <1>9, <1>10, <1>11, <1>12, <1>13

LEMMA ClearKeeps ==
  ASSUME ReuseInv, NEW m, Clear(m)
  PROVE  ReuseInv'
<1> USE DEF ReuseInv
<1>1. outs' \subseteq outs /\ UNCHANGED <<named, par, calls, last, runs>>
  BY DEF Clear, clientVars
<1>2. RequestTypeOK'
  BY <1>1 DEF RequestTypeOK
<1>3. OutputsAsHashed' /\ RangesInv'
  BY <1>1 DEF OutputsAsHashed, RangesInv
<1>4. ReusedAsAsked' /\ ArgsInRange'
  BY <1>1 DEF ReusedAsAsked, ArgsInRange
<1> QED
  BY <1>2, <1>3, <1>4

LEMMA RequestStepInv == ReuseInv /\ [RequestNext]_requestVars => ReuseInv'
<1> SUFFICES ASSUME ReuseInv, [RequestNext]_requestVars PROVE ReuseInv'
  OBVIOUS
<1>1. CASE ClientStep
  BY <1>1, ClientKeeps
<1>2. ASSUME NEW type \in SimTypesAsked, NEW n \in Ncount,
             NEW ok \in SUBSET (0 .. (NJobs(n) - 1)), Simulate(Sent(type, n), ok)
      PROVE  ReuseInv'
  BY <1>2, SimulateKeeps
<1>3. ASSUME NEW m, Clear(m) PROVE ReuseInv'
  BY <1>3, ClearKeeps
<1>4. CASE UNCHANGED requestVars
  BY <1>4 DEF requestVars, ReuseInv, RequestTypeOK, OutputsAsHashed, RangesInv,
              ReusedAsAsked, ArgsInRange
<1> QED
  BY <1>1, <1>2, <1>3, <1>4 DEF RequestNext, ServerStep

-----------------------------------------------------------------------------
(* The theorems *)

\* Whatever calls build the requests and whatever is in the cache, the names in
\* it tell what its contents were computed from
THEOREM ReuseInductive == RequestSpec => []ReuseInv
BY RequestInitInv, RequestStepInv, PTL DEF RequestSpec

\* Types, and a seed of its own for each job
THEOREM RequestTypes == RequestSpec => []RequestTypeOK
<1>1. ReuseInv => RequestTypeOK
  BY DEF ReuseInv
<1> QED
  BY <1>1, ReuseInductive, PTL

\* Outputs are only reused for the arguments they were computed with
THEOREM ReuseCorrect == RequestSpec => []ReusedAsAsked
<1>1. ReuseInv => ReusedAsAsked
  BY DEF ReuseInv
<1> QED
  BY <1>1, ReuseInductive, PTL

\* No job gets a number out of its range
THEOREM RangesCorrect == RequestSpec => []ArgsInRange
<1>1. ReuseInv => ArgsInRange
  BY DEF ReuseInv
<1> QED
  BY <1>1, ReuseInductive, PTL
=============================================================================
