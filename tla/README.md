# Verification of the McStas simulation server

`mcstas_server` (src/src/mcstas_server.cpp) is a CAMEO application that
simulates the D22 instrument with McStas on request. A client sends a request
over a CAMEO responder, is answered at once, and reads the intensities from a
publisher. The server splits a request into jobs of `NEUTRONS_PER_JOB` neutrons,
runs at most `MAX_PARALLEL_JOBS` of them at a time as CAMEO applications, keeps
their outputs in a cache directory named after the hash of the request, and
merges them with one more application.

The modules here model the server's two threads, the applications they drive,
the cache they share with earlier and later servers, the clients, what a request
says and which outputs may be reused for it, the application that merges the outputs and
the reader of its image. TLC checks them on small instances, and TLAPS proves
the safety properties for all, and that the server implements its service and the
merge and its reader theirs.

## 1. The system

| Part | State | Operations | Modelled in |
|---|---|---|---|
| Main thread, mcstas_server.cpp:162-377 | the request being treated, `running_simulations` (hash → vector of jobs), the `std::thread` pointer | receive; reject, test, CLEAR, STOP, SIMULATE/QUICK; refuse (`ansRUNNING`, `ansWAIT`, `ansERROR`), join, start | `McstasServer`: `mpc`, `req`, `sidx`, `slen`, `running`, `linked`, `thread` |
| Worker thread, 375-485 | captured hash, cache, `nJobs`; reference `sim_jobs` into the map; `fJob` | `submitOneJob`, wait, `mergeJobs`, publish, erase | `McstasServer`: `wpc`, `sim`, `jobs`, `fJob`, `merge` |
| CAMEO applications (external) | one state per job, one for the merge | start, stop, end | `McstasServer`: `app`, `lost`, `orphans`; `EndJob`, `EndMerge`, `Orphan*` |
| Local cache, local_cache.hh | directories `QUICK/<hash>` and `FULL/<hash>` with one output per job and `merge/` | constructor, `is_done(i)`, `clear_cache` | `McstasServer`: `dirs`, `merges`, `out` |
| Answers and publications | what is sent in one step | `reply`, `store` | `McstasServer`: `reply`, `pub` |
| Client, fakeNomad.cpp | where it is, its subscriber's queue, its answer, the last result | start the server if there is none, subscribe, send, read until not RUNNING, stop the server | `McstasSystem`: `cpc`, `ask`, `queue`, `answer`, `got` |
| Request, sim_request.hh/.cc (client), sim_request_server.hh/.cc | `_j`: stages, parameters, instrument, `--ncount`, type | `set_instrument`, `add_parameter`, `set_sample_size`, `set_sample_material`; `hash`, `args`, `is_test` | `SimRequest`: `named`, `par`; `Hashed`, `JobArgs`; for the server's loop `McstasServer`: `Request`, `IsTest` |
| Outputs that may be reused, local_cache.hh:47-50, mcstas_server.cpp:319-356, 433-438 | outputs of jobs, by area, hash and number | `is_done` per job, CLEAR | `SimRequest`: `outs`; `Simulate`, `Clear` |
| Stage files, local_cache.hh:80-138 | – | `save_stage`, `get_stage` | not modelled, see section 6 |
| Merge application, MCPL_input.comp | arrays of names and counts, the file being read | list, open, skip the empty files, read every neutron | `MergeInput` |
| Result reader, mcstas_server.cpp:45-80, sim_result_server.cc | the parsed blocks and dimensions | `read_result`, `read_file`, publication | `MergeResult`, its contract `ImageService` |
| MongoDB cache, instrument physics, plotting, nlohmann/json | – | – | not modelled, see section 6 |

Interactions. The two threads share `running_simulations`, the vector of jobs
inside it, the publisher and the cache, with **no lock**. The worker holds a C++
reference to the vector, which the main thread may erase (STOP). The thread
object is joined at the next accepted request only. Applications are known to
the worker through `instance->waitFor()`, to STOP through `instance->stop()`,
and to everybody through the files they leave. A client stops the server
when it has its result (fakeNomad.cpp:166) and starts one when there is
none (47-55), so the cache outlives servers and so do orphaned applications.
The publisher serves all clients, and a result does not say whose it is.

What makes each part correct, and what is hard about it:

- *Main thread*: simulations never overlap although the place is freed by the
  worker; the handle of the thread is never overwritten while it owns a thread,
  nor joined twice; every request is answered, join included. Hard: tests at
  lines 249-263, insertion at 372 and erasure at 241 and 481 interleave; an
  empty map does not mean an ended thread.
- *Worker*: at most `MAX_PARALLEL_JOBS` applications alive; indices in range;
  what is recorded is what happened; the final result comes after every job
  and contains all that succeeded; the entry is erased at the end. Hard: jobs
  end in any order, come from the cache without an instance, are stopped while
  they are being submitted; the vector is freed under the worker.
- *Cache*: an output found is an output that is complete. Hard: stopped and
  orphaned applications, CLEAR during a run.
- *Client*: it gets an answer and a final result, of its own request, unless
  another client that is done stops the server under it. Hard: subscription, answer,
  publications and that stop interleave.
- *Requests*: a name in the cache (the hash of a request) says everything that
  matters to what is stored under it. Hard: the hash leaves keys out; calls throw
  halfway.
- *Merge and reader*: every neutron of every listed file is counted once. Hard:
  empty files anywhere in the list, a list of none, arrays of a fixed length, a file
  that is gone, an application that fails;
  the directory is listed in any order and the detector file read more than once.

`PROJECT.json` ("hazards") has each hazard at its line with the properties
that cover it.

## 2. The modules

- **SimTypes** – vocabulary: request types, answers, application states, the
  job arithmetic (`NJobs` is `std::ceil(n / NEUTRONS_PER_JOB)`), cache areas.
- **McstasServer** – the core. One action is one stretch of code between two
  accesses to state that another thread, an application or a restart can change:
  - main thread: `RejectUnknown`, `AnswerTest`, `ClearCache`, `RefuseRunning`,
    `RefuseWait` and `RefuseTooMany` answer in one step; STOP is a loop
    (`ReceiveStop`, `StopNext` reads the size, `StopUse` stops one instance,
    `StopReply` answers and erases); a simulation is `AcceptNew` (tests, cache
    directory), `Join`, `Start` (answer, insert, create the thread);
  - worker: `ReuseJob`, or `LaunchJob` then `PushJob` (the application runs
    before it is in the vector); `NextToWait` (partial merge or wait), `WaitJob`,
    the refill (`ReuseJob`, `LaunchJob`/`PushJob` or `NoMoreJobs`), `StartMerge`,
    `PublishMerge`, `EraseEntry`, `EndWorker`;
  - undefined behaviour and exceptions nobody catches are actions of their own,
    that end the process (`Die`): `StopNull`, `StopDangles`, `WorkerDangles`,
    `JoinAgain`, `MergeListFails`, `ReadResultFails`. Where the build may also go on
    with the old contents of freed memory (`linked = FALSE`), both
    outcomes are enabled;
  - environment: applications end (`EndJob`, `EndMerge`), orphans write and end,
    the server is killed and restarted.
- **SimService** – the abstract specification: one simulation at a time;
  answers `ansRUNNING`, `ansWAIT`, `ansSTARTING` that tell the truth about it; only
  it publishes; each result contains the one before; nothing after the last.
- **ServerRefines** – the refinement mapping from McstasServer to SimService.
- **ServerInvariant** – the inductive invariant `IndInv`, by named parts.
- **SimRequest** – the builder calls of the client and the server's use of a
  request as it is sent (`Message`): the name of its cache directory (`Hashed`), which
  leaves out its type and count; the area, chosen by the type before that is forced
  to QUICK (`Forced`); the arguments of its jobs, where `--ncount` comes twice and McStas
  keeps the last (`Counts`, `CountKept`). A whole simulation is one step
  (`Simulate`), its jobs in turn being McstasServer's matter; `ok` is the set of
  jobs that succeed.
- **MergeInput** – MCPL_input.comp: INITIALIZE (`ReadList`, `OpenFile`, `OpenMissing`,
  `OpenBeyond`, `AllOpen`, `Seek`) and TRACE, called once a ray (`Ray`,
  `EndOfFile`, `SkipFile`, `NextFile`, `Finish`). An empty list makes the component
  inactive (`PassThrough`). A step outside an array ends the model in "overrun".
- **MergeResult** – MergeInput composed with the worker: `StartMerging` writes the
  list, `ReadDirectory` and `NextEntry` walk through the merge directory,
  `ReadHeading`, `ReadData` and `EndOfLines` are read_file, `PublishResult` and
  `PublishNoResult` publish, `MergeFails` ends the application anywhere.
- **ImageService** – what merging promises, without lists, arrays, rays or lines:
  asked for the image of some files, it answers once, with the number of their
  neutrons in each pixel or with FAILURE, and with FAILURE if a file is missing; asked
  for the image of no file, with some image or FAILURE. `filesOf` and `Merging` in
  MergeResult are the refinement mapping.
- **McstasSystem** – McstasServer composed with clients: the responder gives the
  main thread one request at a time, each publication goes to every subscriber
  (`Deliver`). A client starts the server when there is none (`StartServer`) and stops
  it when it has left its loop (`StopServer`, fakeNomad.cpp:166), whoever waits; a client
  refused returns before line 166 and stops nothing. A client that
  waits when the server goes down throws and ends "failed". Nothing else kills or
  restarts the server in this module, so that what its clients suffer they do
  to each other.
- **MCServer**, **MCSystem**, **MCRequest**, **MCResult** – model checking: symmetry
  sets, the values a client tries, the contents of files and the lists of them.
- Proofs: **McstasServerProofs** (the invariant), **StopProofs**,
  **ServerRefinesProofs**, **OutcomeProofs** (McstasServer), **SystemProofs**
  (McstasSystem), **SimRequestProofs**, **MergeProofs** (MergeInput within MergeResult),
  **ImageProofs** (MergeResult and its ImageService).

Mutated definitions (used to see that each property can fail) stand beside the
definition they mutate and are commented "mutant".

What the model abstracts. A request is its type, hash and neutron count; hashes
are model values. An output is none, partial or full. `pub.hash` is a ghost:
real results carry no mark, and only properties read it. Assumed: starting a
CAMEO application succeeds; `std::map` operations and publications are atomic
(they are unsynchronised in the code; only what follows from their order is
checked); `fs::remove_all` does not meet a file that vanishes. `FailureLeaves` says what a job that fails may leave of its
output: nothing, a part, or all of it, as `is_done` tests no more than that the file
exists. It leaves nothing in the runs whose properties need that (`simulate`, `live`), which is an
assumption on McStas and not an abstraction; the theorems name it (section 4), and `stop`
and `service` do without. Over-approximated:
an application may fail at any time, which includes McStas refusing an existing
`--dir`; a merge of an empty list may succeed or fail. `mongo` and `save_tgz` are
not called by the build. The orphan of a *merge* application is
left out, as its directory is removed before each new merge. After a crash the
orphans are alive besides the jobs of the new server: `ParallelBound` speaks of
the applications of one simulation.

In SimRequest the hash of a JSON value is taken for the value itself, that is for
injective: `std::hash` gives 64 bits, and two requests with the same bits would share a
directory. A key holds nothing, a number, or an array of one number. The client
tries the numbers of `Value`; a call that throws before it stores anything is no
step.

In MergeInput a neutron is the pixel it goes to, or `Missed`: it is then absorbed by the
component (`Emin`, `Emax`) or hits no pixel, and `rays` counts it all the same. The
component is modelled as the server starts it: a list of files and `repeat_count` 1. The
list is empty when no job has succeeded yet, as at the first partial merge of a
simulation that finds nothing in the cache: `inactive` is then set, `mcset_ncount` is not
called, and the rays that McStas makes by default reach the detector. What they
make there is one of the images `Stray`, of which nothing is assumed. In the file of the detector
each number carries the name of its block, so that a mix-up of the three is seen. In MergeResult the merge
directory has the detector file and another one, in either order. The asserts of
sim_result_server.cc, and the calls inside them, are not there: the build is
Release whatever is asked for (CMakeLists.txt:31). The files
change between two merges only; what CLEAR and stopped jobs do to them during one is
McstasServer's matter (`Mergeable`, `MergeReadsWhole`).

## 3. The runs

`NEUTRONS_PER_JOB` is 2, so counts 2, 3, 4, 5 give 1, 2, 2 and 3 jobs. With one
or two parallel jobs and one to three seeds the cases that matter happen: fewer,
as many and more jobs than run at once; a refill with and without a job left;
partial merges at the first job and after a multiple of the bound; more jobs than
seeds. Two hashes distinguish "this request runs" from "another one runs", and two
areas "the same request" from "its cache". Two clients suffice for a result to
reach another one than its owner. In `simulate`, `stop` and `live` requests repeat
without bound, so these runs have simulations over a full, partial and stale cache;
in the runs with clients each client sends one. The state spaces are finite
without further bounds.

Requests: one number in the range of a wavelength and of a sample, one in no
range, as numbers and as arrays; two materials; three calls, enough to
set a parameter, change it, and build the instrument anew between two simulations;
two simulations, the second of which may reuse; counts that give no job, one, two
and more than the two seeds. `MaxCalls` and `MaxRuns` are bounds of the check only; the proofs
do not use them. Results: arrays of three entries (100 in the code) with lists of no
to four files, each of which is missing, empty, or holds one neutron, or two of which
one misses the detector; stray rays that all miss or all hit one pixel; a
detector of one by two pixels, so that rows and columns differ. Merges repeat
without bound.

| Run | Question | Properties |
|---|---|---|
| simulate | one hash as QUICK and SIMULATE, 2 and 3 jobs, two at a time, tests, unknown requests, repetition over a cache | `WorkerHandle` `ParallelBound` `IndexInRange` `JoinHasThread` `RecordedStates` `NoFault` `FinalIsComplete` |
| stop | STOP, CLEAR, tests, requests of too many jobs, kills, restarts and failures that leave any output, anywhere in the submission of two jobs, one at a time | `TypeOK` `IndInv` `ParallelBound` `AllEnded` `StopCovers` `ImplementsService` `AlwaysReceives` |
| service | two clients that simulate, STOP and CLEAR two hashes, two jobs at once, requests of too many jobs, failures that leave part of an output, the server stopped by a client that is done | `OneSimulation` `GrowIfFresh` `ImplementsService` |
| live | two hashes, requested and cleared at any time | `FinalIsComplete` `MergeReadsWhole` `ImplementsService` `StartedPublishes` `SimulationEnds` |
| clients | two clients of one publisher, each of which stops the server when it is done | `SysTypeOK` `OwnIfFresh` `StartedFinishes` `SentIsAnswered` |
| requests | builder calls that throw halfway, simulations of either type and CLEAR, in any order | `RequestTypeOK` `ReusedAsAsked` `ArgsInRange` |
| results | merges of any of those lists and files, that may fail, read in either order | `ResultTypeOK` `NoOverrun` `ReadsOpenFile` `AllRead` `ImageServed` `ImplementsImageService` `MergeEnds` |

Deadlock is checked in every server run: the server never blocks for good, it can
always receive, work or restart. It is off where the system does stop: in the
client runs (`clients`, `service`, `late_running`), where each client sends one request and the
system then rests; in `requests`, where the bounds end every behaviour; and in
`results` and `dims`, where a merge that has left its arrays goes no further.

What some of these properties do not say. `StopCovers` is about the jobs up to
the size STOP last read: a job that the worker pushes after that test is not stopped, and goes
on after the answer. `NoOverrun` lists the two cases in which the merge does
leave its arrays: more files than entries, which up to 152 jobs can give, and a
list of empty files only. `ImageServed` says nothing of a merge that lists no file:
its image is of rays no job has made, although the comment at mcstas_server.cpp:462 calls
it "the partial result of the finished job"; that it is published as partial
is in `ImplementsImageService`. `StartedFinishes` and `SentIsAnswered` let a client fail
when another client is done, and only then: that is fakeNomad.cpp:166, and a third
kind of end, such as a server that falls by itself or never answers, violates them.

`NoFault` is claimed for requests that do not exceed the seeds and without STOP and
CLEAR: each of those is a way to bring the server down, and section 4 says which
end each one causes. `JoinHasThread` is claimed for requests that do not exceed the seeds
(run `join_nothing` below). `FinalIsComplete` and `MergeReadsWhole` are claimed without STOP
and kills, after which the cache may hold incomplete outputs and a merge may read
them (run `reuse_stopped` below). No property here asks that a
client receive the results of its own request only, whatever its queue: results
carry no mark of their request, and a client that subscribes while another
simulation ends does take that result for its own (and then stops the server under it). `OwnIfFresh`, and `GrowIfFresh`
for what it reads one after the other, are what holds; the result of a test carries
no mark either, so both are claimed where nobody sends one.

### Disagreements between the code and what it says

Each is a run in which TLC finds the quoted statement violated (the quotations are in
`PROJECT.json`, "findings"):

- **join_nothing** – a request refused for its number of jobs (line 358) has
  joined the previous thread and kept the pointer; the next simulation joins it
  again, and `std::system_error` ends the server.
- **stop_cached** – a job found in the cache has no instance, and STOP
  dereferences it (line 232).
- **reuse_stopped** – the message at 276-278 promises that the directory of a
  stopped simulation is removed; `isOK()` always returns true, and the partial
  output of a stopped job is merged as a finished one.
- **late_running** – a client answered `ansRUNNING` between the final publication
  and the erasure (480-481) reads a publisher that says nothing more of its request:
  `RunningIsServed` asks that such a client have its last result in its queue or a simulation
  before it that still publishes. It waits until another client stops the
  server, and then throws "no output from publisher".
- **dims** – the `sscanf` that parses the dimensions of the image is an operand of
  `assert` (sim_result_server.cc:22) and is not compiled: results carry 0 by 0 where
  testserver.cpp:43-45 expects 128 by 256.

### Fairness

`FairSpec` has weak fairness of each thread (`Main`, `WorkStep`): the operating
system runs both; that an access to freed memory faults (`WorkerDangles`) is never
assumed. Each job application and the merge end (`EndJob(i)`,
`EndMerge`): McStas runs a fixed number of neutrons, and CAMEO reports the end of
every application. Nothing is assumed of requests, kills or restarts: in `stop` the
server may stay up, or down, for ever. In `live` a CLEAR may make a merge end the
process (`MergeListFails`, `ReadResultFails`), which `StartedPublishes` allows for;
the clients' `StartedFinishes` has no such way out, as no client there clears.

`FairSysSpec` adds that a client that has subscribed sends, reads what is in its
queue, and stops the server once it has left its loop, each being the next call of
a program that waits for nothing there, and that the responder gives the server the
requests sent (`Serve`); a client may never connect, nor start a server, at all. It takes the applications together
(`ServerOutside`), which in `clients`, with one job, are that job or its merge, never
both, and the orphans of servers that were stopped, each of which takes finitely
many steps.

`FairResultSpec` has weak fairness of the merge application and of the worker's
steps from its end to the publication: both run on their own. No further merge
need begin.

## 4. The proofs

All theorems rest on the assumptions on the constants only, which TLC evaluates
in the runs: `JobConstants` (the three bounds are positive), `ServerConstants` and
`SystemConstants` (the types of the traffic and of what failures leave, and the clients, which may stop the server), `RequestConstants`,
`MergeConstants` and `ResultConstants`. They hold for every number of seeds, jobs,
parallel jobs, hashes, clients, values, files and entries.

### The server: McstasServerProofs

`Inductive` proves that `IndInv` is an invariant of `Spec`, with STOP, CLEAR, faults,
kills and restarts, and the other theorems follow from it:

| Theorem | Property |
|---|---|
| `TypeCorrect` | `TypeOK` |
| `HandleCorrect` | `WorkerHandle` |
| `NoOverlap` | `OneSimulation` |
| `RecordsCorrect` | `RecordedStates` |
| `IndicesCorrect` | `IndexInRange` |
| `Bounded` | `ParallelBound` |
| `LoopEndsAll` | `AllEnded` |

None of these properties is inductive alone. `ParallelBound` counts applications,
but a step says nothing of their number; what the code maintains is a window. So
`IndInv` says where the window is:

- `HandleInv`: a process that is down has no threads; the request stays what it
  was while it is treated; the worker exists exactly while the handle is joinable;
- `LoopInv`: at each line of the worker, how `fJob`, `Len(jobs)` and `nJobs`
  compare;
- `AppsInv`: an application exists exactly for the jobs recorded with an instance
  and the one between `LaunchJob` and `PushJob`, and its recorded state is true;
- `WindowInv`: jobs before the window have ended, and the window is at most
  `MAX_PARALLEL_JOBS` wide.

Live applications then lie in the interval `Waited .. Len(jobs)` and their number
is bounded by its length (`LiveInWindow`, `Bounded`); when the loop is over, the
interval is empty (`LoopEndsAll`). TLC checks `IndInv` in the run `stop`. Each
part has one lemma per group of actions (`...Step`, `...Main`, `...Work`), and each
of these one step per action.

### STOP: StopProofs

`StopCorrect` proves `StopCovers`. `StopInv` says where the walk is: what is behind
`sidx` is not running, `sidx` never passes the end of the vector, and when the walk is
over the size last read is not beyond `sidx`. It is preserved because the worker only
appends while the entry is there, and an application that has been stopped or has
ended does not run again.

### The service: ServerRefinesProofs

`Refinement` proves `Spec => ImplementsService`. The mapping (ServerRefines) is
`entryOf`, `producerOf` and `haveOf`: whose entry the map holds, which simulation
publishes, which jobs its next result will at least contain. Besides `IndInv` it needs
`ListedInv` (the list given to the merge that runs is still the list of the jobs
recorded as SUCCESS, as the worker waits for it) and `StopReq` (the loop of STOP
treats a STOP). Each action is then an action of the service or a step it does not see;
every end of the process is its `Crash`.

### What each kind of traffic can do: OutcomeProofs

Some properties hold for some traffic only, and the theorems say for which:

- Each end of the process has one cause. `JoinSafe`: unless a request asks for more jobs
  than seeds, a thread that is joined can be (`JoinInv`: a joined handle is about to be
  replaced). `OnlyClearThrows`: without CLEAR no filesystem exception is thrown
  (`AreaKept`: the directory of the simulation exists). `OnlyStopDangles`: without
  STOP no null instance and no freed vector is used (`LinkInv`: the worker keeps its
  entry; the image of a merge that succeeded is where it was made, unless its directory
  is gone). Each holds with all the other traffic, kills and restarts.
- `FaultFree`: without any of the three, `NoFault`. It follows from them.
- `WholeMerges`: if nobody sends STOP or kills the server, and no job that fails leaves
  a part of its output (`WholeOrNone`), then `MergeReadsWhole`. A job that saves all of
  its output and fails later does no harm.
- `FinalComplete`: if nobody sends STOP or kills the server, and a job that fails leaves
  no output at all (`NothingLeft`), then `FinalIsComplete`, with CLEAR at any time: an
  output left by a job recorded as FAILURE is not merged now, and is by the next
  simulation of the request. `OutInv` relates what the server knows of its
  applications to what they left on the disk: as long as the directory exists,
  SUCCESS means a full output, a job that runs has none, one that failed has what
  `FailureLeaves` lets it, and a job without application was found; once it has been cleared, nothing writes there again and no
  merge can succeed before another simulation.

### Clients: SystemProofs

Each step of McstasSystem is a step of McstasServer or leaves it alone, so `IndInv`
carries over. `SystemTypes` adds `ServedInv` (the request the main thread treats
is that of a client that waits). `OwnResults` proves `OwnIfFresh`, with the clients stopping and starting the server
at any time, where nobody asks for
a test (`0 \notin Ncount`: the result of a test carries no name either and goes
to every subscriber). Its invariant `OwnQueue` says of the subscriber's queue that
everything up to the first result that does not say RUNNING is the client's own,
and that, if there is no such result, its simulation is still publishing.

`ContainsServer` says that every behaviour of the system is one of McstasServer, so
that its theorems hold there, and `SystemServes` that the system implements SimService.
`ResultsGrow` proves `GrowIfFresh`, where nobody asks for a test: the service's promise that
results grow is about what is published, and a client reads later, from a queue. Its
invariant `GrowInv` orders the queue (`GrowQueue`: each result of the client's simulation
contains the one before and what the client last read) and ties its end to what
the server knows (`haveOf` of the refinement, which the next result contains). Beyond
`OwnInv` it needs `ListedInv` of the refinement proof.

### Requests: SimRequestProofs

`ReuseInductive` proves `ReuseInv`: an output under a hash was computed with the
arguments of the request with that hash, and the numbers stored are in their ranges. From
it `RequestTypes`, `ReuseCorrect` (`ReusedAsAsked`) and `RangesCorrect` (`ArgsInRange`).
The lemma behind the reuse is `HashFixesArgs`: two messages with the same hash, of
whatever types and counts, give the same arguments.

### The merge: MergeProofs

`MergeInductive` proves `MergeInv`, and `MergeInBounds` (`NoOverrun`), `MergeComplete`
(`AllRead`) and `MergeReadsOpen` (`ReadsOpenFile`) follow. The invariant lays the files
one after the other: `before[k]` is the place of file `k` in the sequence of all
neutrons, and the number of rays so far is `before[icur] + got[icur]`. A ray that
finds a file at its end before the last ray therefore finds another file with
neutrons after it.

### The image: ImageProofs

`ImageInductive` proves `ImageInv`, which follows a neutron from the files to the
published array:

- `CountInv`: while the files are read, each pixel counts the neutrons of `Counted(p)`,
  the set of those read so far that go to `p`; `TakeCounts` is the step of one ray. With
  `AllRead`, `image[p]` is in the end the number of all neutrons that go to `p`.
- `ReaderInv`: what is left of the file is `Rest(n)`, the lines after the first `n`, and
  `Progress(n)` says what has been stored of it: after the heading of the counts, their
  first rows (`FirstRows`). The blocks that follow leave the counts alone, and a second
  reading of the file, which the order of the directory may cause, begins with cleared ones.
- `AppendRow` adds a row to the array: place `i` of it is `PixelAt(i)`, by the division of
  `i - 1` by the width (`Division`, `RowsApart`, `PlaceInGrid`).

`ResultTypes` (`ResultTypeOK`) and `ImageCorrect` (`ImageServed`) follow. The count of a
pixel is defined by `Cardinality` and rows are sequences built by comprehension, so no
induction over data is needed. `ImageRefinement` proves that MergeResult implements
ImageService: besides `ImageInv` it needs that a merge that ends has opened every file
listed, none of which is then missing, and that the files do not change between request and
answer. A merge may fail at any point (`MergeFails`), which the service answers with
FAILURE; one that has left its arrays (`overrun`) publishes nothing, which the
service allows, as it promises no answer. Nothing is proved of the image of an empty list
beyond its size. The proof assumes, as `ResultConstants` says, that McStas has written
the detector file when the application succeeds.

### Only model-checked

Liveness (`AlwaysReceives`, `StartedPublishes`, `SimulationEnds`, `StartedFinishes`,
`SentIsAnswered`, `MergeEnds`): fairness and ENABLED are beyond the prover. Every other
property of the passing runs is stated by a theorem.

## 5. State of the plan

The plan of this development was: the server, its service and its clients; the builder
of requests and the reuse of outputs (both in SimRequest, as what is reused depends on
what was built); the merge input; the result file (in MergeResult, composed with the
merge); the refinement proofs, of the server and of the merge with its reader; theorems for
the clients and the new modules. All of it is done. What could follow: the builder's
`read_json` and the decoding of malformed requests; stage files, once something
writes them under the name `get_stage` looks for.

## 6. Not modelled

- `src/client_api/include/nlohmann/json.hpp`: vendored, and most of the lines of the
  repository. It is used as a value with equality, a dump and a hash.
- `mongo_cache.hh` and what `MONGO` guards: no build file defines it.
- Stage files. `stage_path` ends in `.json` already, and `save_stage` appends it once
  more: it would write `<hash>.json.json` and `<hash>.json.mcpl.gz`, while `get_stage` tests
  for `<hash>.json` (local_cache.hh:94-103, 115-122, 154-160). Nothing calls `save_stage`
  anyway, and the application started is always the QUICK one (mcstas_server.cpp:306, 348),
  whose instrument file has no component that reads `Vin_filename`. So `get_stage`
  always says "none", and the hashes of the stages decide nothing.
- The instrument files and components other than MCPL_input: ray tracing in
  floating point. Only that an output exists when a job has ended, and where a neutron
  of the merge goes, are used.
- `read_json`, which replaces the request; `set_return_data` and `get_return_data`,
  which nobody reads; `set_measurement_time`, which sets `--ncount` to a product.
- In MCPL_input.comp: MPI, `repeat_count` above 1 and the rewinding it needs, a single
  file instead of a list, the conversion of particles.
- The command line of the server and of the client, messages, plotting and
  launching scripts.

Remarks from reading, about which no run says anything: the default type of a request
is QUICK (sim_request.hh:94) where the test in client.cpp:18-20 expects
`"type":0`; the result of a test announces 16 by 16 and carries 16 values
(`set_test`); the sample request.json asks for 5e9 neutrons, that is 250 jobs, and
is refused; `clear_cache()` empties its path before it removes it, so that it removes
nothing.
