---------------------------- MODULE MergeResult ----------------------------
(***************************************************************************)
(* mergeJobs and read_result: the worker thread lists the outputs of the   *)
(* jobs that have succeeded, runs the merge application, reads the image   *)
(* of the detector from the files it has written and publishes it.         *)
(*                                                                         *)
(* The build is Release whatever is asked for (CMakeLists.txt, line 31     *)
(* tests a variable named after the value), so the assertions of           *)
(* sim_result_server.cc, and the calls inside them, are not there.         *)
(***************************************************************************)
EXTENDS MergeInput, Integers, FiniteSets

CONSTANTS
  DIM_X, DIM_Y,  \* the size of the detector (128 by 256)
  Listings       \* the orders in which the merge directory, which holds the
                 \* detector file, may be listed

ASSUME ResultConstants ==
  /\ DIM_X \in Nat /\ DIM_Y \in Nat
  /\ Pixel = (1 .. DIM_X) \X (1 .. DIM_Y)
  /\ Listings \subseteq Seq({"D22_Detector", "other"})
  /\ \A order \in Listings : \E i \in DOMAIN order : order[i] = "D22_Detector"

VARIABLES
  rpc,      \* the worker: idle, merging, scan (the directory), read (a file)
  final,    \* whether this is the last merge of the simulation
  entries,  \* directory entries still to come
  path,     \* p: the directory itself until the detector file is met
  lines,    \* lines of the file not read yet
  z,        \* the block the data lines go to
  block,    \* _counts, _errors and _n
  dims,     \* _dim_x and _dim_y
  result    \* what the last merge has published

readVars == <<rpc, final, entries, path, lines, z, block, dims, result>>
resultVars == <<mergeVars, readVars>>

Blocks   == {"I:", "I_err:", "N:"}
Empty    == [b \in Blocks |-> <<>>]
NoData   == <<>>
NoResult == [status |-> "NONE", data |-> NoData, dims |-> <<0, 0>>]

ResultInit ==
  /\ MergeInit
  /\ rpc = "idle" /\ final = FALSE /\ result = NoResult
  /\ entries = <<>> /\ path = "directory" /\ lines = <<>> /\ z = "null"
  /\ block = Empty /\ dims = <<0, 0>>

\* The list is written and the application started
StartMerging(l, last) ==
  /\ rpc = "idle"
  /\ ReadList(l) /\ UNCHANGED data
  /\ rpc' = "merging" /\ final' = last /\ result' = NoResult
  /\ UNCHANGED <<entries, path, lines, z, block, dims>>

MergeStep == MergeApp /\ UNCHANGED readVars

\* The application may fail at any point: a list it cannot open, a full disk, a
\* signal
MergeFails ==
  /\ rpc = "merging" /\ ppc \in {"inactive", "open", "seek", "trace", "next", "done"}
  /\ ppc' = "aborted"
  /\ UNCHANGED <<data, list, nopen, containing, nparticles, icur, rays, got, image, before, readVars>>

\* The state of a new merge; the files may be others by then
MergeReset ==
  /\ data' \in [File -> Content \cup {NoFile}] /\ list' = <<>>
  /\ ppc' = "off" /\ nopen' = 0
  /\ containing' = [k \in Entry |-> FALSE] /\ nparticles' = 0
  /\ icur' = 0 /\ rays' = 0 /\ got' = [k \in Entry |-> 0] /\ image' = Blank
  /\ before' = [k \in Entry |-> 0]

PublishNoResult ==
  /\ rpc = "merging" /\ ppc = "aborted"
  /\ result' = [status |-> "FAILURE", data |-> NoData, dims |-> <<0, 0>>]
  /\ rpc' = "idle" /\ final' = FALSE
  /\ MergeReset
  /\ UNCHANGED <<entries, path, lines, z, block, dims>>

-----------------------------------------------------------------------------
(* read_result and read_file *)

ReadDirectory(order) ==
  /\ rpc = "merging" /\ ppc = "done"
  /\ rpc' = "scan" /\ entries' = order
  /\ UNCHANGED <<mergeVars, final, path, lines, z, block, dims, result>>

\* The file McStas writes: the dimensions, then three images by rows, the intensity,
\* its error and the number of rays.  All three come from the neutrons of a pixel;
\* a value carries the name of its image, so that none is taken for another
Value     == Blocks \X Nat
Row(b, y) == [kind |-> "data", vals |-> [x \in 1 .. DIM_X |-> <<b, image[<<x, y>>]>>]]
Rows(b)   == [y \in 1 .. DIM_Y |-> Row(b, y)]
Header(k) == <<[kind |-> k, vals |-> <<>>]>>
DetectorFile ==
  Header("type") \o Header("I:") \o Rows("I:") \o Header("I_err:") \o Rows("I_err:")
    \o Header("N:") \o Rows("N:")

\* Every entry makes read_file read the file found so far; before the detector
\* file is met that is the directory, which cannot be read
FileAt(p) == IF p = "D22_Detector" THEN DetectorFile ELSE <<>>

NextEntry ==
  /\ rpc = "scan" /\ entries # <<>>
  /\ path' = IF Head(entries) = "D22_Detector" THEN "D22_Detector" ELSE path
  /\ lines' = FileAt(path')
  /\ entries' = Tail(entries) /\ z' = "null" /\ rpc' = "read"
  /\ UNCHANGED <<mergeVars, final, block, dims, result>>

Line(k) == rpc = "read" /\ lines # <<>> /\ Head(lines).kind = k

\* sscanf is an operand of assert: nothing is parsed
ReadType ==
  /\ Line("type")
  /\ lines' = Tail(lines)
  /\ UNCHANGED <<mergeVars, rpc, final, entries, path, z, block, dims, result>>

ClearedNot(b) == block[b]   \* mutant: z->clear() forgotten

\* z->clear()
Cleared(b) == <<>>

ReadHeading(b) ==
  /\ Line(b)
  /\ z' = b /\ block' = [block EXCEPT ![b] = Cleared(b)]
  /\ lines' = Tail(lines)
  /\ UNCHANGED <<mergeVars, rpc, final, entries, path, dims, result>>

\* Each value of the line, which ends with a blank
ReadData ==
  /\ Line("data") /\ z # "null"
  /\ block' = [block EXCEPT ![z] = @ \o Head(lines).vals]
  /\ lines' = Tail(lines)
  /\ UNCHANGED <<mergeVars, rpc, final, entries, path, z, dims, result>>

EndOfLines ==
  /\ rpc = "read" /\ lines = <<>>
  /\ rpc' = "scan"
  /\ UNCHANGED <<mergeVars, final, entries, path, lines, z, block, dims, result>>

ScanEnds == rpc = "scan" /\ entries = <<>>

ResultStatusFinal == "SUCCESS"   \* mutant: partial results published as final ones

\* The state of the simulation after this merge
ResultStatus == IF final THEN "SUCCESS" ELSE "RUNNING"

\* to_cameo sends the counts, the dimensions and the state of the simulation
PublishResult ==
  /\ ScanEnds
  /\ result' = [status |-> ResultStatus,
                data |-> block["I:"], dims |-> dims]
  /\ rpc' = "idle" /\ final' = FALSE
  /\ entries' = <<>> /\ path' = "directory" /\ z' = "null" /\ block' = Empty /\ dims' = <<0, 0>>
  /\ MergeReset
  /\ UNCHANGED lines

ReadStep ==
  \/ NextEntry \/ ReadType \/ (\E b \in Blocks : ReadHeading(b)) \/ ReadData
  \/ EndOfLines \/ PublishResult

ResultNext ==
  \/ \E l \in Listing, last \in BOOLEAN : StartMerging(l, last)
  \/ MergeStep \/ MergeFails \/ PublishNoResult
  \/ \E order \in Listings : ReadDirectory(order)
  \/ ReadStep

ResultSpec == ResultInit /\ [][ResultNext]_resultVars

\* The merge application and the worker run; no further merge need begin
ResultFairness ==
  /\ WF_resultVars(MergeStep)
  /\ WF_resultVars(PublishNoResult \/ (\E order \in Listings : ReadDirectory(order)) \/ ReadStep)

FairResultSpec == ResultSpec /\ ResultFairness

-----------------------------------------------------------------------------
(* Properties *)

\* Type invariant of the reader (that of the merge is MergeTypeOK)
ResultTypeOK ==
  /\ MergeTypeOK
  /\ rpc \in {"idle", "merging", "scan", "read"} /\ final \in BOOLEAN
  /\ entries \in Seq({"D22_Detector", "other"})
  /\ path \in {"directory", "D22_Detector"}
  /\ z \in Blocks \cup {"null"}
  /\ block \in [Blocks -> Seq(Value)]
  /\ dims \in Nat \X Nat
  /\ result.data \in Seq(Value) /\ result.dims \in Nat \X Nat

\* The neutrons of the listed files, by file and place, and how many of them go
\* to a pixel
AllNeutrons == UNION {{k} \X (1 .. Len(Holds(k))) : k \in 0 .. (nfiles - 1)}
Expected(p) == Cardinality({n \in AllNeutrons : Holds(n[1])[n[2]] = p})
\* The pixel at a place of the linearised image, x first
PixelAt(i)     == <<((i - 1) % DIM_X) + 1, ((i - 1) \div DIM_X) + 1>>

\* What the worker publishes of a merge that lists some file is the intensity of all
\* the neutrons of all the files listed, once, whatever the order the merge
\* directory is listed in, and however often the detector file is read while it is
\* (mcstas_server.cpp, lines 50-66; sim_result_server.cc, lines 13-45;
\* MCPL_input.comp).  Of a merge that lists none it publishes Stray rays
ImageServed ==
  [][result' # result /\ result'.status \in {"SUCCESS", "RUNNING"} /\ list # <<>> =>
       result'.data = [i \in 1 .. (DIM_X * DIM_Y) |-> <<"I:", Expected(PixelAt(i))>>]]_resultVars

\* The merge application and the reader implement ImageService: what the server
\* publishes is the image of the files it has listed, if it has listed any, and
\* never one in which a file is missing (mcstas_server.cpp, lines 50-66 and 409-420)
filesOf == IF rpc = "idle" THEN <<>> ELSE [i \in 1 .. nfiles |-> data[list[i]]]
Merging == INSTANCE ImageService WITH
  busy <- rpc # "idle", files <- filesOf, last <- final, status <- result.status, data <- result.data

ImplementsImageService == Merging!Spec

\* A merge that was begun is published, with or without a result, unless it has
\* left its arrays (mcstas_server.cpp, lines 381-421)
MergeEnds == rpc = "merging" ~> (rpc = "idle" \/ ppc = "overrun")

\* The data of a result are those of an image of the dimensions it carries, as
\* testserver.cpp checks (lines 43-45) and client_api/API.md tells the client
DetectorDims == result.data # NoData => Len(result.data) = result.dims[1] * result.dims[2]
=============================================================================
