---------------------------- MODULE ImageService ----------------------------
(***************************************************************************)
(* What merging promises, without list files, arrays, rays or lines: asked *)
(* for the image of some files, it publishes once, either the number of    *)
(* their neutrons in each pixel or that it has failed; it has failed if    *)
(* one of them is missing.  Asked for the image of no file, it promises an *)
(* image, and not that it is blank.  It publishes as final what it was     *)
(* asked for as final.                                                     *)
(***************************************************************************)
EXTENDS Integers, Sequences, FiniteSets

CONSTANTS
  NoFile,       \* there is no such file
  DIM_X, DIM_Y  \* the size of the detector

VARIABLES
  busy,   \* whether an image has been asked for
  files,  \* what the files it is to be made of hold
  last,   \* whether it is the last one of the simulation
  status, data  \* what was published, until the next image is asked for

vars == <<busy, files, last, status, data>>

\* The neutrons of the files, which are numbered from 0, and the pixel of each
\* place of the image, x first
Neutrons(fs)    == UNION {{k} \X (1 .. Len(fs[k + 1])) : k \in 0 .. (Len(fs) - 1)}
GoesTo(fs, n)   == fs[n[1] + 1][n[2]]
PixelAt(i)      == <<((i - 1) % DIM_X) + 1, ((i - 1) \div DIM_X) + 1>>
Place == 1 .. (DIM_X * DIM_Y)

\* The intensities, "I:" in the file of the detector
Image(fs) ==
  [i \in Place |-> <<"I:", Cardinality({n \in Neutrons(fs) : GoesTo(fs, n) = PixelAt(i)})>>]

Images(fs) == IF fs = <<>> THEN [Place -> {"I:"} \X Nat] ELSE {Image(fs)}

Missing(fs) == \E i \in DOMAIN fs : fs[i] = NoFile

Init == ~busy /\ files = <<>> /\ last = FALSE /\ status = "NONE" /\ data = <<>>

Ask ==
  /\ ~busy /\ busy'
  /\ last' \in BOOLEAN
  /\ status' = "NONE" /\ data' = <<>>

Publish(s, images) ==
  /\ busy /\ ~busy'
  /\ status' = s /\ data' \in images
  /\ files' = <<>> /\ last' = FALSE

Serve  == ~Missing(files) /\ Publish(IF last THEN "SUCCESS" ELSE "RUNNING", Images(files))
Refuse == Publish("FAILURE", {<<>>})

Next == Ask \/ Serve \/ Refuse

Spec == Init /\ [][Next]_vars
=============================================================================
