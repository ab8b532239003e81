----------------------------- MODULE MergeInput -----------------------------
(***************************************************************************)
(* The merge application: MCPL_input.comp reads the list of the files the  *)
(* jobs have written, then all their neutrons one after the other, which   *)
(* the detector of ILL_D22_quick_merge.instr counts by pixel.  The indices *)
(* run over arrays of fixed length; a step outside them ends the model in  *)
(* "overrun", as anything may follow.                                      *)
(***************************************************************************)
EXTENDS Naturals, Sequences

CONSTANTS
  File,     \* the names of the files
  Pixel,    \* the pixels of the detector
  Missed,   \* a neutron that is absorbed, or hits no pixel
  Content,  \* what a file may hold: where each of its neutrons goes
  NoFile,   \* there is no such file
  Listing,  \* the lists of files the server may write
  Stray,    \* the images the rays of McStas itself may make
  ENTRIES   \* length of inputfiles and containing_particles (100)

Spot == Pixel \cup {Missed}

ASSUME MergeConstants ==
  /\ Missed \notin Pixel
  /\ Content \subseteq Seq(Spot)
  /\ NoFile \notin Content
  /\ Listing \subseteq Seq(File)
  /\ Stray \subseteq [Pixel -> Nat]
  /\ ENTRIES \in Nat \ {0}

VARIABLES
  data,        \* the files, which do not change during a merge
  list,        \* filenames
  ppc,         \* where the application is; "off" before and after
  nopen,       \* ifile of the loop that opens the files
  containing,  \* containing_particles
  nparticles,  \* the neutrons of the files opened so far, then of all
  icur,        \* icurrentfile
  rays,        \* neutrons McStas has asked for; it stops at nparticles
  got,         \* neutrons read from each file: where MCPL is in it
  image,       \* the neutrons counted in each pixel
  before       \* history: nparticles when each file was opened

mergeVars == <<data, list, ppc, nopen, containing, nparticles, icur, rays, got, image, before>>

Entry   == 0 .. (ENTRIES - 1)
nfiles  == Len(list)
Holds(k) == data[list[k + 1]]
Blank   == [p \in Pixel |-> 0]

MergeInit ==
  /\ data \in [File -> Content \cup {NoFile}] /\ list = <<>>
  /\ ppc = "off" /\ nopen = 0
  /\ containing = [k \in Entry |-> FALSE] /\ nparticles = 0
  /\ icur = 0 /\ rays = 0 /\ got = [k \in Entry |-> 0] /\ image = Blank
  /\ before = [k \in Entry |-> 0]

\* fgets until the end of the list.  An empty list, as that of a merge before any
\* job has succeeded, makes the component inactive
ReadList(l) ==
  /\ ppc = "off"
  /\ list' = l
  /\ ppc' = IF l = <<>> THEN "inactive" ELSE "open"
  /\ UNCHANGED <<nopen, containing, nparticles, icur, rays, got, image, before>>

\* An inactive component sets no count and touches no ray: those McStas makes by
\* default, as many as it makes by default, go on to the detector
PassThrough ==
  /\ ppc = "inactive"
  /\ image' \in Stray
  /\ ppc' = "done"
  /\ UNCHANGED <<data, list, nopen, containing, nparticles, icur, rays, got, before>>

-----------------------------------------------------------------------------
(* INITIALIZE *)

Opening == ppc = "open" /\ nopen < nfiles

HasNeutronsMany(k) == Len(Holds(k)) > 1   \* mutant: a file of one neutron is taken for empty
HasNeutronsAll(k)  == TRUE                 \* mutant: files without neutrons are not set aside

\* mcpl_hdr_nparticles
HasNeutrons(k) == Len(Holds(k)) # 0

OpenFile ==
  /\ Opening /\ nopen < ENTRIES /\ Holds(nopen) # NoFile
  /\ containing' = [containing EXCEPT ![nopen] = HasNeutrons(nopen)]
  /\ nparticles' = nparticles + Len(Holds(nopen))
  /\ before' = [before EXCEPT ![nopen] = nparticles]
  /\ nopen' = nopen + 1
  /\ UNCHANGED <<data, list, ppc, icur, rays, got, image>>

\* "mcpl will abort internally if it cannot open the file"
OpenMissing ==
  /\ Opening /\ nopen < ENTRIES /\ Holds(nopen) = NoFile
  /\ ppc' = "aborted"
  /\ UNCHANGED <<data, list, nopen, containing, nparticles, icur, rays, got, image, before>>

OpenBeyond ==
  /\ Opening /\ nopen >= ENTRIES
  /\ ppc' = "overrun"
  /\ UNCHANGED <<data, list, nopen, containing, nparticles, icur, rays, got, image, before>>

AllOpen ==
  /\ ppc = "open" /\ nopen = nfiles
  /\ ppc' = "seek"
  /\ UNCHANGED <<data, list, nopen, containing, nparticles, icur, rays, got, image, before>>

\* while (containing_particles[icurrentfile]==0) icurrentfile++
Seek ==
  /\ ppc = "seek"
  /\ IF icur \notin Entry THEN ppc' = "overrun" /\ icur' = icur
     ELSE IF containing[icur] THEN ppc' = "trace" /\ icur' = icur
     ELSE ppc' = ppc /\ icur' = icur + 1
  /\ UNCHANGED <<data, list, nopen, containing, nparticles, rays, got, image, before>>

-----------------------------------------------------------------------------
(* TRACE, called once for each ray *)

LastRayEarly == nparticles - 1   \* mutant: the last neutron is not asked for
LastRayLate  == nparticles + 1   \* mutant: one ray too many

\* mcset_ncount(repeat_cnt*nparticles)
LastRay == nparticles

\* The neutron read last and not counted yet
Neutron == Holds(icur)[got[icur] + 1]

\* It is counted in its pixel, if it has one
Take ==
  /\ image' = IF Neutron \in Pixel THEN [image EXCEPT ![Neutron] = @ + 1] ELSE image
  /\ got' = [got EXCEPT ![icur] = @ + 1]
  /\ rays' = rays + 1

Ray ==
  /\ ppc = "trace" /\ rays < LastRay
  /\ got[icur] < Len(Holds(icur))
  /\ Take
  /\ UNCHANGED <<data, list, ppc, nopen, containing, nparticles, icur, before>>

\* The file is at its end; repeat_cnt is 1, so the next one is looked for
EndOfFile ==
  /\ ppc = "trace" /\ rays < LastRay
  /\ got[icur] = Len(Holds(icur))
  /\ ppc' = "next" /\ icur' = icur + 1
  /\ UNCHANGED <<data, list, nopen, containing, nparticles, rays, got, image, before>>

\* while (++icurrentfile<nfiles && containing_particles[icurrentfile]==0)
MustSkip == icur < nfiles /\ ~containing[icur]

FollowingNot == icur   \* mutant: the loop tests the same file again

Following == icur + 1

SkipFile ==
  /\ ppc = "next" /\ MustSkip
  /\ icur' = Following
  /\ UNCHANGED <<data, list, ppc, nopen, containing, nparticles, rays, got, image, before>>

\* The ray goes on in the file found, or is absorbed when there is none
NextFile ==
  /\ ppc = "next" /\ ~MustSkip
  /\ ppc' = "trace"
  /\ IF icur < nfiles THEN Take ELSE rays' = rays + 1 /\ UNCHANGED <<got, image>>
  /\ UNCHANGED <<data, list, nopen, containing, nparticles, icur, before>>

Finish ==
  /\ ppc = "trace" /\ rays >= LastRay
  /\ ppc' = "done"
  /\ UNCHANGED <<data, list, nopen, containing, nparticles, icur, rays, got, image, before>>

MergeApp ==
  \/ PassThrough \/ OpenFile \/ OpenMissing \/ OpenBeyond \/ AllOpen \/ Seek
  \/ Ray \/ EndOfFile \/ SkipFile \/ NextFile \/ Finish

-----------------------------------------------------------------------------
(* Properties *)

MergePcs == {"off", "inactive", "open", "seek", "trace", "next", "done", "aborted", "overrun"}

MergeTypeOK ==
  /\ data \in [File -> Content \cup {NoFile}]
  /\ list \in Seq(File)
  /\ ppc \in MergePcs
  /\ nopen \in Nat /\ nparticles \in Nat /\ icur \in 0 .. ENTRIES /\ rays \in 0 .. nparticles
  /\ containing \in [Entry -> BOOLEAN]
  /\ got \in [Entry -> Nat] /\ before \in [Entry -> Nat]
  /\ image \in [Pixel -> Nat]

\* The arrays are left only by a list longer than they are, or by one of empty
\* files only: every other list is merged within them, wherever the empty files
\* are in it (MCPL_input.comp, lines 105-123 and 193-199)
NoOverrun ==
  ppc = "overrun" => \/ nfiles > ENTRIES
                     \/ \A k \in 0 .. (nfiles - 1) : Holds(k) = <<>>

\* TRACE reads from a file that is open: the files without neutrons were closed
\* when they were listed.  It never looks for a file after the last one, so the
\* ray that line 199 would absorb, shifting the count, does not happen
ReadsOpenFile ==
  /\ ppc = "trace" => icur \in Entry /\ icur < nfiles /\ Holds(icur) # <<>>
  /\ ppc = "next" => icur < nfiles

\* A merge that ends has read each neutron of each listed file, and as many
\* neutrons as it announced: none is skipped with the empty files, none is read
\* twice at the passage from a file to the next
AllRead ==
  ppc = "done" => \A k \in 0 .. (nfiles - 1) : got[k] = Len(Holds(k))
=============================================================================
