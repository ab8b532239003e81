----------------------------- MODULE MergeProofs ----------------------------
(***************************************************************************)
(* Proofs that a merge stays within its arrays and reads every neutron of  *)
(* every listed file, for any length of the arrays, any list and any files.*)
(***************************************************************************)
EXTENDS MergeResult, TLAPS

-----------------------------------------------------------------------------
(* The inductive invariant *)

Fresh ==
  /\ list = <<>> /\ nopen = 0 /\ nparticles = 0 /\ icur = 0 /\ rays = 0
  /\ containing = [k \in Entry |-> FALSE] /\ got = [k \in Entry |-> 0]

\* The neutrons of the files up to k, the end of file k in the whole sequence
EndOf(k) == before[k] + Len(Holds(k))
Opened   == 0 .. (nopen - 1)

\* The files opened so far lie one after the other in that sequence
OpenInv ==
  /\ nopen <= nfiles /\ nopen <= ENTRIES
  /\ \A k \in Opened : Holds(k) \in Content /\ (containing[k] <=> Len(Holds(k)) # 0)
  /\ \A k \in Entry : k >= nopen => ~containing[k]
  /\ nopen = 0 => nparticles = 0
  /\ nopen > 0 => before[0] = 0 /\ nparticles = EndOf(nopen - 1)
  /\ \A k \in Opened : k + 1 < nopen => before[k + 1] = EndOf(k)
  /\ \A a, b \in Opened : a < b => EndOf(a) <= before[b]
  /\ \A k \in Opened : EndOf(k) <= nparticles

Reading == ppc \in {"seek", "trace", "next"}

\* The files before the current one are read, those after it are not
PassInv ==
  /\ \A k \in Opened : k < icur => got[k] = Len(Holds(k))
  /\ \A k \in Opened : k > icur => got[k] = 0

SeekInv ==
  /\ rays = 0 /\ got = [k \in Entry |-> 0]
  /\ \A k \in Entry : k < icur => ~containing[k]
  /\ icur < nopen => before[icur] = 0

TraceInv ==
  /\ icur < nopen /\ containing[icur]
  /\ rays = before[icur] + got[icur]
  /\ got[icur] <= Len(Holds(icur))
  /\ PassInv

NextInv ==
  /\ icur < nopen /\ got[icur] = 0
  /\ rays = before[icur] /\ rays < nparticles
  /\ PassInv

MergeInv ==
  /\ MergeTypeOK
  /\ ppc = "off" => Fresh
  /\ ppc = "open" => OpenInv /\ icur = 0 /\ rays = 0 /\ got = [k \in Entry |-> 0]
  /\ Reading => OpenInv /\ nopen = nfiles /\ nopen > 0
  /\ ppc = "open" => list # <<>>
  /\ ppc = "inactive" => list = <<>>
  /\ ppc = "seek" => SeekInv
  /\ ppc = "trace" => TraceInv
  /\ ppc = "next" => NextInv
  /\ AllRead /\ NoOverrun

-----------------------------------------------------------------------------
(* Lemmas *)

LEMMA IndexFacts ==
  ASSUME MergeTypeOK
  PROVE  /\ nfiles \in Nat /\ ENTRIES \in Nat /\ ENTRIES > 0
         /\ nopen \in Nat /\ nparticles \in Nat /\ icur \in Nat /\ rays \in Nat
         /\ icur <= ENTRIES /\ rays <= nparticles
         /\ Entry \subseteq Nat /\ \A k \in Nat : k \in Entry <=> k < ENTRIES
BY MergeConstants DEF MergeTypeOK, nfiles, Entry

\* A listed file that exists is a sequence of spots
LEMMA FileFacts ==
  ASSUME MergeTypeOK, NEW k \in Nat, k < nfiles
  PROVE  /\ Holds(k) \in Content \cup {NoFile}
         /\ Holds(k) \in Content => Len(Holds(k)) \in Nat /\ Holds(k) \in Seq(Spot)
<1>1. k + 1 \in 1 .. Len(list)
  BY DEF nfiles, MergeTypeOK
<1>2. list[k + 1] \in File
  BY <1>1 DEF MergeTypeOK
<1>3. data[list[k + 1]] \in Content \cup {NoFile}
  BY <1>2 DEF MergeTypeOK
<1> QED
  BY <1>3, MergeConstants DEF Holds

\* Beginning a merge: the merge state is fresh when the worker has none
LEMMA ResetInv == ASSUME MergeReset PROVE MergeInv'
<1>1. MergeTypeOK'
  BY MergeConstants DEF MergeReset, MergeTypeOK, MergePcs, Blank, Entry
<1>2. Fresh' /\ ppc' = "off"
  BY DEF MergeReset, Fresh
<1> QED
  BY <1>1, <1>2 DEF MergeInv, Reading, AllRead, NoOverrun

LEMMA InitMerge == MergeInit => MergeInv
<1> SUFFICES ASSUME MergeInit PROVE MergeInv
  OBVIOUS
<1>1. MergeTypeOK
  BY MergeConstants DEF MergeInit, MergeTypeOK, MergePcs, Blank, Entry
<1>2. Fresh /\ ppc = "off"
  BY DEF MergeInit, Fresh
<1> QED
  BY <1>1, <1>2 DEF MergeInv, Reading, AllRead, NoOverrun

LEMMA ReadListInv ==
  ASSUME MergeInv, NEW l \in Listing, ReadList(l), UNCHANGED data
  PROVE  MergeInv'
<1>1. MergeTypeOK /\ Fresh
  BY DEF MergeInv, ReadList
<1>2. MergeTypeOK'
  BY <1>1, MergeConstants DEF MergeTypeOK, ReadList, MergePcs, Entry
<1>3. /\ list' = l /\ l \in Seq(File)
      /\ UNCHANGED <<nopen, containing, nparticles, icur, rays, got, before>>
  BY MergeConstants DEF ReadList
<1>4. CASE l = <<>>
  <2>1. ppc' = "inactive" /\ nfiles' = 0
    BY <1>3, <1>4 DEF ReadList, nfiles
  <2> QED
    BY <1>2, <1>3, <1>4, <2>1 DEF MergeInv, Reading, AllRead, NoOverrun
<1>5. CASE l # <<>>
  <2>1. ppc' = "open" /\ list' # <<>> /\ nfiles' \in Nat
    BY <1>3, <1>5 DEF ReadList, nfiles
  <2>2. nopen' = 0 /\ nparticles' = 0 /\ icur' = 0 /\ rays' = 0
        /\ containing' = [k \in Entry |-> FALSE] /\ got' = [k \in Entry |-> 0]
    BY <1>1, <1>3 DEF Fresh
  <2>3. OpenInv'
    BY <2>1, <2>2, MergeConstants DEF OpenInv, Opened
  <2> QED
    BY <1>2, <2>1, <2>2, <2>3 DEF MergeInv, Reading, AllRead, NoOverrun
<1> QED
  BY <1>4, <1>5

\* The rays of McStas touch the image only
LEMMA PassThroughInv ==
  ASSUME MergeInv, PassThrough
  PROVE  MergeInv'
<1>1. MergeTypeOK /\ list = <<>> /\ UNCHANGED <<data, list, nopen, containing, nparticles, icur, rays, got, before>>
  BY DEF MergeInv, PassThrough
<1>2. ppc' = "done" /\ image' \in [Pixel -> Nat]
  BY MergeConstants DEF PassThrough
<1>3. MergeTypeOK'
  BY <1>1, <1>2 DEF MergeTypeOK, MergePcs
<1>4. nfiles' = 0
  BY <1>1 DEF nfiles
<1> QED
  BY <1>2, <1>3, <1>4 DEF MergeInv, Reading, AllRead, NoOverrun

\* Nothing is said of a merge that failed
LEMMA MergeFailsInv ==
  ASSUME MergeInv, MergeFails
  PROVE  MergeInv'
<1>1. MergeTypeOK'
  BY DEF MergeInv, MergeFails, MergeTypeOK, MergePcs
<1> QED
  BY <1>1 DEF MergeFails, MergeInv, Reading, AllRead, NoOverrun

LEMMA OpenFileInv ==
  ASSUME MergeInv, OpenFile
  PROVE  MergeInv'
<1>1. MergeTypeOK /\ OpenInv /\ ppc = "open" /\ ppc' = "open" /\ nopen < nfiles /\ nopen < ENTRIES
  BY DEF MergeInv, OpenFile, Opening
<1>2. UNCHANGED <<data, list, icur, rays, got, image>> /\ Holds(nopen) # NoFile
  BY DEF OpenFile
<1>3. /\ nfiles' = nfiles /\ \A k \in Nat : Holds(k)' = Holds(k)
  BY <1>2 DEF nfiles, Holds
<1>4. /\ nfiles \in Nat /\ ENTRIES \in Nat /\ nopen \in Nat /\ nparticles \in Nat /\ nopen \in Entry
      /\ Entry \subseteq Nat
  BY <1>1, IndexFacts
<1>5. Holds(nopen) \in Content /\ Len(Holds(nopen)) \in Nat
  BY <1>1, <1>2, <1>4, FileFacts
<1>6. /\ containing' = [containing EXCEPT ![nopen] = Len(Holds(nopen)) # 0]
      /\ nparticles' = nparticles + Len(Holds(nopen))
      /\ before' = [before EXCEPT ![nopen] = nparticles]
      /\ nopen' = nopen + 1
  BY DEF OpenFile, HasNeutrons
<1>7. /\ containing'[nopen] = (Len(Holds(nopen)) # 0) /\ before'[nopen] = nparticles
      /\ \A k \in Entry : k # nopen => containing'[k] = containing[k] /\ before'[k] = before[k]
  BY <1>1, <1>4, <1>6 DEF MergeTypeOK
<1>8. MergeTypeOK'
  <2>1. containing' \in [Entry -> BOOLEAN] /\ before' \in [Entry -> Nat]
    <3>1. (Len(Holds(nopen)) # 0) \in BOOLEAN
      OBVIOUS
    <3>2. containing \in [Entry -> BOOLEAN] /\ before \in [Entry -> Nat]
      BY <1>1 DEF MergeTypeOK
    <3> HIDE DEF Holds
    <3> QED
      BY <1>4, <1>6, <3>1, <3>2
  <2>2. rays' \in 0 .. nparticles' /\ nparticles' \in Nat /\ nopen' \in Nat
    BY <1>1, <1>2, <1>4, <1>5, <1>6 DEF MergeTypeOK
  <2> QED
    BY <1>1, <1>2, <2>1, <2>2 DEF MergeTypeOK
<1>9. \A k \in Opened : /\ k \in Nat /\ k < nopen /\ k \in Entry /\ k # nopen
                        /\ Len(Holds(k)) \in Nat /\ EndOf(k)' = EndOf(k)
                        /\ EndOf(k) \in Int /\ before[k] \in Nat
  <2> SUFFICES ASSUME NEW k \in Opened
               PROVE  /\ k \in Nat /\ k < nopen /\ k \in Entry /\ k # nopen
                      /\ Len(Holds(k)) \in Nat /\ EndOf(k)' = EndOf(k)
                      /\ EndOf(k) \in Int /\ before[k] \in Nat
    OBVIOUS
  <2>1. k \in Nat /\ k < nopen /\ k # nopen /\ k \in Entry /\ k < nfiles
    BY <1>1, <1>4, IndexFacts DEF Opened
  <2>2. Len(Holds(k)) \in Nat
    BY <1>1, <2>1, FileFacts DEF OpenInv
  <2>3. before'[k] = before[k] /\ before[k] \in Nat
    BY <1>1, <1>7, <2>1 DEF MergeTypeOK
  <2> QED
    BY <1>3, <2>1, <2>2, <2>3 DEF EndOf
<1> PICK n \in Nat : n = nopen
  BY <1>4
<1>10. EndOf(n)' = nparticles'
  <2>1. Holds(n)' = Holds(n)
    BY <1>3
  <2>2. before'[n] = nparticles
    BY <1>7
  <2> QED
    BY <1>6, <2>1, <2>2 DEF EndOf
<1>11. \A k \in Opened' : k \in Opened \/ k = n
  BY <1>4, <1>6 DEF Opened
<1>12. OpenInv'
  <2>1. nopen' <= nfiles' /\ nopen' <= ENTRIES
    BY <1>1, <1>3, <1>4, <1>6
  <2>2. \A k \in Opened' : Holds(k)' \in Content /\ (containing'[k] <=> Len(Holds(k)') # 0)
    <3> SUFFICES ASSUME NEW k \in Opened'
                 PROVE  Holds(k)' \in Content /\ (containing'[k] <=> Len(Holds(k)') # 0)
      OBVIOUS
    <3>1. CASE k \in Opened
      <4>1. Holds(k)' = Holds(k) /\ containing'[k] = containing[k]
        BY <1>3, <1>7, <1>9, <3>1
      <4> QED
        BY <1>1, <3>1, <4>1 DEF OpenInv
    <3>2. CASE k = n
      <4>1. Holds(k)' = Holds(k)
        BY <1>3, <3>2
      <4>2. Holds(k) \in Content /\ (containing'[k] <=> Len(Holds(k)) # 0)
        BY <1>5, <1>7, <3>2
      <4> QED
        BY <4>1, <4>2
    <3> QED
      BY <1>11, <3>1, <3>2
  <2>3. \A k \in Entry : k >= nopen' => ~containing'[k]
    BY <1>1, <1>4, <1>6, <1>7 DEF OpenInv
  <2>4. nopen' > 0 /\ nopen' - 1 = nopen /\ nopen' # 0
    BY <1>4, <1>6
  <2>5. before'[0] = 0
    <3>1. CASE nopen = 0
      BY <1>1, <1>7, <3>1 DEF OpenInv
    <3>2. CASE nopen > 0
      BY <1>1, <1>4, <1>7, <1>9, <3>2 DEF OpenInv, Opened
    <3> QED
      BY <1>4, <3>1, <3>2
  <2>6. nparticles' = EndOf(nopen - 1)'
    <3>1. nopen' - 1 = n
      BY <2>4
    <3>2. EndOf(nopen - 1)' = EndOf(n)'
      BY <3>1 DEF EndOf, Holds
    <3> QED
      BY <1>10, <3>2
  <2>7. ASSUME NEW k \in Opened', k + 1 < nopen' PROVE before'[k + 1] = EndOf(k)'
    <3>1. k \in Opened
      BY <1>4, <1>6, <1>11, <2>7
    <3>2. CASE k + 1 = nopen
      BY <1>1, <1>7, <1>9, <3>1, <3>2 DEF OpenInv
    <3>3. CASE k + 1 < nopen
      <4>1. k + 1 \in Opened
        BY <1>4, <1>9, <3>1, <3>3 DEF Opened
      <4> QED
        BY <1>1, <1>7, <1>9, <3>1, <3>3, <4>1 DEF OpenInv
    <3> QED
      BY <1>4, <1>9, <3>1, <3>2, <3>3, <2>7, <1>6
  <2>8. ASSUME NEW a \in Opened', NEW b \in Opened', a < b PROVE EndOf(a)' <= before'[b]
    <3>1. a \in Opened
      BY <1>4, <1>6, <1>9, <1>11, <2>8
    <3>2. CASE b \in Opened
      BY <1>1, <1>7, <1>9, <2>8, <3>1, <3>2 DEF OpenInv
    <3>3. CASE b = n
      BY <1>1, <1>7, <1>9, <3>1, <3>3 DEF OpenInv
    <3> QED
      BY <1>11, <3>2, <3>3
  <2>9. ASSUME NEW k \in Opened' PROVE EndOf(k)' <= nparticles'
    <3>1. CASE k \in Opened
      BY <1>1, <1>4, <1>5, <1>6, <1>9, <3>1 DEF OpenInv
    <3>2. CASE k = n
      <4>1. EndOf(k)' = nparticles'
        BY <1>10, <3>2
      <4> QED
        BY <1>4, <1>5, <1>6, <4>1
    <3> QED
      BY <1>11, <3>1, <3>2
  <2> QED
    BY <2>1, <2>2, <2>3, <2>4, <2>5, <2>6, <2>7, <2>8, <2>9 DEF OpenInv
<1>13. icur' = 0 /\ rays' = 0 /\ got' = [k \in Entry |-> 0] /\ list' # <<>>
  BY <1>1, <1>2 DEF MergeInv
<1> QED
  BY <1>1, <1>8, <1>12, <1>13 DEF MergeInv, Reading, AllRead, NoOverrun

\* The files do not change once they are open
LEMMA SameFiles ==
  ASSUME UNCHANGED <<data, list, nopen, containing, nparticles, before>>
  PROVE  /\ OpenInv => OpenInv'
         /\ nfiles' = nfiles /\ Opened' = Opened
         /\ \A k \in Nat : Holds(k)' = Holds(k) /\ EndOf(k)' = EndOf(k)
BY DEF OpenInv, Opened, EndOf, Holds, nfiles

\* Numbers and files, while the files are read
LEMMA ReadFacts ==
  ASSUME MergeInv, Reading
  PROVE  /\ nopen = nfiles /\ nopen <= ENTRIES
         /\ \A k \in Opened : /\ k \in Entry /\ k \in Nat /\ k < nopen
                              /\ Holds(k) \in Seq(Spot) /\ Len(Holds(k)) \in Nat
                              /\ before[k] \in Nat /\ got[k] \in Nat
                              /\ EndOf(k) = before[k] + Len(Holds(k)) /\ EndOf(k) <= nparticles
                              /\ k + 1 = nopen => EndOf(k) = nparticles
                              /\ k + 1 < nopen => k + 1 \in Opened /\ before[k + 1] = EndOf(k)
                              /\ containing[k] <=> Len(Holds(k)) # 0
         /\ \A k \in Nat : k < nopen => k \in Opened
<1>1. MergeTypeOK /\ OpenInv /\ nopen = nfiles /\ nopen > 0
  BY DEF MergeInv
<1>2. nopen \in Nat /\ nopen <= ENTRIES
  BY <1>1, IndexFacts DEF OpenInv
<1>3. ASSUME NEW k \in Opened
      PROVE  k \in Entry /\ k \in Nat /\ k < nopen /\ k < nfiles
  BY <1>1, <1>2, <1>3, IndexFacts DEF Opened
<1>4. ASSUME NEW k \in Opened
      PROVE  /\ Holds(k) \in Seq(Spot) /\ Len(Holds(k)) \in Nat
             /\ before[k] \in Nat /\ got[k] \in Nat
  <2>1. Holds(k) \in Content
    BY <1>1, <1>4 DEF OpenInv
  <2>2. before[k] \in Nat /\ got[k] \in Nat
    BY <1>1, <1>3, <1>4 DEF MergeTypeOK
  <2> QED
    BY <1>1, <1>3, <2>1, <2>2, FileFacts
<1>5. ASSUME NEW k \in Opened, k + 1 = nopen PROVE EndOf(k) = nparticles
  <2>1. k = nopen - 1
    BY <1>2, <1>3, <1>5
  <2> QED
    BY <1>1, <2>1 DEF OpenInv
<1>6. ASSUME NEW k \in Opened, k + 1 < nopen
      PROVE  k + 1 \in Opened /\ before[k + 1] = EndOf(k)
  <2>1. k + 1 \in Opened
    BY <1>2, <1>3, <1>6 DEF Opened
  <2> QED
    BY <1>1, <1>6, <2>1 DEF OpenInv
<1>7. \A k \in Nat : k < nopen => k \in Opened
  BY <1>2 DEF Opened
<1>8. \A k \in Opened : EndOf(k) <= nparticles /\ (containing[k] <=> Len(Holds(k)) # 0)
  BY <1>1 DEF OpenInv
<1> QED
  BY <1>1, <1>2, <1>3, <1>4, <1>5, <1>6, <1>7, <1>8 DEF EndOf

\* The end of a file is the beginning of the next one, or the end of them all
LEMMA FileEnd ==
  ASSUME MergeInv, Reading, NEW k \in Opened
  PROVE  /\ EndOf(k) = before[k] + Len(Holds(k)) /\ EndOf(k) \in Nat
         /\ \/ k + 1 = nopen /\ EndOf(k) = nparticles
            \/ k + 1 < nopen /\ k + 1 \in Opened /\ before[k + 1] = EndOf(k)
<1>1. /\ k \in Nat /\ k < nopen /\ Len(Holds(k)) \in Nat /\ before[k] \in Nat
      /\ EndOf(k) = before[k] + Len(Holds(k))
      /\ k + 1 = nopen => EndOf(k) = nparticles
      /\ k + 1 < nopen => k + 1 \in Opened /\ before[k + 1] = EndOf(k)
  BY ReadFacts
<1>2. nopen \in Nat
  BY IndexFacts DEF MergeInv
<1>3. k + 1 = nopen \/ k + 1 < nopen
  BY <1>1, <1>2
<1>4. EndOf(k) \in Nat
  BY <1>1
<1> QED
  BY <1>1, <1>3, <1>4

LEMMA OpenEndsInv ==
  ASSUME MergeInv, OpenMissing \/ OpenBeyond \/ AllOpen
  PROVE  MergeInv'
<1>1. MergeTypeOK /\ OpenInv /\ ppc = "open" /\ icur = 0 /\ rays = 0
      /\ got = [k \in Entry |-> 0] /\ list # <<>>
  BY DEF MergeInv, OpenMissing, OpenBeyond, AllOpen, Opening
<1>2. UNCHANGED <<data, list, nopen, containing, nparticles, icur, rays, got, image, before>>
      /\ ppc' \in MergePcs
  BY DEF OpenMissing, OpenBeyond, AllOpen, MergePcs
<1>3. MergeTypeOK'
  BY <1>1, <1>2 DEF MergeTypeOK
<1>4. /\ nfiles \in Nat /\ nopen \in Nat /\ ENTRIES \in Nat /\ ENTRIES > 0 /\ nfiles' = nfiles
  BY <1>1, <1>2, IndexFacts DEF nfiles
<1>5. CASE OpenMissing
  BY <1>3, <1>5 DEF OpenMissing, MergeInv, Reading, AllRead, NoOverrun
<1>6. CASE OpenBeyond
  <2>1. ppc' = "overrun" /\ nfiles' > ENTRIES
    BY <1>4, <1>6 DEF OpenBeyond, Opening
  <2> QED
    BY <1>3, <2>1 DEF MergeInv, Reading, AllRead, NoOverrun
<1>7. CASE AllOpen
  <2>1. ppc' = "seek" /\ nopen = nfiles
    BY <1>7 DEF AllOpen
  <2>2. nopen > 0
    BY <1>1, <1>4, <2>1 DEF MergeTypeOK, nfiles
  <2>3. OpenInv'
    BY <1>1, <1>2, SameFiles
  <2>4. SeekInv'
    <3>1. before'[0] = 0
      BY <1>1, <1>2, <2>2 DEF OpenInv
    <3>2. \A k \in Entry : ~(k < 0)
      BY <1>1, IndexFacts
    <3> QED
      BY <1>1, <1>2, <3>1, <3>2 DEF SeekInv
  <2> QED
    BY <1>2, <1>3, <1>4, <2>1, <2>2, <2>3, <2>4 DEF MergeInv, Reading, AllRead, NoOverrun
<1> QED
  BY <1>5, <1>6, <1>7

LEMMA SeekStepInv ==
  ASSUME MergeInv, Seek
  PROVE  MergeInv'
<1>1. MergeTypeOK /\ OpenInv /\ SeekInv /\ ppc = "seek" /\ Reading /\ nopen > 0
  BY DEF MergeInv, Seek, Reading
<1>2. UNCHANGED <<data, list, nopen, containing, nparticles, rays, got, image, before>>
  BY DEF Seek
<1>3. OpenInv' /\ nfiles' = nfiles /\ \A k \in Nat : Holds(k)' = Holds(k)
  BY <1>1, <1>2, SameFiles
<1>4. /\ nopen = nfiles /\ nopen \in Nat /\ icur \in Nat /\ icur <= ENTRIES /\ ENTRIES \in Nat
      /\ Entry \subseteq Nat /\ \A k \in Nat : k \in Entry <=> k < ENTRIES
  BY <1>1, ReadFacts, IndexFacts
<1>5. CASE icur \notin Entry
  <2>1. ppc' = "overrun" /\ icur' = icur /\ icur = ENTRIES
    BY <1>4, <1>5 DEF Seek
  <2>2. \A k \in 0 .. (nfiles - 1) : Holds(k) = <<>>
    <3> SUFFICES ASSUME NEW k \in 0 .. (nfiles - 1) PROVE Holds(k) = <<>>
      OBVIOUS
    <3>1. k \in Opened
      BY <1>4 DEF Opened
    <3>2. k \in Entry /\ k < icur
      BY <1>1, <1>4, <2>1, <3>1, ReadFacts
    <3>3. Len(Holds(k)) = 0 /\ Holds(k) \in Seq(Spot)
      BY <1>1, <3>1, <3>2, ReadFacts DEF SeekInv
    <3> QED
      BY <3>3
  <2>3. MergeTypeOK'
    BY <1>1, <1>2, <2>1 DEF MergeTypeOK, MergePcs
  <2>4. NoOverrun'
    BY <1>3, <1>4, <2>2 DEF NoOverrun
  <2> QED
    BY <2>1, <2>3, <2>4 DEF MergeInv, Reading, AllRead
<1>6. CASE icur \in Entry /\ containing[icur]
  <2>1. ppc' = "trace" /\ icur' = icur
    BY <1>6 DEF Seek
  <2>2. icur < nopen
    BY <1>1, <1>4, <1>6 DEF OpenInv
  <2>3. icur \in Opened /\ before[icur] = 0 /\ got[icur] = 0 /\ rays = 0 /\ Len(Holds(icur)) \in Nat
    BY <1>1, <1>4, <1>6, <2>2, ReadFacts DEF SeekInv
  <2>4. PassInv
    <3>1. ASSUME NEW k \in Opened PROVE got[k] = 0
      BY <1>1, ReadFacts DEF SeekInv
    <3>2. ASSUME NEW k \in Opened, k < icur PROVE Len(Holds(k)) = 0
      BY <1>1, <3>2, ReadFacts DEF SeekInv
    <3> QED
      BY <3>1, <3>2 DEF PassInv
  <2>5. TraceInv'
    <3>1. PassInv'
      BY <1>2, <2>1, <2>4 DEF PassInv, Opened, Holds
    <3>2. Holds(icur)' = Holds(icur)
      BY <1>2, <2>1 DEF Holds
    <3>3. icur < nopen /\ containing[icur] /\ rays = before[icur] + got[icur]
          /\ got[icur] <= Len(Holds(icur))
      BY <1>6, <2>2, <2>3
    <3>4. UNCHANGED <<icur, nopen, containing, rays, before, got>>
      BY <1>2, <2>1
    <3> HIDE DEF Holds
    <3> QED
      BY <3>1, <3>2, <3>3, <3>4 DEF TraceInv
  <2>6. MergeTypeOK'
    BY <1>1, <1>2, <2>1 DEF MergeTypeOK, MergePcs
  <2> QED
    BY <1>1, <1>2, <1>3, <1>4, <2>1, <2>5, <2>6 DEF MergeInv, Reading, AllRead, NoOverrun
<1>7. CASE icur \in Entry /\ ~containing[icur]
  <2>1. ppc' = "seek" /\ icur' = icur + 1
    BY <1>1, <1>7 DEF Seek
  <2>2. icur' \in 0 .. ENTRIES
    BY <1>4, <1>7, <2>1
  <2>3. MergeTypeOK'
    BY <1>1, <1>2, <2>1, <2>2 DEF MergeTypeOK, MergePcs
  <2>4. \A k \in Entry : k < icur + 1 => ~containing[k]
    BY <1>1, <1>4, <1>7 DEF SeekInv
  <2>5. icur + 1 < nopen => before[icur + 1] = 0
    <3> SUFFICES ASSUME icur + 1 < nopen PROVE before[icur + 1] = 0
      OBVIOUS
    <3>1. icur \in Opened /\ icur < nopen
      BY <1>1, <1>4, ReadFacts
    <3>2. before[icur] = 0 /\ Len(Holds(icur)) = 0
      BY <1>1, <1>7, <3>1, ReadFacts DEF SeekInv
    <3>3. before[icur + 1] = EndOf(icur) /\ EndOf(icur) = before[icur] + Len(Holds(icur))
      BY <1>1, <1>4, <3>1, FileEnd
    <3> QED
      BY <3>2, <3>3
  <2>6. SeekInv'
    BY <1>1, <1>2, <2>1, <2>4, <2>5 DEF SeekInv
  <2> QED
    BY <1>1, <1>2, <1>3, <1>4, <2>1, <2>3, <2>6 DEF MergeInv, Reading, AllRead, NoOverrun
<1> QED
  BY <1>5, <1>6, <1>7

\* Reading one neutron more from the current file
LEMMA TakeFacts ==
  ASSUME MergeInv, Reading, icur < nopen, got[icur] < Len(Holds(icur)), Take
  PROVE  /\ icur \in Opened /\ got'[icur] = got[icur] + 1 /\ rays' = rays + 1
         /\ \A k \in Opened : k # icur => got'[k] = got[k]
         /\ got' \in [Entry -> Nat] /\ image' \in [Pixel -> Nat]
<1>1. MergeTypeOK /\ icur \in Nat
  BY IndexFacts DEF MergeInv
<1>2. icur \in Opened /\ icur \in Entry /\ Holds(icur) \in Seq(Spot) /\ got[icur] \in Nat
  BY <1>1, ReadFacts
<1>3. \A k \in Opened : k \in Entry
  BY ReadFacts
<1>4. got' = [got EXCEPT ![icur] = @ + 1]
      /\ image' = (IF Neutron \in Pixel THEN [image EXCEPT ![Neutron] = @ + 1] ELSE image)
      /\ rays' = rays + 1
  BY DEF Take
<1>6. got \in [Entry -> Nat] /\ image \in [Pixel -> Nat]
  BY <1>1 DEF MergeTypeOK
<1>7. image' \in [Pixel -> Nat]
  BY <1>4, <1>6
<1>8. got' \in [Entry -> Nat] /\ got'[icur] = got[icur] + 1
      /\ \A k \in Entry : k # icur => got'[k] = got[k]
  BY <1>2, <1>4, <1>6
<1> QED
  BY <1>2, <1>3, <1>4, <1>7, <1>8

LEMMA TraceStepInv ==
  ASSUME MergeInv, Ray \/ EndOfFile \/ Finish
  PROVE  MergeInv'
<1>1. MergeTypeOK /\ OpenInv /\ TraceInv /\ ppc = "trace" /\ Reading /\ nopen > 0
  BY DEF MergeInv, Ray, EndOfFile, Finish, Reading
<1>2. UNCHANGED <<data, list, nopen, containing, nparticles, before>>
  BY DEF Ray, EndOfFile, Finish
<1>3. OpenInv' /\ nfiles' = nfiles /\ Opened' = Opened
      /\ \A k \in Nat : Holds(k)' = Holds(k) /\ EndOf(k)' = EndOf(k)
  BY <1>1, <1>2, SameFiles
<1>4. /\ nopen = nfiles /\ nopen \in Nat /\ nopen <= ENTRIES /\ icur \in Nat /\ ENTRIES \in Nat
      /\ nparticles \in Nat /\ rays \in Nat /\ rays <= nparticles /\ LastRay = nparticles
  BY <1>1, ReadFacts, IndexFacts DEF LastRay
<1>5. /\ icur < nopen /\ icur \in Opened /\ rays = before[icur] + got[icur]
      /\ got[icur] <= Len(Holds(icur)) /\ PassInv
      /\ Len(Holds(icur)) \in Nat /\ got[icur] \in Nat /\ before[icur] \in Nat
      /\ EndOf(icur) = before[icur] + Len(Holds(icur)) /\ EndOf(icur) <= nparticles
  BY <1>1, <1>4, ReadFacts DEF TraceInv
<1>6. CASE Ray
  <2>1. /\ ppc' = "trace" /\ icur' = icur /\ rays < nparticles /\ got[icur] < Len(Holds(icur))
        /\ Take
    BY <1>4, <1>6 DEF Ray
  <2>2. /\ got'[icur] = got[icur] + 1 /\ rays' = rays + 1
        /\ \A k \in Opened : k # icur => got'[k] = got[k]
        /\ got' \in [Entry -> Nat] /\ image' \in [Pixel -> Nat]
    BY <1>1, <1>5, <2>1, TakeFacts
  <2>3. MergeTypeOK'
    <3>1. rays' \in 0 .. nparticles'
      BY <1>2, <1>4, <2>1, <2>2
    <3> QED
      BY <1>1, <1>2, <2>1, <2>2, <3>1 DEF MergeTypeOK, MergePcs
  <2>4. PassInv'
    <3>1. \A k \in Opened : k \in Nat /\ (k < icur \/ k > icur => k # icur)
      BY <1>4 DEF Opened
    <3> QED
      BY <1>3, <1>5, <2>1, <2>2, <3>1 DEF PassInv
  <2>5. TraceInv'
    <3>1. Holds(icur)' = Holds(icur)
      BY <1>2, <2>1 DEF Holds
    <3>2. got'[icur] <= Len(Holds(icur)) /\ rays' = before[icur] + got'[icur]
      BY <1>5, <2>1, <2>2
    <3>3. icur < nopen /\ containing[icur]
      BY <1>1 DEF TraceInv
    <3>4. UNCHANGED <<icur, nopen, containing, before>>
      BY <1>2, <2>1
    <3> HIDE DEF Holds
    <3> QED
      BY <2>4, <3>1, <3>2, <3>3, <3>4 DEF TraceInv
  <2> QED
    BY <1>1, <1>2, <1>3, <1>4, <2>1, <2>3, <2>5 DEF MergeInv, Reading, AllRead, NoOverrun
<1>7. CASE EndOfFile
  <2>1. /\ ppc' = "next" /\ icur' = icur + 1 /\ rays < nparticles /\ got[icur] = Len(Holds(icur))
        /\ UNCHANGED <<rays, got, image>>
    BY <1>4, <1>7 DEF EndOfFile
  <2>2. rays = EndOf(icur)
    BY <1>5, <2>1
  <2>3. icur + 1 < nopen
    <3>1. EndOf(icur) # nparticles
      BY <1>4, <2>1, <2>2
    <3> QED
      BY <1>1, <1>5, <3>1, FileEnd
  <2>4. icur + 1 \in Opened /\ before[icur + 1] = EndOf(icur)
    BY <1>1, <1>5, <2>3, ReadFacts
  <2>5. MergeTypeOK'
    <3>1. icur' \in 0 .. ENTRIES
      BY <1>4, <2>1, <2>3
    <3> QED
      BY <1>1, <1>2, <2>1, <3>1 DEF MergeTypeOK, MergePcs
  <2>6. PassInv'
    <3>1. ASSUME NEW k \in Opened, k < icur + 1 PROVE got[k] = Len(Holds(k))
      <4>1. k \in Nat /\ (k < icur \/ k = icur)
        BY <1>4, <3>1 DEF Opened
      <4> QED
        BY <1>5, <2>1, <4>1 DEF PassInv
    <3>2. ASSUME NEW k \in Opened, k > icur + 1 PROVE got[k] = 0
      <4>1. k \in Nat /\ k > icur
        BY <1>4, <3>2 DEF Opened
      <4> QED
        BY <1>5, <4>1 DEF PassInv
    <3>3. \A k \in Opened : Holds(k)' = Holds(k)
      BY <1>2 DEF Holds
    <3> HIDE DEF Holds
    <3> QED
      BY <1>3, <2>1, <3>1, <3>2, <3>3 DEF PassInv
  <2>7. got[icur + 1] = 0
    BY <1>4, <1>5, <2>4 DEF PassInv
  <2>8. NextInv'
    BY <1>2, <2>1, <2>2, <2>3, <2>4, <2>6, <2>7 DEF NextInv
  <2> QED
    BY <1>1, <1>2, <1>3, <1>4, <2>1, <2>5, <2>8 DEF MergeInv, Reading, AllRead, NoOverrun
<1>8. CASE Finish
  <2>1. ppc' = "done" /\ rays >= nparticles /\ UNCHANGED <<icur, rays, got, image>>
    BY <1>4, <1>8 DEF Finish
  <2>2. got[icur] = Len(Holds(icur)) /\ EndOf(icur) = nparticles
    BY <1>4, <1>5, <2>1
  <2>3. MergeTypeOK'
    BY <1>1, <1>2, <2>1 DEF MergeTypeOK, MergePcs
  <2>4. ASSUME NEW k \in Opened PROVE got[k] = Len(Holds(k))
    <3>1. k \in Nat /\ (k < icur \/ k = icur \/ k > icur)
      BY <1>4 DEF Opened
    <3>2. CASE k < icur
      BY <1>5, <3>2 DEF PassInv
    <3>3. CASE k = icur
      BY <2>2, <3>3
    <3>4. CASE k > icur
      <4>1. EndOf(icur) <= before[k]
        BY <1>1, <1>5, <3>4 DEF OpenInv
      <4>2. /\ before[k] \in Nat /\ Len(Holds(k)) \in Nat
            /\ EndOf(k) = before[k] + Len(Holds(k)) /\ EndOf(k) <= nparticles
        BY <1>1, ReadFacts
      <4>3. Len(Holds(k)) = 0
        BY <1>4, <2>2, <4>1, <4>2
      <4> QED
        BY <1>5, <3>4, <4>3 DEF PassInv
    <3> QED
      BY <3>1, <3>2, <3>3, <3>4
  <2>5. AllRead'
    <3>1. \A k \in 0 .. (nfiles - 1) : Holds(k)' = Holds(k) /\ got[k] = Len(Holds(k))
      BY <1>2, <1>4, <2>4 DEF Opened, Holds
    <3> HIDE DEF Holds
    <3> QED
      BY <1>3, <2>1, <3>1 DEF AllRead
  <2> QED
    BY <2>1, <2>3, <2>5 DEF MergeInv, Reading, NoOverrun
<1> QED
  BY <1>6, <1>7, <1>8

LEMMA NextStepInv ==
  ASSUME MergeInv, SkipFile \/ NextFile
  PROVE  MergeInv'
<1>1. MergeTypeOK /\ OpenInv /\ NextInv /\ ppc = "next" /\ Reading /\ nopen > 0
  BY DEF MergeInv, SkipFile, NextFile, Reading
<1>2. UNCHANGED <<data, list, nopen, containing, nparticles, before>>
  BY DEF SkipFile, NextFile
<1>3. OpenInv' /\ nfiles' = nfiles /\ Opened' = Opened
  BY <1>1, <1>2, SameFiles
<1>4. /\ nopen = nfiles /\ nopen \in Nat /\ nopen <= ENTRIES /\ icur \in Nat /\ ENTRIES \in Nat
      /\ nparticles \in Nat /\ rays \in Nat
  BY <1>1, ReadFacts, IndexFacts
<1>5. /\ icur < nopen /\ icur \in Opened /\ rays = before[icur] /\ got[icur] = 0 /\ PassInv
      /\ rays < nparticles /\ Len(Holds(icur)) \in Nat /\ before[icur] \in Nat
      /\ EndOf(icur) = before[icur] + Len(Holds(icur))
      /\ containing[icur] <=> Len(Holds(icur)) # 0
  BY <1>1, <1>4, ReadFacts DEF NextInv
<1>6. \A k \in Opened : Holds(k)' = Holds(k) /\ k \in Nat
  BY <1>2, <1>4 DEF Holds, Opened
<1>7. CASE SkipFile
  <2>1. /\ ppc' = "next" /\ icur' = icur + 1 /\ ~containing[icur] /\ UNCHANGED <<rays, got, image>>
    BY <1>1, <1>7 DEF SkipFile, MustSkip, Following
  <2>2. Len(Holds(icur)) = 0 /\ EndOf(icur) = rays
    BY <1>5, <2>1
  <2>3. icur + 1 < nopen
    <3>1. EndOf(icur) # nparticles
      BY <1>4, <1>5, <2>2
    <3> QED
      BY <1>1, <1>5, <3>1, FileEnd
  <2>4. icur + 1 \in Opened /\ before[icur + 1] = rays
    BY <1>1, <1>5, <2>2, <2>3, ReadFacts
  <2>5. MergeTypeOK'
    <3>1. icur' \in 0 .. ENTRIES
      BY <1>4, <2>1, <2>3
    <3> QED
      BY <1>1, <1>2, <2>1, <3>1 DEF MergeTypeOK, MergePcs
  <2>6. PassInv'
    <3>1. ASSUME NEW k \in Opened, k < icur + 1 PROVE got[k] = Len(Holds(k))
      <4>1. k < icur \/ k = icur
        BY <1>4, <1>6, <3>1
      <4> QED
        BY <1>5, <2>2, <4>1 DEF PassInv
    <3>2. ASSUME NEW k \in Opened, k > icur + 1 PROVE got[k] = 0
      <4>1. k > icur
        BY <1>4, <1>6, <3>2
      <4> QED
        BY <1>5, <4>1 DEF PassInv
    <3> HIDE DEF Holds
    <3> QED
      BY <1>3, <1>6, <2>1, <3>1, <3>2 DEF PassInv
  <2>7. got[icur + 1] = 0
    BY <1>4, <1>5, <2>4 DEF PassInv
  <2>8. NextInv'
    BY <1>2, <1>5, <2>1, <2>3, <2>4, <2>6, <2>7 DEF NextInv
  <2> QED
    BY <1>1, <1>2, <1>3, <1>4, <2>1, <2>5, <2>8 DEF MergeInv, Reading, AllRead, NoOverrun
<1>8. CASE NextFile
  <2>1. ppc' = "trace" /\ icur' = icur /\ containing[icur] /\ Take
    BY <1>4, <1>5, <1>8 DEF NextFile, MustSkip
  <2>2. got[icur] < Len(Holds(icur))
    BY <1>5, <2>1
  <2>3. /\ got'[icur] = 1 /\ rays' = rays + 1
        /\ \A k \in Opened : k # icur => got'[k] = got[k]
        /\ got' \in [Entry -> Nat] /\ image' \in [Pixel -> Nat]
    BY <1>1, <1>5, <2>1, <2>2, TakeFacts
  <2>4. MergeTypeOK'
    <3>1. rays' \in 0 .. nparticles'
      BY <1>2, <1>4, <1>5, <2>3
    <3> QED
      BY <1>1, <1>2, <2>1, <2>3, <3>1 DEF MergeTypeOK, MergePcs
  <2>5. PassInv'
    <3>1. \A k \in Opened : k < icur \/ k > icur => k # icur
      BY <1>4, <1>6
    <3> HIDE DEF Holds
    <3> QED
      BY <1>3, <1>5, <1>6, <2>1, <2>3, <3>1 DEF PassInv
  <2>6. TraceInv'
    <3>1. Holds(icur)' = Holds(icur)
      BY <1>2, <2>1 DEF Holds
    <3>2. got'[icur] <= Len(Holds(icur)) /\ rays' = before[icur] + got'[icur]
      BY <1>5, <2>2, <2>3
    <3>3. UNCHANGED <<icur, nopen, containing, before>>
      BY <1>2, <2>1
    <3> HIDE DEF Holds
    <3> QED
      BY <1>5, <2>1, <2>5, <3>1, <3>2, <3>3 DEF TraceInv
  <2> QED
    BY <1>1, <1>2, <1>3, <1>4, <2>1, <2>4, <2>6 DEF MergeInv, Reading, AllRead, NoOverrun
<1> QED
  BY <1>7, <1>8

-----------------------------------------------------------------------------
(* The theorems *)

LEMMA MergeAppInv == MergeInv /\ MergeApp => MergeInv'
BY PassThroughInv, OpenFileInv, OpenEndsInv, SeekStepInv, TraceStepInv, NextStepInv DEF MergeApp

LEMMA SameMerge == MergeInv /\ UNCHANGED mergeVars => MergeInv'
BY DEF mergeVars, MergeInv, MergeTypeOK, Fresh, OpenInv, Opened, EndOf, Holds, nfiles, Reading,
       PassInv, SeekInv, TraceInv, NextInv, AllRead, NoOverrun

LEMMA ResultStepInv == MergeInv /\ [ResultNext]_resultVars => MergeInv'
<1> SUFFICES ASSUME MergeInv, [ResultNext]_resultVars PROVE MergeInv'
  OBVIOUS
<1>1. ASSUME NEW l \in Listing, NEW last \in BOOLEAN, StartMerging(l, last) PROVE MergeInv'
  BY <1>1, ReadListInv DEF StartMerging
<1>2. CASE MergeStep
  BY <1>2, MergeAppInv DEF MergeStep
<1>3. CASE PublishNoResult \/ MergeFails
  BY <1>3, ResetInv, MergeFailsInv DEF PublishNoResult
<1>4. ASSUME NEW order \in Listings, ReadDirectory(order) PROVE MergeInv'
  BY <1>4, SameMerge DEF ReadDirectory, mergeVars
<1>5. CASE ReadStep
  <2>1. CASE PublishResult
    BY <2>1, ResetInv DEF PublishResult
  <2>2. CASE NextEntry \/ ReadType \/ (\E b \in Blocks : ReadHeading(b)) \/ ReadData \/ EndOfLines
    <3>1. UNCHANGED mergeVars
      BY <2>2 DEF NextEntry, ReadType, ReadHeading, ReadData, EndOfLines
    <3> QED
      BY <3>1, SameMerge
  <2> QED
    BY <1>5, <2>1, <2>2 DEF ReadStep
<1>6. CASE UNCHANGED resultVars
  BY <1>6, SameMerge DEF resultVars
<1> QED
  BY <1>1, <1>2, <1>3, <1>4, <1>5, <1>6 DEF ResultNext

\* The files lie end to end in the sequence of neutrons a merge announces, and
\* the reading is always at one place of it
THEOREM MergeInductive == ResultSpec => []MergeInv
<1>1. ResultInit => MergeInv
  BY InitMerge DEF ResultInit
<1> QED
  BY <1>1, ResultStepInv, PTL DEF ResultSpec

\* A merge leaves its arrays only for a list longer than them or one of empty
\* files, whatever the length of the arrays (MCPL_input.comp, lines 57-59)
THEOREM MergeInBounds == ResultSpec => []NoOverrun
<1>1. MergeInv => NoOverrun
  BY DEF MergeInv
<1> QED
  BY <1>1, MergeInductive, PTL

\* A merge that ends has read each neutron of each listed file
THEOREM MergeComplete == ResultSpec => []AllRead
<1>1. MergeInv => AllRead
  BY DEF MergeInv
<1> QED
  BY <1>1, MergeInductive, PTL

\* TRACE never reads a file that was closed, and never looks past the last one
THEOREM MergeReadsOpen == ResultSpec => []ReadsOpenFile
<1>1. MergeInv => ReadsOpenFile
  <2> SUFFICES ASSUME MergeInv PROVE ReadsOpenFile
    OBVIOUS
  <2>1. CASE ppc = "trace"
    <3>1. Reading /\ TraceInv /\ icur \in Nat
      BY <2>1, IndexFacts DEF MergeInv, Reading
    <3>2. icur \in Opened /\ icur < nfiles /\ containing[icur] /\ icur \in Entry
      BY <3>1, ReadFacts DEF TraceInv
    <3>3. Len(Holds(icur)) # 0
      BY <3>1, <3>2, ReadFacts
    <3>4. Holds(icur) # <<>>
      BY <3>3
    <3> QED
      BY <2>1, <3>2, <3>4 DEF ReadsOpenFile
  <2>2. CASE ppc = "next"
    <3>1. Reading /\ NextInv
      BY <2>2 DEF MergeInv, Reading
    <3> QED
      BY <2>2, <3>1, ReadFacts DEF ReadsOpenFile, NextInv
  <2> QED
    BY <2>1, <2>2 DEF ReadsOpenFile
<1> QED
  BY <1>1, MergeInductive, PTL

=============================================================================
