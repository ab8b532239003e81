----------------------------- MODULE ImageProofs ----------------------------
(***************************************************************************)
(* Proofs that what the worker publishes is the image of all the neutrons  *)
(* of all the listed files, for a detector of any size, any files and any  *)
(* order of the merge directory.                                           *)
(***************************************************************************)
EXTENDS MergeProofs, FiniteSetTheorems, SequenceTheorems

-----------------------------------------------------------------------------
(* The image while the files are read: every neutron read that has a pixel  *)
(* is counted there                                                         *)

Counted(p) ==
  {n \in Entry \X Nat : n[1] < nfiles /\ n[2] \in 1 .. got[n[1]] /\ Holds(n[1])[n[2]] = p}

CountInv ==
  /\ ppc = "off" \/ list # <<>> =>
       \A p \in Pixel : IsFiniteSet(Counted(p)) /\ image[p] = Cardinality(Counted(p))
  /\ ppc = "done" => /\ nfiles <= ENTRIES
                     /\ \A k \in 0 .. (nfiles - 1) : Holds(k) \in Content

\* Nothing has been read yet
LEMMA NothingCounted ==
  ASSUME got = [k \in Entry |-> 0], image = Blank
  PROVE  \A p \in Pixel : IsFiniteSet(Counted(p)) /\ image[p] = Cardinality(Counted(p))
<1> SUFFICES ASSUME NEW p \in Pixel
             PROVE  IsFiniteSet(Counted(p)) /\ image[p] = Cardinality(Counted(p))
  OBVIOUS
<1>1. Counted(p) = {}
  BY DEF Counted
<1> QED
  BY <1>1, FS_EmptySet DEF Blank

\* Take counts the neutron it reads, and no other
LEMMA TakeCounts ==
  ASSUME MergeInv, CountInv, list # <<>>, Reading, icur < nopen, got[icur] < Len(Holds(icur)), Take,
         UNCHANGED <<data, list>>
  PROVE  \A p \in Pixel : IsFiniteSet(Counted(p)') /\ image'[p] = Cardinality(Counted(p)')
<1> DEFINE x == <<icur, got[icur] + 1>>
           q == Neutron
<1>1. MergeTypeOK /\ icur \in Nat /\ nopen = nfiles
  BY IndexFacts, ReadFacts DEF MergeInv
<1>2. icur \in Opened /\ icur \in Entry /\ Holds(icur) \in Seq(Spot) /\ got[icur] \in Nat
  BY <1>1, ReadFacts
<1>3. q = Holds(icur)[got[icur] + 1]
  BY DEF Neutron
<1>4. got \in [Entry -> Nat] /\ image \in [Pixel -> Nat] /\ icur < nfiles
  BY <1>1 DEF MergeTypeOK
<1>5. got' = [got EXCEPT ![icur] = @ + 1] 
      /\ image' = IF q \in Pixel THEN [image EXCEPT ![q] = @ + 1] ELSE image
  BY DEF Take
<1>6. nfiles' = nfiles /\ \A k \in Nat : Holds(k)' = Holds(k)
  BY DEF nfiles, Holds
<1>7. x \in Entry \X Nat /\ \A p : x \notin Counted(p)
  BY <1>2 DEF Counted
<1>8. Entry \subseteq Nat
  BY DEF Entry
<1>9. ASSUME NEW p \in Pixel
      PROVE  Counted(p)' = IF p = q THEN Counted(p) \cup {x} ELSE Counted(p)
  <2>1. ASSUME NEW k \in Entry, NEW i \in Nat
        PROVE  <<k, i>> \in Counted(p)' <=> <<k, i>> \in Counted(p) \/ (<<k, i>> = x /\ p = q)
    <3>1. got'[k] = IF k = icur THEN got[icur] + 1 ELSE got[k]
      BY <1>2, <1>4, <1>5
    <3>2. k \in Nat /\ got[k] \in Nat /\ Holds(k)' = Holds(k)
      BY <1>4, <1>6, <1>8
    <3>3. <<k, i>> \in Counted(p)' <=> k < nfiles /\ i \in 1 .. got'[k] /\ Holds(k)[i] = p
      BY <1>6, <3>2 DEF Counted
    <3>4. <<k, i>> \in Counted(p) <=> k < nfiles /\ i \in 1 .. got[k] /\ Holds(k)[i] = p
      BY DEF Counted
    <3> HIDE DEF Holds
    <3> QED
      BY <1>2, <1>3, <1>4, <3>1, <3>2, <3>3, <3>4
  <2>2. Counted(p) \subseteq Entry \X Nat /\ Counted(p)' \subseteq Entry \X Nat
    BY DEF Counted, Entry
  <2> HIDE DEF x, q
  <2>3. \A n \in Entry \X Nat : n \in Counted(p)' <=> n \in Counted(p) \/ (n = x /\ p = q)
    BY <2>1
  <2> QED
    BY <1>7, <2>2, <2>3
<1> SUFFICES ASSUME NEW p \in Pixel
             PROVE  IsFiniteSet(Counted(p)') /\ image'[p] = Cardinality(Counted(p)')
  OBVIOUS
<1>10. IsFiniteSet(Counted(p)) /\ image[p] = Cardinality(Counted(p))
  BY DEF CountInv
<1>11. image'[p] = IF p = q THEN image[p] + 1 ELSE image[p]
  BY <1>4, <1>5
<1>12. CASE p = q
  <2>1. /\ IsFiniteSet(Counted(p) \cup {x})
        /\ Cardinality(Counted(p) \cup {x}) = Cardinality(Counted(p)) + 1
    BY <1>7, <1>10, FS_AddElement
  <2> QED
    BY <1>9, <1>10, <1>11, <1>12, <2>1
<1>13. CASE p # q
  BY <1>9, <1>10, <1>11, <1>13
<1> QED
  BY <1>12, <1>13

\* The count depends on these variables only
LEMMA SameCount ==
  ASSUME UNCHANGED <<data, list, got, image>>
  PROVE  \A p \in Pixel : Counted(p)' = Counted(p) /\ image'[p] = image[p]
BY DEF Counted, nfiles, Holds

LEMMA CountStep ==
  ASSUME MergeInv, CountInv, [ResultNext]_resultVars
  PROVE  CountInv'
<1>1. CASE UNCHANGED <<data, list, got, image, ppc>>
  BY <1>1, SameCount DEF CountInv, nfiles, Holds
<1>2. ASSUME NEW l \in Listing, NEW last \in BOOLEAN, StartMerging(l, last) PROVE CountInv'
  <2>1. Fresh /\ got' = got /\ image' = image /\ list' = l /\ data' = data
    BY <1>2 DEF StartMerging, ReadList, MergeInv
  <2>2. list = <<>> /\ got' = [k \in Entry |-> 0]
    BY <2>1 DEF Fresh
  <2>3. ASSUME NEW p \in Pixel PROVE Counted(p)' = {} /\ Counted(p) = {}
    BY <2>1, <2>2 DEF Counted
  <2>4. ppc = "off" /\ ppc' # "done"
    BY <1>2 DEF StartMerging, ReadList
  <2>5. \A p \in Pixel : IsFiniteSet(Counted(p)') /\ image'[p] = Cardinality(Counted(p)')
    BY <2>1, <2>3, <2>4 DEF CountInv
  <2> QED
    BY <2>4, <2>5 DEF CountInv
<1>3. CASE MergeReset
  <2>1. got' = [k \in Entry |-> 0] /\ image' = Blank /\ ppc' = "off"
    BY <1>3 DEF MergeReset
  <2>2. \A p \in Pixel : IsFiniteSet(Counted(p)') /\ image'[p] = Cardinality(Counted(p)')
    <3> SUFFICES ASSUME NEW p \in Pixel
                 PROVE  IsFiniteSet(Counted(p)') /\ image'[p] = Cardinality(Counted(p)')
      OBVIOUS
    <3>1. Counted(p)' = {}
      BY <2>1 DEF Counted
    <3> QED
      BY <2>1, <3>1, FS_EmptySet DEF Blank
  <2> QED
    BY <2>1, <2>2 DEF CountInv
<1>4. CASE OpenFile \/ OpenMissing \/ OpenBeyond \/ AllOpen \/ Seek \/ EndOfFile \/ SkipFile
             \/ MergeFails
  <2>1. UNCHANGED <<data, list, got, image>> /\ ppc # "off" /\ ppc' \notin {"off", "done"}
    BY <1>4 DEF OpenFile, Opening, OpenMissing, OpenBeyond, AllOpen, Seek, EndOfFile, SkipFile, MergeFails
  <2> QED
    BY <2>1, SameCount DEF CountInv
<1>5. CASE Finish
  <2>1. UNCHANGED <<data, list, got, image>> /\ Reading /\ OpenInv /\ ppc # "off" /\ ppc' # "off"
    BY <1>5 DEF Finish, Reading, MergeInv
  <2>2. nfiles <= ENTRIES /\ nopen = nfiles /\ \A k \in Opened : Holds(k) \in Content
    BY <2>1, ReadFacts DEF OpenInv
  <2> QED
    BY <2>1, <2>2, SameCount DEF CountInv, Opened, nfiles, Holds
<1>6. CASE Ray
  <2>1. Reading /\ icur < nopen /\ got[icur] < Len(Holds(icur)) /\ Take
        /\ UNCHANGED <<data, list>> /\ ppc' \notin {"off", "done"}
    BY <1>6 DEF Ray, Reading, MergeInv, TraceInv
  <2> QED
    BY <2>1, TakeCounts DEF CountInv
<1>7. CASE NextFile
  <2>1. Reading /\ NextInv /\ UNCHANGED <<data, list>> /\ ppc' \notin {"off", "done"}
    BY <1>7 DEF NextFile, Reading, MergeInv
  <2>2. icur < nopen /\ icur < nfiles /\ got[icur] = 0 /\ icur \in Nat
    BY <2>1, ReadFacts, IndexFacts DEF NextInv, MergeInv
  <2>3. Take /\ containing[icur]
    BY <1>7, <2>2 DEF NextFile, MustSkip
  <2>4. Len(Holds(icur)) \in Nat /\ Len(Holds(icur)) # 0
    BY <2>1, <2>2, <2>3, ReadFacts
  <2>5. got[icur] < Len(Holds(icur))
    BY <2>2, <2>4
  <2> QED
    BY <2>1, <2>2, <2>3, <2>5, TakeCounts DEF CountInv
<1>8. CASE PassThrough
  <2>1. list = <<>> /\ list' = <<>> /\ ppc' = "done" /\ nfiles' = 0
    BY <1>8 DEF PassThrough, MergeInv, nfiles
  <2>2. nfiles' <= ENTRIES /\ 0 .. (nfiles' - 1) = {}
    BY <2>1, MergeConstants
  <2> QED
    BY <2>1, <2>2 DEF CountInv
<1>9. CASE ReadStep \/ PublishNoResult \/ \E order \in Listings : ReadDirectory(order)
  BY <1>1, <1>3, <1>9 DEF ReadStep, NextEntry, ReadType, ReadHeading, ReadData, EndOfLines,
     PublishResult, PublishNoResult, ReadDirectory, mergeVars
<1> QED
  BY <1>1, <1>2, <1>4, <1>5, <1>6, <1>7, <1>8, <1>9
     DEF ResultNext, MergeStep, MergeApp, resultVars, mergeVars

LEMMA CountInit == ResultInit => CountInv
BY NothingCounted DEF ResultInit, MergeInit, CountInv

\* A merge that is done has counted every neutron of every file, at its pixel; if
\* there is no file the image is anything
LEMMA DoneCounts ==
  ASSUME MergeInv, CountInv, ppc = "done"
  PROVE  /\ list # <<>> => image = [p \in Pixel |-> Expected(p)]
         /\ \A k \in 0 .. (nfiles - 1) : Holds(k) \in Content
<1>1. MergeTypeOK /\ AllRead /\ nfiles \in Nat /\ nfiles <= ENTRIES
  BY IndexFacts DEF MergeInv, CountInv
<1>2. \A k \in 0 .. (nfiles - 1) : got[k] = Len(Holds(k)) /\ Holds(k) \in Content /\ k \in Entry
  BY <1>1, MergeConstants DEF AllRead, CountInv, Entry
<1>3. ASSUME NEW p \in Pixel PROVE Counted(p) = {n \in AllNeutrons : Holds(n[1])[n[2]] = p}
  <2>1. ASSUME NEW n \in Counted(p) PROVE n \in AllNeutrons /\ Holds(n[1])[n[2]] = p
    BY <1>1, <1>2, <2>1 DEF Counted, AllNeutrons, Entry
  <2>2. ASSUME NEW k \in 0 .. (nfiles - 1), NEW i \in 1 .. Len(Holds(k)), Holds(k)[i] = p
        PROVE  <<k, i>> \in Counted(p)
    BY <1>1, <1>2, <2>2 DEF Counted
  <2>3. ASSUME NEW n \in AllNeutrons, Holds(n[1])[n[2]] = p PROVE n \in Counted(p)
    <3>1. PICK k \in 0 .. (nfiles - 1) : \E i \in 1 .. Len(Holds(k)) : n = <<k, i>>
      BY <2>3 DEF AllNeutrons
    <3>2. PICK i \in 1 .. Len(Holds(k)) : n = <<k, i>>
      BY <3>1
    <3> HIDE DEF Holds
    <3>3. n[1] = k /\ n[2] = i
      BY <3>2
    <3> QED
      BY <2>2, <2>3, <3>2, <3>3
  <2> QED
    BY <2>1, <2>3
<1>4. list # <<>> => \A p \in Pixel : image[p] = Expected(p)
  BY <1>3 DEF CountInv, Expected
<1>5. image \in [Pixel -> Nat]
  BY <1>1 DEF MergeTypeOK
<1> QED
  BY <1>2, <1>4, <1>5

-----------------------------------------------------------------------------
(* The image as it is written: by rows, in the file *)

\* Multiples of d are at least d apart
LEMMA RowsApart ==
  ASSUME NEW d \in Nat, NEW a \in Int, NEW b \in Int, a < b
  PROVE  a * d + d <= b * d
<1>1. (b - a - 1) * d >= 0
  OBVIOUS
<1>2. (b - a - 1) * d = b * d - a * d - d
  OBVIOUS
<1> QED
  BY <1>1, <1>2

\* The column and the row of the place r * d + x
LEMMA Division ==
  ASSUME NEW d \in Nat, NEW r \in Nat, NEW x \in 1 .. d
  PROVE  (r * d + x - 1) % d = x - 1 /\ (r * d + x - 1) \div d = r
<1> DEFINE m == r * d + x - 1
           q == m \div d
           s == m % d
<1>1. d > 0 /\ m \in Nat
  OBVIOUS
<1>2. q \in Int /\ s \in 0 .. (d - 1) /\ m = q * d + s
  BY <1>1
<1>3. ~(q < r)
  <2>1. q < r => q * d + d <= r * d
    BY <1>2, RowsApart
  <2> QED
    BY <1>1, <1>2, <2>1
<1>4. ~(r < q)
  <2>1. r < q => r * d + d <= q * d
    BY <1>2, RowsApart
  <2> QED
    BY <1>1, <1>2, <2>1
<1> QED
  BY <1>2, <1>3, <1>4

\* Each place of the linearised image is a pixel
LEMMA PlaceInGrid ==
  ASSUME NEW d \in Nat, NEW h \in Nat, NEW i \in 1 .. (d * h)
  PROVE  ((i - 1) % d) + 1 \in 1 .. d /\ ((i - 1) \div d) + 1 \in 1 .. h
<1> DEFINE q == (i - 1) \div d
           s == (i - 1) % d
<1>1. d > 0
  OBVIOUS
<1>2. q \in Int /\ s \in 0 .. (d - 1) /\ i - 1 = q * d + s
  BY <1>1
<1>3. q >= 0
  <2>1. q < 0 => q * d + d <= 0 * d
    BY <1>2, RowsApart
  <2> QED
    BY <1>1, <1>2, <2>1
<1>4. q < h
  <2>1. h < q => h * d + d <= q * d
    BY <1>2, RowsApart
  <2>2. h * d = d * h
    OBVIOUS
  <2> QED
    BY <1>1, <1>2, <2>1, <2>2
<1> QED
  BY <1>1, <1>2, <1>3, <1>4

\* The value of the intensities at a place, and their first r rows
At(i) == <<"I:", image[PixelAt(i)]>>
FirstRows(r) == [i \in 1 .. (r * DIM_X) |-> At(i)]

LEMMA PixelAtType == \A i \in 1 .. (DIM_X * DIM_Y) : PixelAt(i) \in Pixel
BY PlaceInGrid, ResultConstants DEF PixelAt

LEMMA RowType ==
  ASSUME MergeTypeOK, NEW b \in Blocks, NEW y \in 1 .. DIM_Y
  PROVE  Row(b, y).kind = "data" /\ Row(b, y).vals \in Seq(Value) /\ Len(Row(b, y).vals) = DIM_X
         /\ \A x \in 1 .. DIM_X : Row(b, y).vals[x] = <<b, image[<<x, y>>]>>
<1>1. [x \in 1 .. DIM_X |-> <<b, image[<<x, y>>]>>] \in [1 .. DIM_X -> Value]
  BY ResultConstants DEF MergeTypeOK, Value
<1>2. [x \in 1 .. DIM_X |-> <<b, image[<<x, y>>]>>] \in Seq(Value)
  BY <1>1, ResultConstants
<1> QED
  BY <1>1, <1>2, ResultConstants DEF Row

\* Reading one more row
LEMMA AppendRow ==
  ASSUME MergeTypeOK, NEW r \in Nat, r < DIM_Y
  PROVE  FirstRows(r) \o Row("I:", r + 1).vals = FirstRows(r + 1)
<1> DEFINE s == FirstRows(r)
           t == Row("I:", r + 1).vals
           m == r * DIM_X
           n == (r + 1) * DIM_X
<1>1. m \in Nat /\ DIM_X \in Nat /\ n = m + DIM_X /\ n <= DIM_X * DIM_Y /\ DIM_X * DIM_Y \in Nat
  <2>1. m \in Nat /\ n = m + DIM_X
    BY ResultConstants
  <2>2. m + DIM_X <= DIM_Y * DIM_X
    BY RowsApart, ResultConstants
  <2>3. DIM_Y * DIM_X = DIM_X * DIM_Y
    BY ResultConstants
  <2> QED
    BY <2>1, <2>2, <2>3, ResultConstants
<1>2. s = [i \in 1 .. m |-> At(i)] /\ FirstRows(r + 1) = [i \in 1 .. n |-> At(i)]
  BY DEF FirstRows
<1>3. ASSUME NEW x \in 1 .. DIM_X PROVE PixelAt(m + x) = <<x, r + 1>>
  BY Division, ResultConstants DEF PixelAt
<1> HIDE DEF m, n
<1>4. \A i \in 1 .. n : At(i) \in Value
  <2>1. \A i \in 1 .. n : i \in 1 .. (DIM_X * DIM_Y)
    BY <1>1
  <2> QED
    BY <2>1, PixelAtType DEF MergeTypeOK, At, Value, Blocks
<1>5. t \in Seq(Value) /\ Len(t) = DIM_X /\ \A x \in 1 .. DIM_X : t[x] = <<"I:", image[<<x, r + 1>>]>>
  <2>1. r + 1 \in 1 .. DIM_Y
    BY ResultConstants
  <2> QED
    BY <2>1, RowType DEF Blocks
<1> HIDE DEF t
<1>6. s \in Seq(Value) /\ Len(s) = m /\ \A i \in 1 .. m : s[i] = At(i)
  <2>1. \A i \in 1 .. m : At(i) \in Value
    BY <1>1, <1>4
  <2> QED
    BY <1>1, <1>2, <2>1
<1> HIDE DEF s
<1>7. /\ s \o t \in Seq(Value) /\ Len(s \o t) = n
      /\ \A i \in 1 .. n : (s \o t)[i] = IF i <= m THEN s[i] ELSE t[i - m]
  <2>1. /\ s \o t \in Seq(Value) /\ Len(s \o t) = Len(s) + Len(t)
        /\ \A i \in 1 .. (Len(s) + Len(t)) : (s \o t)[i] = IF i <= Len(s) THEN s[i] ELSE t[i - Len(s)]
    BY <1>5, <1>6, ConcatProperties
  <2> QED
    BY <1>1, <1>5, <1>6, <2>1
<1>8. ASSUME NEW i \in 1 .. n PROVE (s \o t)[i] = At(i)
  <2>1. CASE i <= m
    BY <1>1, <1>6, <1>7, <2>1
  <2>2. CASE i > m
    <3>1. i - m \in 1 .. DIM_X /\ i = m + (i - m)
      BY <1>1, <2>2
    <3>2. PixelAt(i) = <<i - m, r + 1>>
      BY <1>3, <3>1
    <3>3. (s \o t)[i] = t[i - m]
      BY <1>1, <1>7, <2>2
    <3> QED
      BY <1>5, <3>1, <3>2, <3>3 DEF At
  <2>3. i <= m \/ i > m
    BY <1>1
  <2> QED
    BY <2>1, <2>2, <2>3
<1>9. s \o t = [i \in 1 .. n |-> At(i)]
  <2> DEFINE u == [i \in 1 .. n |-> At(i)]
  <2>1. n \in Nat /\ u \in [1 .. n -> Value]
    BY <1>1, <1>4
  <2>2. u \in Seq(Value) /\ Len(u) = n /\ \A i \in 1 .. n : u[i] = At(i)
    BY <2>1
  <2> HIDE DEF u
  <2>3. s \o t = u
    BY <1>7, <1>8, <2>2, SeqEqual
  <2> QED
    BY <2>3 DEF u
<1> QED
  BY <1>2, <1>9 DEF s, t

-----------------------------------------------------------------------------
(* The file of the detector *)

LineType == [kind : Blocks \cup {"type", "data"}, vals : Seq(Value)]

\* A file that begins with the counts, row after row, and has no other block of them
BeginsWithCounts(s) ==
  /\ s \in Seq(LineType)
  /\ Len(s) >= DIM_Y + 3
  /\ s[1].kind = "type" /\ s[2].kind = "I:"
  /\ \A y \in 1 .. DIM_Y : s[y + 2] = Row("I:", y)
  /\ s[DIM_Y + 3].kind = "I_err:"
  /\ \A k \in (DIM_Y + 3) .. Len(s) : s[k].kind \in {"data", "I_err:", "N:"}

\* The blocks that follow do not change that
LEMMA MoreLines ==
  ASSUME NEW s, NEW t \in Seq(LineType), BeginsWithCounts(s),
         \A k \in 1 .. Len(t) : t[k].kind \in {"data", "I_err:", "N:"}
  PROVE  BeginsWithCounts(s \o t)
<1>1. s \in Seq(LineType) /\ Len(s) \in Nat /\ Len(t) \in Nat /\ Len(s) >= DIM_Y + 3 /\ DIM_Y \in Nat
  BY ResultConstants DEF BeginsWithCounts
<1>2. /\ s \o t \in Seq(LineType) /\ Len(s \o t) = Len(s) + Len(t)
      /\ \A i \in 1 .. (Len(s) + Len(t)) : (s \o t)[i] = IF i <= Len(s) THEN s[i] ELSE t[i - Len(s)]
  BY <1>1, ConcatProperties
<1>3. \A i \in 1 .. Len(s) : (s \o t)[i] = s[i]
  BY <1>1, <1>2
<1>4. ASSUME NEW k \in (DIM_Y + 3) .. Len(s \o t)
      PROVE  (s \o t)[k].kind \in {"data", "I_err:", "N:"}
  <2>1. CASE k <= Len(s)
    BY <1>1, <1>3, <2>1 DEF BeginsWithCounts
  <2>2. CASE k > Len(s)
    <3>1. k - Len(s) \in 1 .. Len(t) /\ (s \o t)[k] = t[k - Len(s)]
      BY <1>1, <1>2, <2>2
    <3> QED
      BY <3>1
  <2>3. k <= Len(s) \/ k > Len(s)
    BY <1>1
  <2> QED
    BY <2>1, <2>2, <2>3
<1>5. 1 \in 1 .. Len(s) /\ 2 \in 1 .. Len(s) /\ DIM_Y + 3 \in 1 .. Len(s)
      /\ \A y \in 1 .. DIM_Y : y + 2 \in 1 .. Len(s)
  BY <1>1
<1>6. Len(s \o t) >= DIM_Y + 3
  BY <1>1, <1>2
<1> QED
  BY <1>2, <1>3, <1>4, <1>5, <1>6 DEF BeginsWithCounts

LEMMA HeaderType ==
  ASSUME NEW k \in Blocks \cup {"type", "data"}
  PROVE  Header(k) \in Seq(LineType) /\ Len(Header(k)) = 1 /\ Header(k)[1].kind = k
BY DEF Header, LineType

LEMMA RowsType ==
  ASSUME MergeTypeOK, NEW b \in Blocks
  PROVE  /\ Rows(b) \in Seq(LineType) /\ Len(Rows(b)) = DIM_Y
         /\ \A y \in 1 .. DIM_Y : Rows(b)[y] = Row(b, y) /\ Rows(b)[y].kind = "data"
<1>1. \A y \in 1 .. DIM_Y : Row(b, y) \in LineType /\ Row(b, y).kind = "data"
  BY RowType DEF Row, LineType
<1>2. Rows(b) \in [1 .. DIM_Y -> LineType] /\ \A y \in 1 .. DIM_Y : Rows(b)[y] = Row(b, y)
  BY <1>1 DEF Rows
<1> QED
  BY <1>1, <1>2, ResultConstants

LEMMA FileBegins == MergeTypeOK => BeginsWithCounts(DetectorFile)
<1> SUFFICES ASSUME MergeTypeOK PROVE BeginsWithCounts(DetectorFile)
  OBVIOUS
<1> DEFINE s2 == Header("type") \o Header("I:")
           s3 == s2 \o Rows("I:")
           s4 == s3 \o Header("I_err:")
           s5 == s4 \o Rows("I_err:")
           s6 == s5 \o Header("N:")
<1>1. DIM_Y \in Nat /\ Blocks = {"I:", "I_err:", "N:"}
  BY ResultConstants DEF Blocks
<1>2. s2 \in Seq(LineType) /\ Len(s2) = 2 /\ s2[1].kind = "type" /\ s2[2].kind = "I:"
  BY HeaderType, ConcatProperties DEF Blocks
<1> HIDE DEF s2
<1>3. /\ s3 \in Seq(LineType) /\ Len(s3) = DIM_Y + 2
      /\ s3[1].kind = "type" /\ s3[2].kind = "I:"
      /\ \A y \in 1 .. DIM_Y : s3[y + 2] = Row("I:", y)
  <2> DEFINE t == Rows("I:")
  <2>1. /\ t \in Seq(LineType) /\ Len(t) = DIM_Y
        /\ \A y \in 1 .. DIM_Y : t[y] = Row("I:", y)
    BY <1>1, RowsType
  <2> HIDE DEF t
  <2>2. /\ s3 \in Seq(LineType) /\ Len(s3) = Len(s2) + Len(t)
        /\ \A i \in 1 .. (Len(s2) + Len(t)) : s3[i] = IF i <= Len(s2) THEN s2[i] ELSE t[i - Len(s2)]
    BY <1>2, <2>1, ConcatProperties, Zenon DEF t
  <2> HIDE DEF s3
  <2>3. \A y \in 1 .. DIM_Y : s3[y + 2] = t[y]
    BY <1>1, <1>2, <2>1, <2>2
  <2> QED
    BY <1>1, <1>2, <2>1, <2>2, <2>3
<1> HIDE DEF s3
<1>4. BeginsWithCounts(s4)
  <2> DEFINE h == Header("I_err:")
  <2>0. h \in Seq(LineType) /\ Len(h) = 1 /\ h[1].kind = "I_err:"
    BY HeaderType DEF Blocks
  <2> HIDE DEF h
  <2>1. /\ s4 \in Seq(LineType) /\ Len(s4) = DIM_Y + 3
        /\ \A i \in 1 .. (DIM_Y + 3) : s4[i] = IF i <= DIM_Y + 2 THEN s3[i] ELSE h[i - (DIM_Y + 2)]
    <3>1. /\ s4 \in Seq(LineType) /\ Len(s4) = Len(s3) + Len(h)
          /\ \A i \in 1 .. (Len(s3) + Len(h)) : s4[i] = IF i <= Len(s3) THEN s3[i] ELSE h[i - Len(s3)]
      BY <1>3, <2>0, ConcatProperties, Zenon DEF h
    <3> HIDE DEF s4
    <3> QED
      BY <1>1, <1>3, <2>0, <3>1
  <2> HIDE DEF s4
  <2>2. s4[1] = s3[1] /\ s4[2] = s3[2] /\ \A y \in 1 .. DIM_Y : s4[y + 2] = s3[y + 2]
    BY <1>1, <2>1
  <2>3. s4[DIM_Y + 3].kind = "I_err:"
    <3>1. s4[DIM_Y + 3] = h[1]
      BY <1>1, <2>1
    <3> QED
      BY <2>0, <3>1
  <2>4. \A k \in (DIM_Y + 3) .. Len(s4) : k = DIM_Y + 3
    BY <1>1, <2>1
  <2> QED
    BY <1>1, <1>3, <2>1, <2>2, <2>3, <2>4 DEF BeginsWithCounts
<1> HIDE DEF s4
<1>5. ASSUME NEW b \in Blocks
      PROVE  \A k \in 1 .. Len(Rows(b)) : Rows(b)[k].kind \in {"data", "I_err:", "N:"}
  BY RowsType
<1>6. BeginsWithCounts(s5)
  BY <1>1, <1>4, <1>5, MoreLines, RowsType
<1> HIDE DEF s5
<1>7. BeginsWithCounts(s6)
  <2>1. \A k \in 1 .. Len(Header("N:")) : Header("N:")[k].kind \in {"data", "I_err:", "N:"}
    BY HeaderType DEF Blocks
  <2> QED
    BY <1>6, <2>1, MoreLines, HeaderType DEF Blocks
<1> HIDE DEF s6
<1>8. BeginsWithCounts(s6 \o Rows("N:"))
  BY <1>1, <1>5, <1>7, MoreLines, RowsType
<1> QED
  BY <1>8 DEF DetectorFile, s2, s3, s4, s5, s6

-----------------------------------------------------------------------------
(* The reader *)

\* The lines not read yet, when n have been read
Rest(n) == SubSeq(DetectorFile, n + 1, Len(DetectorFile))

\* After n lines the counts hold the rows among them, and the data lines that
\* follow go to them or, past the counts, to another block
Progress(n) ==
  /\ n <= 1 => z = "null"
  /\ n \in 2 .. (DIM_Y + 2) => z = "I:" /\ block["I:"] = FirstRows(n - 2)
  /\ n > DIM_Y + 2 => z \in {"I_err:", "N:"} /\ block["I:"] = FirstRows(DIM_Y)

Reader == rpc \in {"scan", "read"}
Found  == path = "D22_Detector"

ReaderInv ==
  /\ rpc \in {"idle", "merging"} => path = "directory"
  /\ Reader => /\ ppc = "done"
               /\ Found \/ \E i \in 1 .. Len(entries) : entries[i] = "D22_Detector"
  /\ rpc = "scan" /\ Found => block["I:"] = FirstRows(DIM_Y)
  /\ rpc = "read" /\ Found => \E n \in 0 .. Len(DetectorFile) : lines = Rest(n) /\ Progress(n)
  /\ rpc = "read" /\ ~Found => lines = <<>>

ReaderType == ResultTypeOK /\ lines \in Seq(LineType)

\* The next line of the detector file, and the lines after it
LEMMA NextLine ==
  ASSUME MergeTypeOK, NEW n \in 0 .. Len(DetectorFile), lines = Rest(n), lines # <<>>
  PROVE  /\ n < Len(DetectorFile)
         /\ Head(lines) = DetectorFile[n + 1] /\ Tail(lines) = Rest(n + 1)
<1>1. DetectorFile \in Seq(LineType) /\ Len(DetectorFile) \in Nat
  BY FileBegins DEF BeginsWithCounts
<1>2. n < Len(DetectorFile)
  <2>1. CASE n = Len(DetectorFile)
    <3>1. lines = <<>>
      BY <1>1, <2>1, SubSeqEmpty DEF Rest
    <3> QED
      BY <3>1
  <2> QED
    BY <1>1, <2>1
<1>3. n + 1 \in 1 .. Len(DetectorFile) /\ Len(DetectorFile) \in (n + 1) .. Len(DetectorFile)
  BY <1>1, <1>2
<1>4. /\ Head(SubSeq(DetectorFile, n + 1, Len(DetectorFile))) = DetectorFile[n + 1]
      /\ Tail(SubSeq(DetectorFile, n + 1, Len(DetectorFile)))
           = SubSeq(DetectorFile, (n + 1) + 1, Len(DetectorFile))
  BY <1>1, <1>3, HeadTailOfSubSeq, Zenon
<1> QED
  BY <1>2, <1>4 DEF Rest

\* What the file holds at each place
LEMMA LineAt ==
  ASSUME MergeTypeOK, NEW n \in 0 .. (Len(DetectorFile) - 1)
  PROVE  /\ n = 0 => DetectorFile[n + 1].kind = "type"
         /\ n = 1 => DetectorFile[n + 1].kind = "I:"
         /\ n \in 2 .. (DIM_Y + 1) => /\ DetectorFile[n + 1] = Row("I:", n - 1)
                                      /\ DetectorFile[n + 1].kind = "data"
         /\ n = DIM_Y + 2 => DetectorFile[n + 1].kind = "I_err:"
         /\ n >= DIM_Y + 2 => DetectorFile[n + 1].kind \in {"data", "I_err:", "N:"}
         /\ DetectorFile[n + 1] \in LineType
<1>1. BeginsWithCounts(DetectorFile) /\ Len(DetectorFile) \in Nat /\ DIM_Y \in Nat
  BY FileBegins, ResultConstants DEF BeginsWithCounts
<1> DEFINE s == DetectorFile
<1> HIDE DEF s
<1>2. BeginsWithCounts(s) /\ Len(s) \in Nat /\ n \in Nat /\ n < Len(s)
  BY <1>1 DEF s
<1>3. s[n + 1] \in LineType
  <2>1. s \in Seq(LineType) /\ n + 1 \in 1 .. Len(s)
    BY <1>2 DEF BeginsWithCounts
  <2> QED
    BY <2>1, ElementOfSeq
<1>4. ASSUME n \in 2 .. (DIM_Y + 1) PROVE s[n + 1] = Row("I:", n - 1) /\ s[n + 1].kind = "data"
  <2>1. n - 1 \in 1 .. DIM_Y /\ (n - 1) + 2 = n + 1
    BY <1>1, <1>4
  <2> QED
    BY <1>2, <2>1, RowType DEF BeginsWithCounts, Blocks
<1>5. ASSUME n >= DIM_Y + 2 PROVE s[n + 1].kind \in {"data", "I_err:", "N:"}
  <2>1. n + 1 \in (DIM_Y + 3) .. Len(s)
    BY <1>1, <1>2, <1>5
  <2> QED
    BY <1>2, <2>1 DEF BeginsWithCounts
<1>6. /\ n = 0 => s[n + 1].kind = "type"
      /\ n = 1 => s[n + 1].kind = "I:"
      /\ n = DIM_Y + 2 => s[n + 1].kind = "I_err:"
  <2>1. n = DIM_Y + 2 => n + 1 = DIM_Y + 3
    BY <1>1
  <2> QED
    BY <1>2, <2>1 DEF BeginsWithCounts
<1> QED
  BY <1>3, <1>4, <1>5, <1>6 DEF s

\* Nothing the reader's invariant says of the merge changes with these
LEMMA SameImage ==
  ASSUME UNCHANGED image
  PROVE  /\ DetectorFile' = DetectorFile
         /\ \A n : Rest(n)' = Rest(n) /\ FirstRows(n)' = FirstRows(n)
BY DEF DetectorFile, Rows, Row, Rest, FirstRows, At

LEMMA NothingTypes ==
  /\ NoData \in Seq(Value) /\ <<0, 0>> \in Nat \X Nat /\ Empty \in [Blocks -> Seq(Value)]
  /\ <<>> \in Seq({"D22_Detector", "other"}) /\ <<>> \in Seq(LineType)
BY DEF NoData, Empty

LEMMA ReaderInit == ResultInit => ReaderType /\ ReaderInv
<1> SUFFICES ASSUME ResultInit PROVE ReaderType /\ ReaderInv
  OBVIOUS
<1>1. MergeTypeOK
  BY InitMerge DEF ResultInit, MergeInv
<1>2. result.data = NoData /\ result.dims = <<0, 0>> /\ block = Empty /\ dims = <<0, 0>>
  BY DEF ResultInit, NoResult
<1>3. lines = <<>> /\ entries = <<>> /\ path = "directory" /\ rpc = "idle" /\ z = "null" /\ final = FALSE
  BY DEF ResultInit
<1>4. ResultTypeOK
  BY <1>1, <1>2, <1>3, NothingTypes DEF ResultTypeOK
<1> QED
  BY <1>3, <1>4 DEF ReaderType, ReaderInv, Reader, Found

LEMMA TypeStep ==
  ASSUME MergeInv, ReaderType, [ResultNext]_resultVars
  PROVE  ReaderType'
<1>1. MergeTypeOK /\ MergeTypeOK'
  BY ResultStepInv DEF MergeInv
<1>2. CASE UNCHANGED readVars
  BY <1>1, <1>2 DEF ReaderType, ResultTypeOK, readVars
<1>3. ASSUME NEW l \in Listing, NEW last \in BOOLEAN, StartMerging(l, last) PROVE ReaderType'
  <2>1. result'.data = NoData /\ result'.dims = <<0, 0>> /\ rpc' = "merging" /\ final' \in BOOLEAN
    BY <1>3 DEF StartMerging, NoResult
  <2>2. UNCHANGED <<entries, path, lines, z, block, dims>>
    BY <1>3 DEF StartMerging
  <2> QED
    BY <1>1, <2>1, <2>2, NothingTypes DEF ReaderType, ResultTypeOK
<1>4. CASE PublishNoResult
  <2>1. result'.data = NoData /\ result'.dims = <<0, 0>> /\ rpc' = "idle" /\ final' = FALSE
    BY <1>4 DEF PublishNoResult
  <2>2. UNCHANGED <<entries, path, lines, z, block, dims>>
    BY <1>4 DEF PublishNoResult
  <2> QED
    BY <1>1, <2>1, <2>2, NothingTypes DEF ReaderType, ResultTypeOK
<1>5. ASSUME NEW order \in Listings, ReadDirectory(order) PROVE ReaderType'
  BY <1>1, <1>5, ResultConstants DEF ReadDirectory, ReaderType, ResultTypeOK
<1>6. CASE NextEntry
  <2>1. lines' \in Seq(LineType)
    <3>1. DetectorFile \in Seq(LineType) /\ DetectorFile' = DetectorFile
      BY <1>1, <1>6, FileBegins, SameImage DEF NextEntry, mergeVars, BeginsWithCounts
    <3> QED
      BY <1>6, <3>1 DEF NextEntry, FileAt
  <2>2. entries' \in Seq({"D22_Detector", "other"})
    BY <1>6, HeadTailProperties DEF NextEntry, ReaderType, ResultTypeOK
  <2> QED
    BY <1>1, <1>6, <2>1, <2>2 DEF NextEntry, ReaderType, ResultTypeOK
<1>7. CASE ReadType
  BY <1>1, <1>7, HeadTailProperties DEF ReadType, Line, ReaderType, ResultTypeOK
<1>8. ASSUME NEW b \in Blocks, ReadHeading(b) PROVE ReaderType'
  <2>1. lines' \in Seq(LineType)
    BY <1>8, HeadTailProperties DEF ReadHeading, Line, ReaderType
  <2>2. block' \in [Blocks -> Seq(Value)]
    BY <1>8 DEF ReadHeading, Cleared, ReaderType, ResultTypeOK
  <2> QED
    BY <1>1, <1>8, <2>1, <2>2 DEF ReadHeading, ReaderType, ResultTypeOK
<1>9. CASE ReadData
  <2>1. lines' \in Seq(LineType) /\ Head(lines) \in LineType
    BY <1>9, HeadTailProperties DEF ReadData, Line, ReaderType
  <2>2. Head(lines).vals \in Seq(Value) /\ z \in Blocks
    BY <1>9, <2>1 DEF ReadData, LineType, ReaderType, ResultTypeOK
  <2>3. block[z] \o Head(lines).vals \in Seq(Value)
    BY <2>2, ConcatProperties DEF ReaderType, ResultTypeOK
  <2>4. block' \in [Blocks -> Seq(Value)]
    BY <1>9, <2>2, <2>3 DEF ReadData, ReaderType, ResultTypeOK
  <2> QED
    BY <1>1, <1>9, <2>1, <2>4 DEF ReadData, ReaderType, ResultTypeOK
<1>10. CASE EndOfLines
  BY <1>1, <1>10 DEF EndOfLines, ReaderType, ResultTypeOK
<1>11. CASE PublishResult
  <2>1. block["I:"] \in Seq(Value) /\ dims \in Nat \X Nat
    BY DEF ReaderType, ResultTypeOK, Blocks
  <2>2. result'.data = block["I:"] /\ result'.dims = dims /\ rpc' = "idle" /\ final' = FALSE
    BY <1>11 DEF PublishResult
  <2>3. /\ entries' = <<>> /\ path' = "directory" /\ z' = "null" /\ block' = Empty
        /\ dims' = <<0, 0>> /\ lines' = lines
    BY <1>11 DEF PublishResult
  <2> QED
    BY <1>1, <2>1, <2>2, <2>3, NothingTypes DEF ReaderType, ResultTypeOK
<1> QED
  BY <1>2, <1>3, <1>4, <1>5, <1>6, <1>7, <1>8, <1>9, <1>10, <1>11
     DEF ResultNext, MergeStep, MergeFails, ReadStep, resultVars, readVars

\* A step of the merge is not one of a merge that is done
LEMMA MergeRuns == MergeApp => ppc # "done"
BY DEF MergeApp, PassThrough, OpenFile, Opening, OpenMissing, OpenBeyond, AllOpen, Seek, Ray,
   EndOfFile, SkipFile, NextFile, Finish

\* Every entry of the directory reads a file: none before the detector's is met
LEMMA NextEntryInv ==
  ASSUME MergeTypeOK, ReaderType, ReaderInv, NextEntry
  PROVE  ReaderInv'
<1>1. DetectorFile \in Seq(LineType) /\ Len(DetectorFile) \in Nat /\ DIM_Y \in Nat
  BY FileBegins, ResultConstants DEF BeginsWithCounts
<1>2. /\ DetectorFile' = DetectorFile
      /\ \A n : Rest(n)' = Rest(n) /\ FirstRows(n)' = FirstRows(n)
  BY SameImage DEF NextEntry, mergeVars
<1>3. ppc' = "done" /\ rpc' = "read" /\ lines' = FileAt(path')
  BY DEF NextEntry, ReaderInv, Reader, mergeVars
<1>4. Found' \/ \E i \in 1 .. Len(entries') : entries'[i] = "D22_Detector"
  <2>1. entries \in Seq({"D22_Detector", "other"}) /\ entries # <<>> /\ entries' = Tail(entries)
    BY DEF ReaderType, ResultTypeOK, NextEntry
  <2>2. /\ Len(entries') = Len(entries) - 1 /\ Len(entries) \in Nat
        /\ \A i \in 1 .. Len(entries') : entries'[i] = entries[i + 1]
    BY <2>1, HeadTailProperties
  <2>3. CASE Found \/ Head(entries) = "D22_Detector"
    BY <2>3 DEF NextEntry, Found
  <2>4. CASE ~Found /\ Head(entries) # "D22_Detector"
    <3>1. PICK i \in 1 .. Len(entries) : entries[i] = "D22_Detector"
      BY <2>4 DEF NextEntry, ReaderInv, Reader
    <3>2. i # 1
      BY <2>1, <2>4, <3>1
    <3>3. i - 1 \in 1 .. Len(entries') /\ entries'[i - 1] = entries[i]
      BY <2>2, <3>2
    <3> QED
      BY <3>1, <3>3
  <2> QED
    BY <2>3, <2>4
<1>5. ASSUME Found'
      PROVE  \E n \in 0 .. Len(DetectorFile') : lines' = Rest(n)' /\ Progress(n)'
  <2>1. lines' = Rest(0)'
    BY <1>1, <1>2, <1>3, <1>5, SubSeqFull DEF FileAt, Found, Rest
  <2>2. Progress(0)'
    BY <1>1 DEF Progress, NextEntry
  <2> QED
    BY <1>1, <1>2, <2>1, <2>2
<1>6. ~Found' => lines' = <<>>
  BY <1>3 DEF FileAt, Found
<1> QED
  BY <1>3, <1>4, <1>5, <1>6 DEF ReaderInv, Reader

\* Every line of it adds a row to the counts, or leaves them
LEMMA ReadLineInv ==
  ASSUME MergeTypeOK, ReaderType, ReaderInv,
         ReadType \/ (\E b \in Blocks : ReadHeading(b)) \/ ReadData
  PROVE  ReaderInv'
<1> USE DEF Found
<1>1. /\ rpc = "read" /\ rpc' = "read" /\ lines # <<>> /\ lines' = Tail(lines)
      /\ UNCHANGED <<mergeVars, path, entries>>
  BY DEF ReadType, ReadHeading, ReadData, Line
<1>2. /\ DetectorFile' = DetectorFile /\ ppc' = ppc
      /\ \A n : Rest(n)' = Rest(n) /\ FirstRows(n)' = FirstRows(n)
  BY <1>1, SameImage DEF mergeVars
<1>3. Found
  BY <1>1 DEF ReaderInv
<1>4. PICK n \in 0 .. Len(DetectorFile) : lines = Rest(n) /\ Progress(n)
  BY <1>1, <1>3 DEF ReaderInv
<1>5. Len(DetectorFile) \in Nat /\ DIM_Y \in Nat
  BY FileBegins, ResultConstants DEF BeginsWithCounts
<1>6. /\ n < Len(DetectorFile) /\ n \in 0 .. (Len(DetectorFile) - 1)
      /\ Head(lines) = DetectorFile[n + 1] /\ Tail(lines) = Rest(n + 1)
  BY <1>1, <1>4, <1>5, NextLine
<1> DEFINE kind == DetectorFile[n + 1].kind
<1>7. /\ n = 0 => kind = "type"
      /\ n = 1 => kind = "I:"
      /\ n \in 2 .. (DIM_Y + 1) => DetectorFile[n + 1] = Row("I:", n - 1) /\ kind = "data"
      /\ n = DIM_Y + 2 => kind = "I_err:"
      /\ n >= DIM_Y + 2 => kind \in {"data", "I_err:", "N:"}
  BY <1>6, LineAt
<1>8. block \in [Blocks -> Seq(Value)]
  BY DEF ReaderType, ResultTypeOK
<1>9. Progress(n + 1)'
  <2>1. CASE ReadType
    <3>1. kind = "type" /\ z' = z /\ block' = block
      BY <1>6, <2>1 DEF ReadType, Line
    <3>2. n = 0
      BY <1>5, <1>7, <3>1
    <3> QED
      BY <1>4, <1>5, <3>1, <3>2 DEF Progress
  <2>2. ASSUME NEW b \in Blocks, ReadHeading(b) PROVE Progress(n + 1)'
    <3>1. kind = b /\ z' = b /\ block' = [block EXCEPT ![b] = <<>>]
      BY <1>6, <2>2 DEF ReadHeading, Line, Cleared
    <3>2. CASE n = 1
      <4>1. z' = "I:" /\ block'["I:"] = <<>>
        BY <1>7, <1>8, <3>1, <3>2
      <4>2. FirstRows(0) = <<>>
        BY ResultConstants DEF FirstRows
      <4>3. n + 1 = 2 /\ (n + 1) - 2 = 0
        BY <3>2
      <4> QED
        BY <1>2, <1>5, <4>1, <4>2, <4>3 DEF Progress
    <3>3. CASE n >= DIM_Y + 2
      <4>1. b \in {"I_err:", "N:"}
        BY <1>7, <3>1, <3>3 DEF Blocks
      <4>2. block'["I:"] = block["I:"]
        BY <1>8, <3>1, <4>1 DEF Blocks
      <4>3. block["I:"] = FirstRows(DIM_Y)
        <5>1. n = DIM_Y + 2 => n \in 2 .. (DIM_Y + 2) /\ n - 2 = DIM_Y
          BY <1>5
        <5> QED
          BY <1>4, <1>5, <3>3, <5>1 DEF Progress
      <4> QED
        BY <1>2, <1>5, <3>1, <3>3, <4>1, <4>2, <4>3 DEF Progress
    <3> QED
      BY <1>5, <1>7, <3>1, <3>2, <3>3 DEF Blocks
  <2>3. CASE ReadData
    <3>1. /\ kind = "data" /\ z' = z /\ z # "null"
          /\ block' = [block EXCEPT ![z] = @ \o DetectorFile[n + 1].vals]
      BY <1>6, <2>3 DEF ReadData, Line
    <3>2. CASE n \in 2 .. (DIM_Y + 1)
      <4>1. z = "I:" /\ block["I:"] = FirstRows(n - 2) /\ "I:" \in Blocks
        BY <1>4, <1>5, <3>2 DEF Progress, Blocks
      <4>2. block'["I:"] = FirstRows(n - 2) \o Row("I:", (n - 2) + 1).vals
        <5>1. (n - 2) + 1 = n - 1
          BY <1>6
        <5> QED
          BY <1>7, <1>8, <3>1, <3>2, <4>1, <5>1
      <4>3. n - 2 \in Nat /\ n - 2 < DIM_Y /\ (n - 2) + 1 = (n + 1) - 2
        BY <1>5, <3>2
      <4>4. block'["I:"] = FirstRows((n + 1) - 2)
        BY <4>2, <4>3, AppendRow
      <4> QED
        BY <1>2, <1>5, <3>1, <3>2, <4>1, <4>4 DEF Progress
    <3>3. CASE n > DIM_Y + 2
      <4>1. z \in {"I_err:", "N:"} /\ block["I:"] = FirstRows(DIM_Y)
        BY <1>4, <3>3 DEF Progress
      <4>2. block'["I:"] = block["I:"]
        BY <1>8, <3>1, <4>1 DEF Blocks
      <4>3. ~(n + 1 <= 1) /\ n + 1 \notin 2 .. (DIM_Y + 2)
        BY <1>5, <3>3
      <4>4. z' \in {"I_err:", "N:"} /\ block'["I:"] = FirstRows(DIM_Y)'
        BY <1>2, <3>1, <4>1, <4>2
      <4> QED
        BY <4>3, <4>4 DEF Progress
    <3> QED
      BY <1>5, <1>6, <1>7, <3>1, <3>2, <3>3
  <2> QED
    BY <2>1, <2>2, <2>3
<1>10. n + 1 \in 0 .. Len(DetectorFile') /\ lines' = Rest(n + 1)'
  BY <1>1, <1>2, <1>5, <1>6
<1>11. Reader' /\ Found' /\ ppc' = "done"
  BY <1>1, <1>2, <1>3 DEF ReaderInv, Reader
<1> QED
  BY <1>1, <1>9, <1>10, <1>11 DEF ReaderInv, Reader

\* At the end of the file the counts are the whole image
LEMMA EndOfLinesInv ==
  ASSUME MergeTypeOK, ReaderInv, EndOfLines
  PROVE  ReaderInv'
<1>1. /\ rpc = "read" /\ rpc' = "scan" /\ lines = <<>>
      /\ UNCHANGED <<mergeVars, path, entries, block>>
  BY DEF EndOfLines
<1>2. \A n : FirstRows(n)' = FirstRows(n)
  BY <1>1, SameImage DEF mergeVars
<1>3. ppc' = "done" /\ (Found' \/ \E i \in 1 .. Len(entries') : entries'[i] = "D22_Detector")
  BY <1>1 DEF ReaderInv, Reader, Found, mergeVars
<1>4. ASSUME Found PROVE block["I:"] = FirstRows(DIM_Y)
  <2>1. PICK n \in 0 .. Len(DetectorFile) : lines = Rest(n) /\ Progress(n)
    BY <1>1, <1>4 DEF ReaderInv
  <2>2. DetectorFile \in Seq(LineType) /\ Len(DetectorFile) \in Nat /\ Len(DetectorFile) >= DIM_Y + 3
    BY FileBegins DEF BeginsWithCounts
  <2>3. n = Len(DetectorFile)
    <3>1. CASE n < Len(DetectorFile)
      <4>1. \A i \in (n + 1) .. Len(DetectorFile) : DetectorFile[i] \in LineType
        BY <2>2, ElementOfSeq
      <4>2. Len(Rest(n)) = Len(DetectorFile) - n
        BY <2>2, <3>1, <4>1, SubSeqProperties DEF Rest
      <4> QED
        BY <1>1, <2>1, <2>2, <3>1, <4>2
    <3> QED
      BY <2>2, <3>1
  <2> QED
    BY <2>1, <2>2, <2>3, ResultConstants DEF Progress
<1> QED
  BY <1>1, <1>2, <1>3, <1>4 DEF ReaderInv, Reader, Found

LEMMA ReaderStep ==
  ASSUME MergeInv, ReaderType, ReaderInv, [ResultNext]_resultVars
  PROVE  ReaderInv'
<1>1. MergeTypeOK
  BY DEF MergeInv
<1>2. CASE UNCHANGED <<image, ppc, rpc, entries, path, lines, z, block>>
  <2>1. /\ DetectorFile' = DetectorFile
        /\ \A n : Rest(n)' = Rest(n) /\ FirstRows(n)' = FirstRows(n)
    BY <1>2, SameImage
  <2>2. \A n : Progress(n) => Progress(n)'
    BY <1>2, <2>1 DEF Progress
  <2> QED
    BY <1>2, <2>1, <2>2 DEF ReaderInv, Reader, Found
<1>3. CASE MergeStep \/ MergeFails
  <2>1. ~Reader /\ UNCHANGED readVars
    BY <1>3, MergeRuns DEF MergeStep, MergeFails, ReaderInv, Reader, readVars
  <2> QED
    BY <2>1 DEF ReaderInv, Reader, readVars
<1>4. CASE PublishNoResult \/ PublishResult \/ \E l \in Listing, last \in BOOLEAN : StartMerging(l, last)
  <2>1. rpc' \in {"idle", "merging"} /\ path' = "directory"
    BY <1>4 DEF PublishNoResult, PublishResult, StartMerging, ReaderInv
  <2> QED
    BY <2>1 DEF ReaderInv, Reader
<1>5. ASSUME NEW order \in Listings, ReadDirectory(order) PROVE ReaderInv'
  <2>1. order \in Seq({"D22_Detector", "other"}) /\ \E i \in DOMAIN order : order[i] = "D22_Detector"
    BY ResultConstants
  <2>2. \E i \in 1 .. Len(order) : order[i] = "D22_Detector"
    BY <2>1
  <2>3. ppc' = "done" /\ rpc' = "scan" /\ entries' = order /\ path' = "directory"
    BY <1>5 DEF ReadDirectory, mergeVars, ReaderInv
  <2> QED
    BY <2>2, <2>3 DEF ReaderInv, Reader, Found
<1>6. CASE ReadStep
  BY <1>1, <1>4, <1>6, NextEntryInv, ReadLineInv, EndOfLinesInv DEF ReadStep
<1> QED
  BY <1>2, <1>3, <1>4, <1>5, <1>6 DEF ResultNext, resultVars, readVars, mergeVars

-----------------------------------------------------------------------------
(* What is published *)

ImageInv == MergeInv /\ CountInv /\ ReaderType /\ ReaderInv

LEMMA ImageInvInit == ResultInit => ImageInv
BY InitMerge, CountInit, ReaderInit DEF ResultInit, ImageInv

LEMMA ImageInvStep == ImageInv /\ [ResultNext]_resultVars => ImageInv'
BY ResultStepInv, CountStep, TypeStep, ReaderStep DEF ImageInv

\* The counts read when the directory is at its end are those of all the neutrons
LEMMA ImageRead ==
  ASSUME ImageInv, ScanEnds
  PROVE  /\ block["I:"] = [i \in 1 .. (DIM_X * DIM_Y) |-> At(i)]
         /\ list # <<>> =>
              block["I:"] = [i \in 1 .. (DIM_X * DIM_Y) |-> <<"I:", Expected(PixelAt(i))>>]
<1>1. ppc = "done" /\ Found /\ block["I:"] = FirstRows(DIM_Y)
  BY DEF ImageInv, ReaderInv, Reader, ScanEnds
<1>2. list # <<>> => image = [p \in Pixel |-> Expected(p)]
  BY <1>1, DoneCounts DEF ImageInv
<1>3. DIM_Y * DIM_X = DIM_X * DIM_Y
  BY ResultConstants
<1>4. list # <<>> => \A i \in 1 .. (DIM_X * DIM_Y) : At(i) = <<"I:", Expected(PixelAt(i))>>
  BY <1>2, PixelAtType DEF At
<1>5. block["I:"] = [i \in 1 .. (DIM_X * DIM_Y) |-> At(i)]
  BY <1>1, <1>3 DEF FirstRows
<1> QED
  BY <1>4, <1>5

\* Only PublishResult publishes data with these statuses
LEMMA ServesImage ==
  ASSUME ImageInv, [ResultNext]_resultVars, result' # result,
         result'.status \in {"SUCCESS", "RUNNING"}, list # <<>>
  PROVE  result'.data = [i \in 1 .. (DIM_X * DIM_Y) |-> <<"I:", Expected(PixelAt(i))>>]
<1>1. PublishResult
  <2>1. \A l \in Listing, last \in BOOLEAN : ~StartMerging(l, last)
    BY DEF StartMerging, NoResult
  <2>2. ~PublishNoResult
    BY DEF PublishNoResult
  <2>3. ~MergeStep /\ ~MergeFails /\ \A order \in Listings : ~ReadDirectory(order)
    BY DEF MergeStep, MergeFails, ReadDirectory, readVars
  <2>4. ~NextEntry /\ ~ReadType /\ ~ReadData /\ ~EndOfLines /\ \A b \in Blocks : ~ReadHeading(b)
    BY DEF NextEntry, ReadType, ReadHeading, ReadData, EndOfLines
  <2> QED
    BY <2>1, <2>2, <2>3, <2>4 DEF ResultNext, ReadStep, resultVars, readVars
<1>2. result'.data = block["I:"] /\ ScanEnds
  BY <1>1 DEF PublishResult
<1> QED
  BY <1>2, ImageRead

\* The inductive invariant of the merge, its count and the reader, for a
\* detector of any size, any files and any order of the directory
THEOREM ImageInductive == ResultSpec => []ImageInv
BY ImageInvInit, ImageInvStep, PTL DEF ResultSpec

\* The reader's state is well typed: the counts are numbers, whatever is read
\* (sim_result_server.cc, lines 13-48)
THEOREM ResultTypes == ResultSpec => []ResultTypeOK
<1>1. ImageInv => ResultTypeOK
  BY DEF ImageInv, ReaderType
<1> QED
  BY <1>1, ImageInductive, PTL

\* What the worker publishes of a merge that lists some file is the intensity of all
\* the neutrons of all the listed files, once, in whatever order the merge directory
\* is listed (mcstas_server.cpp, lines 50-66; sim_result_server.cc, lines 13-45)
THEOREM ImageCorrect == ResultSpec => ImageServed
<1>1. ImageInv /\ [ResultNext]_resultVars =>
        [result' # result /\ result'.status \in {"SUCCESS", "RUNNING"} /\ list # <<>> =>
           result'.data = [i \in 1 .. (DIM_X * DIM_Y) |-> <<"I:", Expected(PixelAt(i))>>]]_resultVars
  BY ServesImage
<1> QED
  BY <1>1, ImageInductive, PTL DEF ResultSpec, ImageServed

-----------------------------------------------------------------------------
(* The merge application and the reader implement ImageService *)

LEMMA MergeKeepsFiles == MergeApp => UNCHANGED <<data, list>>
BY DEF MergeApp, PassThrough, OpenFile, OpenMissing, OpenBeyond, AllOpen, Seek, Ray, EndOfFile, SkipFile,
   NextFile, Finish

\* The files asked for, as the service numbers them
LEMMA FilesAsked ==
  ASSUME MergeTypeOK, rpc # "idle"
  PROVE  /\ Len(filesOf) = nfiles /\ DOMAIN filesOf = 1 .. nfiles /\ nfiles \in Nat
         /\ \A k \in 0 .. (nfiles - 1) : filesOf[k + 1] = Holds(k)
<1>1. nfiles \in Nat
  BY IndexFacts
<1>2. filesOf = [i \in 1 .. nfiles |-> data[list[i]]]
  BY DEF filesOf
<1> QED
  BY <1>1, <1>2 DEF Holds

\* The image of the service is the one the properties speak of
LEMMA SameImageAsked ==
  ASSUME MergeTypeOK, rpc # "idle"
  PROVE  Merging!Image(filesOf) = [i \in 1 .. (DIM_X * DIM_Y) |-> <<"I:", Expected(PixelAt(i))>>]
<1> DEFINE fs == filesOf
<1>1. /\ Len(fs) = nfiles /\ nfiles \in Nat
      /\ \A k \in 0 .. (nfiles - 1) : fs[k + 1] = Holds(k)
  BY FilesAsked
<1> HIDE DEF fs
<1>2. Merging!Neutrons(fs) = AllNeutrons
  BY <1>1 DEF Merging!Neutrons, AllNeutrons
<1>3. ASSUME NEW n \in AllNeutrons PROVE Merging!GoesTo(fs, n) = Holds(n[1])[n[2]]
  <2>1. PICK k \in 0 .. (nfiles - 1) : n \in {k} \X (1 .. Len(Holds(k)))
    BY <1>3 DEF AllNeutrons
  <2>2. n[1] = k
    BY <2>1
  <2> QED
    BY <1>1, <2>2 DEF Merging!GoesTo
<1>4. \A i : Merging!PixelAt(i) = PixelAt(i)
  BY DEF Merging!PixelAt, PixelAt
<1>5. \A p : {n \in Merging!Neutrons(fs) : Merging!GoesTo(fs, n) = p}
               = {n \in AllNeutrons : Holds(n[1])[n[2]] = p}
  BY <1>2, <1>3
<1>6. ASSUME NEW i \in 1 .. (DIM_X * DIM_Y)
      PROVE  Cardinality({n \in Merging!Neutrons(fs) : Merging!GoesTo(fs, n) = Merging!PixelAt(i)})
               = Expected(PixelAt(i))
  BY <1>4, <1>5 DEF Expected
<1>7. \A S : Merging!Cardinality(S) = Cardinality(S)
  BY DEF Merging!Cardinality, Cardinality
<1>8. Merging!Image(fs) = [i \in 1 .. (DIM_X * DIM_Y) |-> <<"I:", Expected(PixelAt(i))>>]
  BY <1>6, <1>7 DEF Merging!Image, Merging!Place
<1> QED
  BY <1>8 DEF fs

LEMMA ImageStepRefines ==
  ASSUME ImageInv, [ResultNext]_resultVars
  PROVE  [Merging!Next]_(Merging!vars)
<1>1. MergeTypeOK
  BY DEF ImageInv, MergeInv
<1>2. CASE UNCHANGED <<data, list, final, result>> /\ (rpc # "idle" <=> rpc' # "idle")
  <2>1. filesOf' = filesOf
    BY <1>2 DEF filesOf, nfiles
  <2> QED
    BY <1>2, <2>1 DEF Merging!vars
<1>3. ASSUME NEW l \in Listing, NEW last \in BOOLEAN, StartMerging(l, last)
      PROVE  Merging!Ask
  BY <1>3 DEF StartMerging, NoResult, NoData, Merging!Ask
<1>4. CASE PublishNoResult
  <2>1. rpc # "idle" /\ ppc = "aborted" /\ rpc' = "idle" /\ final' = FALSE /\ filesOf' = <<>>
    BY <1>4 DEF PublishNoResult, filesOf
  <2>2. result'.status = "FAILURE" /\ result'.data = <<>>
    BY <1>4 DEF PublishNoResult, NoData
  <2> QED
    BY <2>1, <2>2 DEF Merging!Next, Merging!Refuse, Merging!Publish
<1>5. CASE PublishResult
  <2>1. ScanEnds /\ rpc # "idle" /\ ppc = "done" /\ rpc' = "idle" /\ final' = FALSE /\ filesOf' = <<>>
    BY <1>5 DEF PublishResult, ScanEnds, filesOf, ImageInv, ReaderInv, Reader
  <2>2. result'.status = (IF final THEN "SUCCESS" ELSE "RUNNING") /\ result'.data = block["I:"]
    BY <1>5 DEF PublishResult, ResultStatus
  <2>3. block["I:"] \in Merging!Images(filesOf)
    <3>1. CASE list # <<>>
      <4>1. block["I:"] = Merging!Image(filesOf)
        BY <1>1, <2>1, <3>1, ImageRead, SameImageAsked
      <4>2. filesOf # <<>>
        BY <1>1, <2>1, <3>1, FilesAsked DEF nfiles, MergeTypeOK
      <4> QED
        BY <4>1, <4>2 DEF Merging!Images
    <3>2. CASE list = <<>>
      <4>1. block["I:"] = [i \in 1 .. (DIM_X * DIM_Y) |-> At(i)]
        BY <2>1, ImageRead
      <4>2. \A i \in 1 .. (DIM_X * DIM_Y) : At(i) \in {"I:"} \X Nat
        BY <1>1, PixelAtType DEF At, MergeTypeOK
      <4>3. filesOf = <<>>
        BY <2>1, <3>2 DEF filesOf, nfiles
      <4> QED
        BY <4>1, <4>2, <4>3 DEF Merging!Images, Merging!Place
    <3> QED
      BY <3>1, <3>2
  <2>4. ~Merging!Missing(filesOf)
    <3> SUFFICES ASSUME NEW i \in DOMAIN filesOf PROVE filesOf[i] # NoFile
      BY DEF Merging!Missing
    <3>1. nfiles \in Nat /\ i \in 1 .. nfiles /\ i - 1 \in 0 .. (nfiles - 1) /\ (i - 1) + 1 = i
      BY <1>1, <2>1, FilesAsked
    <3>2. filesOf[i] = Holds(i - 1)
      BY <1>1, <2>1, <3>1, FilesAsked
    <3>3. Holds(i - 1) \in Content
      BY <2>1, <3>1, DoneCounts DEF ImageInv
    <3> QED
      BY <3>2, <3>3, MergeConstants
  <2> QED
    BY <2>1, <2>2, <2>3, <2>4 DEF Merging!Next, Merging!Serve, Merging!Publish
<1>6. CASE MergeStep
  BY <1>2, <1>6, MergeKeepsFiles DEF MergeStep, readVars
<1>7. ASSUME NEW order \in Listings, ReadDirectory(order) PROVE [Merging!Next]_(Merging!vars)
  BY <1>2, <1>7 DEF ReadDirectory, mergeVars
<1>8. CASE ReadStep /\ ~PublishResult
  BY <1>2, <1>8 DEF ReadStep, NextEntry, ReadType, ReadHeading, ReadData, EndOfLines, Line, mergeVars
<1>9. CASE UNCHANGED resultVars \/ MergeFails
  BY <1>2, <1>9 DEF resultVars, mergeVars, readVars, MergeFails
<1> QED
  BY <1>3, <1>4, <1>5, <1>6, <1>7, <1>8, <1>9 DEF ResultNext, ReadStep, Merging!Next

\* What the worker publishes of its merges is what ImageService allows: one answer
\* for each merge, the image of all the files listed, final when it was begun as
\* final, or a failure; no image if a file is missing, some image if no file is
\* listed (mcstas_server.cpp, lines 50-66 and 381-420; MCPL_input.comp)
THEOREM ImageRefinement == ResultSpec => ImplementsImageService
<1>1. ResultInit => Merging!Init
  BY DEF ResultInit, MergeInit, NoResult, NoData, filesOf, Merging!Init
<1>2. ImageInv /\ [ResultNext]_resultVars => [Merging!Next]_(Merging!vars)
  BY ImageStepRefines
<1> QED
  BY <1>1, <1>2, ImageInductive, PTL DEF ResultSpec, ImplementsImageService, Merging!Spec
=============================================================================
