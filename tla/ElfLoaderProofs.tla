--------------------------- MODULE ElfLoaderProofs ---------------------------
(***************************************************************************)
(* Proofs about ElfLoader for every set of files and every size of a       *)
(* section header: whatever is written to the file while it is loaded, the *)
(* slices are the sections of the image that was read.                     *)
(***************************************************************************)
EXTENDS ElfLoader, TLAPS

(* Who owns what while the loader runs.                                    *)
OwnerOK ==
  /\ phase # "done" => status = "OK"
  /\ phase \in {"parse", "locate", "collect"} => image # None
  /\ phase \notin {"collect", "done"} => want = 1 /\ at = 0
  /\ NothingLeaks

SliceIs(n) ==
  LET S == SectionsNamed(Names[n])
      h == Header(Min(S))
  IN  slices[n] = IF S = {} THEN Empty ELSE [offset |-> h.offset, size |-> h.size]

(* The names looked up so far have their slices, and no section before at  *)
(* has the name looked up now.                                             *)
SearchOK ==
  phase = "collect" \/ Loaded =>
    /\ at <= Len(image.headers)
    /\ \A n \in 1 .. 3 : n < want => SliceIs(n) /\ slices[n].offset + slices[n].size <= image.size
    /\ want > 1 => SectionsNamed(Names[1]) # {}
    /\ want <= 3 => \A i \in 0 .. at - 1 : i \notin SectionsNamed(Names[want])
    /\ Loaded => want = 4

IInv == TypeOK /\ OwnerOK /\ SearchOK

-----------------------------------------------------------------------------
(* Lemmas about the operators *)

(* Three names are looked up.                                             *)
LEMMA ThreeNames == Len(Names) = 3
BY DEF Names

(* A header the section table has holds natural numbers.                   *)
LEMMA HeaderIsTyped ==
  ASSUME image \in FileRecords, NEW i \in 0 .. Len(image.headers) - 1
  PROVE  Header(i).offset \in Nat /\ Header(i).size \in Nat
<1>1. image.headers \in Seq(Headers)
  BY DEF FileRecords
<1>2. \A hs \in Seq(Headers) : \A k \in 1 .. Len(hs) : hs[k] \in Headers
  OBVIOUS
<1>3. i + 1 \in 1 .. Len(image.headers)
  BY <1>1
<1>4. Header(i) \in Headers
  BY <1>1, <1>2, <1>3 DEF Header
<1>5. QED BY <1>4 DEF Headers

(* The check of dwunw_elf_section_header, with its sum rearranged.         *)
LEMMA InsideEnds ==
  ASSUME image \in FileRecords, NEW i \in Nat
  PROVE  Inside(i) <=> image.shoff + (i + 1) * EntrySize <= image.size
<1>1. (i + 1) * EntrySize = i * EntrySize + EntrySize
  BY SizesAssumption
<1>2. i * EntrySize \in Nat /\ EntrySize \in Nat /\ image.shoff \in Nat
  BY SizesAssumption DEF FileRecords
<1>3. QED BY <1>1, <1>2 DEF Inside

(* Matches is membership among the sections of the name looked up.         *)
LEMMA MatchesIsNamed ==
  ASSUME image \in FileRecords, at \in Nat, at < Len(image.headers)
  PROVE  Matches <=> at \in SectionsNamed(Names[want])
<1>1. at \in 0 .. Len(image.headers) - 1
  BY DEF FileRecords
<1>2. QED BY <1>1, InsideEnds DEF Matches, SectionsNamed

(* The first match of the search is the first section of the name.         *)
LEMMA FirstIsMin ==
  ASSUME NEW S \in SUBSET Int, NEW m \in S, \A i \in S : m <= i
  PROVE  Min(S) = m
<1>1. PICK k \in S : k = Min(S) /\ \A y \in S : k <= y
  BY DEF Min
<1>2. QED BY <1>1

-----------------------------------------------------------------------------
(* The invariant holds before dwunw_elf_open is called.                    *)
THEOREM InitIInv == Init => IInv
<1> SUFFICES ASSUME Init PROVE IInv
  OBVIOUS
<1>1. TypeOK
  <2>1. Empty \in Slices
    BY DEF Empty, Slices
  <2>2. slices \in [1 .. Len(Names) -> Slices]
    BY <2>1 DEF Init
  <2>3. want \in 1 .. Len(Names) + 1 /\ at \in Nat
    BY ThreeNames DEF Init
  <2>4. QED BY <2>2, <2>3 DEF Init, TypeOK, Phases
<1>2. OwnerOK /\ SearchOK
  BY DEF Init, OwnerOK, NothingLeaks, SearchOK, Loaded
<1>3. QED BY <1>1, <1>2 DEF IInv

(* Every failing return of the loader keeps the invariant.                 *)
LEMMA FailsKeeps ==
  ASSUME IInv, NEW why \in {"IO", "BAD_FORMAT", "NO_DEBUG_DATA"}, Fails(why)
  PROVE  IInv'
<1>1. TypeOK'
  BY DEF IInv, TypeOK, Fails, handleVars, Phases
<1>2. OwnerOK' /\ SearchOK'
  BY DEF IInv, Fails, handleVars, OwnerOK, NothingLeaks, SearchOK, Loaded
<1>3. QED BY <1>1, <1>2 DEF IInv

(* A step that leaves the image and the slices alone leaves what is said   *)
(* of each slice alone.                                                    *)
LEMMA SlicesStay ==
  ASSUME UNCHANGED <<image, slices>>, NEW n \in 1 .. 3
  PROVE  SliceIs(n) <=> SliceIs(n)'
BY DEF SliceIs, SectionsNamed, Header

(* Looking at a section: the image is a file record and at is one of its   *)
(* sections.                                                               *)
LEMMA AtIsSection ==
  ASSUME IInv, Looking, at < Len(image.headers)
  PROVE  /\ image \in FileRecords
         /\ at \in 0 .. Len(image.headers) - 1
         /\ want \in 1 .. 3
         /\ Matches <=> at \in SectionsNamed(Names[want])
<1>1. image \in FileRecords
  BY DEF IInv, TypeOK, OwnerOK, Looking
<1>2. at \in 0 .. Len(image.headers) - 1
  BY <1>1 DEF IInv, TypeOK, FileRecords
<1>3. want \in 1 .. 3
  BY ThreeNames DEF IInv, TypeOK, Looking
<1>4. QED BY <1>1, <1>2, <1>3, MatchesIsNamed

(* A section passed over is not of the name looked up.                     *)
LEMMA SkipKeeps == IInv /\ Skip => IInv'
<1> SUFFICES ASSUME IInv, Skip PROVE IInv'
  OBVIOUS
<1>1. /\ image \in FileRecords /\ at \in 0 .. Len(image.headers) - 1
      /\ want \in 1 .. 3 /\ at \notin SectionsNamed(Names[want])
  BY AtIsSection DEF Skip
<1>2. TypeOK'
  BY DEF IInv, TypeOK, Skip
<1>3. OwnerOK'
  BY DEF IInv, OwnerOK, NothingLeaks, Skip, Looking
<1>4. SearchOK'
  <2>1. \A n \in 1 .. 3 : SliceIs(n) <=> SliceIs(n)'
    BY SlicesStay DEF Skip
  <2>2. \A i \in 0 .. at' - 1 : i \notin SectionsNamed(Names[want])
    BY <1>1 DEF IInv, SearchOK, Skip, Looking
  <2>3. \A nm : SectionsNamed(nm)' = SectionsNamed(nm)
    BY DEF SectionsNamed, Header, Skip
  <2>4. at' <= Len(image.headers)
    BY <1>1 DEF Skip, FileRecords
  <2>5. QED BY <1>1, <2>1, <2>2, <2>3, <2>4 DEF IInv, SearchOK, Skip, Looking, Loaded
<1>5. QED BY <1>2, <1>3, <1>4 DEF IInv

(* The first section of the name is what its slice records.                *)
LEMMA FoundKeeps == IInv /\ Found => IInv'
<1> SUFFICES ASSUME IInv, Found PROVE IInv'
  OBVIOUS
<1>1. /\ image \in FileRecords /\ at \in 0 .. Len(image.headers) - 1
      /\ want \in 1 .. 3 /\ at \in SectionsNamed(Names[want])
  BY AtIsSection DEF Found
<1>2. Header(at).offset \in Nat /\ Header(at).size \in Nat
  BY <1>1, HeaderIsTyped
<1>3. TypeOK'
  <2>1. slices' \in [1 .. Len(Names) -> Slices]
    BY <1>2 DEF IInv, TypeOK, Found, Slices
  <2>2. want' \in 1 .. Len(Names) + 1 /\ at' \in Nat
    BY <1>1, ThreeNames DEF Found
  <2>3. QED BY <2>1, <2>2 DEF IInv, TypeOK, Found
<1>4. OwnerOK'
  BY DEF IInv, OwnerOK, NothingLeaks, Found, Looking
<1>5. SearchOK'
  <2> DEFINE h == Header(at)
             S == SectionsNamed(Names[want])
  <2>1. \A nm : SectionsNamed(nm)' = SectionsNamed(nm)
    BY DEF SectionsNamed, Header, Found
  <2>2. \A i : Header(i)' = Header(i)
    BY DEF Header, Found
  <2>3. Min(S) = at
    <3>1. S \in SUBSET Int
      BY DEF SectionsNamed
    <3>2. \A i \in S : i \in 0 .. Len(image.headers) - 1 /\ i \notin 0 .. at - 1
      BY <1>1 DEF SectionsNamed, IInv, SearchOK, Found, Looking
    <3>3. \A i \in S : at <= i
      BY <1>1, <3>2 DEF FileRecords
    <3>4. QED BY <1>1, <3>1, <3>3, FirstIsMin
  <2>4. slices' = [slices EXCEPT ![want] = [offset |-> h.offset, size |-> h.size]]
    BY DEF Found
  <2>5. ASSUME NEW n \in 1 .. 3, n < want'
        PROVE  SliceIs(n)' /\ slices'[n].offset + slices'[n].size <= image'.size
    <3>1. CASE n = want
      <4>1. slices'[n] = [offset |-> h.offset, size |-> h.size]
        BY <2>4, <1>1, <3>1, ThreeNames DEF IInv, TypeOK
      <4>2. SliceIs(n)'
        BY <1>1, <2>1, <2>2, <2>3, <3>1, <4>1 DEF SliceIs
      <4>3. slices'[n].offset + slices'[n].size <= image'.size
        BY <4>1 DEF Found, Fits
      <4>4. QED BY <4>2, <4>3
    <3>2. CASE n # want
      <4>1. n < want
        BY <1>1, <3>2, <2>5 DEF Found
      <4>2. SliceIs(n) /\ slices[n].offset + slices[n].size <= image.size
        BY <4>1 DEF IInv, SearchOK, Found, Looking
      <4>3. slices'[n] = slices[n]
        BY <2>4, <3>2, ThreeNames DEF IInv, TypeOK
      <4>4. QED BY <2>1, <2>2, <4>2, <4>3 DEF SliceIs, Found
    <3>3. QED BY <3>1, <3>2
  <2>6. SectionsNamed(Names[1])' # {}
    <3>1. CASE want = 1
      BY <1>1, <2>1, <3>1
    <3>2. CASE want > 1
      BY <2>1, <3>2 DEF IInv, SearchOK, Found, Looking
    <3>3. QED BY <1>1, <3>1, <3>2
  <2>7. at' = 0 /\ image' = image /\ phase' = "collect" /\ 0 <= Len(image.headers)
    BY <1>1 DEF Found, Looking, FileRecords
  <2>8. QED BY <2>5, <2>6, <2>7 DEF SearchOK, Loaded
<1>6. QED BY <1>3, <1>4, <1>5 DEF IInv

(* A name no section of the image has gets the empty slice.                *)
LEMMA NotFoundKeeps == IInv /\ NotFound => IInv'
<1> SUFFICES ASSUME IInv, NotFound PROVE IInv'
  OBVIOUS
<1>1. CASE want = 1
  BY <1>1, FailsKeeps DEF NotFound
<1>2. CASE want # 1
  <2>1. image \in FileRecords /\ want \in 2 .. 3
    BY <1>2, ThreeNames DEF IInv, TypeOK, OwnerOK, NotFound, Looking
  <2>2. /\ want' = want + 1 /\ at' = 0
        /\ slices' = [slices EXCEPT ![want] = Empty]
        /\ UNCHANGED <<file, phase, fd, stSize, image, status>>
        /\ phase = "collect" /\ at = Len(image.headers)
    BY <1>2 DEF NotFound, Looking
  <2>3. TypeOK'
    <3>1. Empty \in Slices
      BY DEF Empty, Slices
    <3>2. slices' \in [1 .. Len(Names) -> Slices]
      BY <2>2, <3>1 DEF IInv, TypeOK
    <3>3. want' \in 1 .. Len(Names) + 1 /\ at' \in Nat
      BY <2>1, <2>2, ThreeNames
    <3>4. QED BY <2>2, <3>2, <3>3 DEF IInv, TypeOK
  <2>4. OwnerOK'
    BY <2>2 DEF IInv, OwnerOK, NothingLeaks
  <2>5. \A nm : SectionsNamed(nm)' = SectionsNamed(nm)
    BY <2>2 DEF SectionsNamed, Header
  <2>6. \A i : Header(i)' = Header(i)
    BY <2>2 DEF Header
  <2>7. SectionsNamed(Names[want]) = {}
    <3>1. \A i \in 0 .. at - 1 : i \notin SectionsNamed(Names[want])
      BY <2>1, <2>2 DEF IInv, SearchOK
    <3>2. QED BY <2>2, <3>1 DEF SectionsNamed
  <2>8. ASSUME NEW n \in 1 .. 3, n < want'
        PROVE  SliceIs(n)' /\ slices'[n].offset + slices'[n].size <= image'.size
    <3>1. CASE n = want
      <4>1. slices'[n] = Empty
        BY <2>2, <3>1, ThreeNames DEF IInv, TypeOK
      <4>2. SliceIs(n)'
        BY <2>5, <2>7, <3>1, <4>1 DEF SliceIs
      <4>3. image.size >= 0
        BY <2>1 DEF FileRecords
      <4>4. QED BY <2>2, <4>1, <4>2, <4>3, <2>1 DEF Empty, FileRecords
    <3>2. CASE n # want
      <4>1. n < want
        BY <2>1, <2>2, <3>2, <2>8
      <4>2. SliceIs(n) /\ slices[n].offset + slices[n].size <= image.size
        BY <2>2, <4>1 DEF IInv, SearchOK
      <4>3. slices'[n] = slices[n]
        BY <2>2, <3>2, ThreeNames DEF IInv, TypeOK
      <4>4. QED BY <2>2, <2>5, <2>6, <4>2, <4>3 DEF SliceIs
    <3>3. QED BY <3>1, <3>2
  <2>9. SearchOK'
    <3>1. SectionsNamed(Names[1])' # {}
      BY <2>1, <2>2, <2>5 DEF IInv, SearchOK
    <3>2. 0 <= Len(image.headers)
      BY <2>1 DEF FileRecords
    <3>3. QED BY <2>2, <2>8, <3>1, <3>2 DEF SearchOK, Loaded
  <2>10. QED BY <2>3, <2>4, <2>9 DEF IInv
<1>3. QED BY <1>1, <1>2

-----------------------------------------------------------------------------
(* Every step keeps the invariant.                                         *)
THEOREM NextIInv == IInv /\ [Next]_vars => IInv'
<1> SUFFICES ASSUME IInv, [Next]_vars PROVE IInv'
  OBVIOUS
<1> USE DEF handleVars
<1>1. CASE Rewrite
  <2>1. TypeOK'
    BY <1>1 DEF IInv, TypeOK, Rewrite
  <2>2. OwnerOK' /\ SearchOK'
    BY <1>1 DEF IInv, OwnerOK, NothingLeaks, SearchOK, Loaded, Rewrite
  <2>3. QED BY <2>1, <2>2 DEF IInv
<1>2. CASE Open
  <2>1. TypeOK'
    BY <1>2 DEF IInv, TypeOK, Phases, Open
  <2>2. OwnerOK' /\ SearchOK'
    BY <1>2 DEF IInv, OwnerOK, NothingLeaks, SearchOK, Loaded, Open
  <2>3. QED BY <2>1, <2>2 DEF IInv
<1>3. CASE OpenFails
  BY <1>3, FailsKeeps DEF OpenFails
<1>4. CASE Stat
  <2>1. TypeOK'
    BY <1>4, FilesAssumption DEF IInv, TypeOK, Phases, FileRecords, Stat
  <2>2. OwnerOK' /\ SearchOK'
    BY <1>4 DEF IInv, OwnerOK, NothingLeaks, SearchOK, Loaded, Stat
  <2>3. QED BY <2>1, <2>2 DEF IInv
<1>5. CASE StatFails
  BY <1>5, FailsKeeps DEF StatFails
<1>6. CASE Load
  <2>1. image' \in FileRecords
    BY <1>6, FilesAssumption DEF IInv, TypeOK, FileRecords, Load
  <2>2. TypeOK'
    BY <1>6, <2>1 DEF IInv, TypeOK, Phases, Load
  <2>3. OwnerOK' /\ SearchOK'
    BY <1>6, <2>1, FilesAssumption DEF IInv, OwnerOK, NothingLeaks, SearchOK, Loaded, Load
  <2>4. QED BY <2>2, <2>3 DEF IInv
<1>7. CASE LoadFails
  BY <1>7, FailsKeeps DEF LoadFails
<1>8. CASE Parse
  <2>1. CASE WellFormed
    <3>1. TypeOK'
      BY <1>8, <2>1 DEF IInv, TypeOK, Phases, Parse
    <3>2. OwnerOK' /\ SearchOK'
      BY <1>8, <2>1 DEF IInv, OwnerOK, NothingLeaks, SearchOK, Loaded, Parse
    <3>3. QED BY <3>1, <3>2 DEF IInv
  <2>2. CASE ~WellFormed
    BY <1>8, <2>2, FailsKeeps DEF Parse
  <2>3. QED BY <2>1, <2>2
<1>9. CASE Locate
  <2>1. CASE fd' = FALSE /\ phase' = "collect" /\ UNCHANGED <<file, stSize, image, handleVars, status>>
    <3>1. phase = "locate"
      BY <1>9 DEF Locate
    <3>2. TypeOK'
      BY <2>1 DEF IInv, TypeOK, Phases
    <3>3. OwnerOK'
      BY <2>1, <3>1 DEF IInv, OwnerOK, NothingLeaks
    <3>4. image \in FileRecords /\ want = 1 /\ at = 0
      BY <3>1 DEF IInv, TypeOK, OwnerOK
    <3>5. SearchOK'
      BY <2>1, <3>4 DEF SearchOK, Loaded, FileRecords
    <3>6. QED BY <3>2, <3>3, <3>5 DEF IInv
  <2>2. CASE Fails("BAD_FORMAT")
    BY <2>2, FailsKeeps
  <2>3. QED BY <1>9, <2>1, <2>2 DEF Locate
<1>10. CASE Skip
  BY <1>10, SkipKeeps
<1>11. CASE Found
  BY <1>11, FoundKeeps
<1>12. CASE FoundOutside
  BY <1>12, FailsKeeps DEF FoundOutside
<1>13. CASE NotFound
  BY <1>13, NotFoundKeeps
<1>14. CASE Collected
  <2>1. want = 4
    BY <1>14, ThreeNames DEF IInv, TypeOK, Collected
  <2>2. TypeOK'
    BY <1>14 DEF IInv, TypeOK, Phases, Collected
  <2>3. OwnerOK'
    BY <1>14 DEF IInv, OwnerOK, NothingLeaks, Collected
  <2>4. \A n \in 1 .. 3 : SliceIs(n) <=> SliceIs(n)'
    BY <1>14, SlicesStay DEF Collected
  <2>5. \A nm : SectionsNamed(nm)' = SectionsNamed(nm)
    BY <1>14 DEF SectionsNamed, Header, Collected
  <2>6. SearchOK'
    BY <1>14, <2>1, <2>4, <2>5 DEF IInv, SearchOK, Loaded, Collected
  <2>7. QED BY <2>2, <2>3, <2>6 DEF IInv
<1>15. CASE UNCHANGED vars
  <2>1. TypeOK'
    BY <1>15 DEF IInv, TypeOK, vars
  <2>2. OwnerOK'
    BY <1>15 DEF IInv, OwnerOK, NothingLeaks, vars
  <2>3. \A n \in 1 .. 3 : SliceIs(n) <=> SliceIs(n)'
    BY <1>15, SlicesStay DEF vars
  <2>4. \A nm : SectionsNamed(nm)' = SectionsNamed(nm)
    BY <1>15 DEF SectionsNamed, Header, vars
  <2>5. SearchOK'
    BY <1>15, <2>3, <2>4 DEF IInv, SearchOK, Loaded, vars
  <2>6. QED BY <2>1, <2>2, <2>5 DEF IInv
<1>16. QED
  BY <1>1, <1>2, <1>3, <1>4, <1>5, <1>6, <1>7, <1>8, <1>9, <1>10, <1>11, <1>12, <1>13, <1>14, <1>15
  DEF Next, LoaderStep

(* When every name has been looked up, the slices are the sections.        *)
LEMMA Implies == IInv => SlicesAreSections /\ SlicesInsideImage /\ NothingLeaks
<1> SUFFICES ASSUME IInv PROVE SlicesAreSections /\ SlicesInsideImage /\ NothingLeaks
  OBVIOUS
<1>1. Loaded => \A n \in 1 .. 3 : SliceIs(n) /\ slices[n].offset + slices[n].size <= image.size
  BY DEF IInv, SearchOK
<1>2. Loaded => SectionsNamed(Names[1]) # {}
  BY DEF IInv, SearchOK
<1>3. SlicesAreSections
  BY <1>1, <1>2, ThreeNames DEF SlicesAreSections, SliceIs
<1>4. SlicesInsideImage
  BY <1>1, ThreeNames DEF SlicesInsideImage
<1>5. QED BY <1>3, <1>4 DEF IInv, OwnerOK

-----------------------------------------------------------------------------
(* The variables keep their types.                                         *)
THEOREM TypeCorrect == Spec => []TypeOK
<1>1. IInv => TypeOK
  BY DEF IInv
<1>2. QED BY <1>1, InitIInv, NextIInv, PTL DEF Spec

(* A module dwunw_elf_open and dwunw_elf_collect_dwarf load has            *)
(* .debug_info, and each slice is the first section of its name in the     *)
(* bytes that were read, whatever was written to the file meanwhile.       *)
THEOREM SlicesCorrect == Spec => []SlicesAreSections
BY InitIInv, NextIInv, Implies, PTL DEF Spec

(* Each slice lies inside the bytes that were read.                        *)
THEOREM InsideCorrect == Spec => []SlicesInsideImage
BY InitIInv, NextIInv, Implies, PTL DEF Spec

(* However loading ends, the file is closed, and the image is kept only by *)
(* a loaded module.                                                        *)
THEOREM LeaksNothing == Spec => []NothingLeaks
BY InitIInv, NextIInv, Implies, PTL DEF Spec

=============================================================================
