------------------------------ MODULE CfiTables ------------------------------
(***************************************************************************)
(* Building the call frame tables of one module: dwunw_cfi_build of        *)
(* src/dwarf/cfi.c walks .eh_frame and then .debug_frame, appends every    *)
(* CIE and FDE to a growing vector and links each FDE to its CIE, and      *)
(* dwunw_dwarf_index_init of src/dwarf/dwarf_index.c turns the outcome     *)
(* into what the module cache sees.  One entry of a section is one step.   *)
(*                                                                         *)
(* Entries are abstract: an FDE names the entry its producer meant as its  *)
(* CIE, and says whether the rest of it decodes.  What stays concrete is   *)
(* the arithmetic that finds the CIE, and the vectors' memory: an FDE      *)
(* stores the address of a CIE record inside the CIE vector.               *)
(***************************************************************************)
EXTENDS Integers, Sequences

CONSTANTS
  Files,            \* section contents to build from
  EntryBytes,       \* bytes one entry takes in its section, length included
  InitialCapacity,  \* first capacity of a vector (8 in the code)
  Blocks, NoBlock   \* heap blocks

ASSUME EntryBytesAssumption == EntryBytes \in Nat /\ EntryBytes > 8
ASSUME CapacityAssumption == InitialCapacity \in Nat \ {0}
ASSUME NoBlockAssumption == NoBlock \notin Blocks

VARIABLES
  contents,  \* the two sections of the file
  section,   \* which of them is being walked
  next,      \* the entry parse_section looks at
  cies,      \* the CIE vector
  fdes,      \* the FDE vector
  live,      \* heap blocks allocated by the build and not freed
  phase,     \* "parse", then "built", then "indexed"
  status     \* what dwunw_cfi_build, then dwunw_dwarf_index_init, returned

vars == <<contents, section, next, cies, fdes, live, phase, status>>

Sections == {"eh_frame", "debug_frame"}

Statuses == {"OK", "BAD_FORMAT", "NOT_IMPLEMENTED", "NO_DEBUG_DATA", "IO"}

(* An entry as its bytes lie in the file, with what decoding it comes to.  *)
EntryRecords ==
  [kind    : {"cie", "fde", "end", "overrun"},
   parent  : Nat,
   decodes : {"OK", "BAD_FORMAT", "NOT_IMPLEMENTED"}]

ASSUME FilesAssumption == Files \subseteq [Sections -> Seq(EntryRecords)]

EmptyVector == [mem |-> NoBlock, cap |-> 0, items |-> <<>>]

Entries == contents[section]

Entry == Entries[next]

TypeOK ==
  /\ contents \in Files
  /\ section \in Sections
  /\ next \in Nat \ {0}
  /\ \A v \in {cies, fdes} :
       v.mem \in Blocks \cup {NoBlock} /\ v.cap \in Nat /\ Len(v.items) <= v.cap
  /\ live \subseteq Blocks
  /\ phase \in {"parse", "built", "indexed"}
  /\ status \in Statuses

Init ==
  /\ contents \in Files
  /\ section = "eh_frame" /\ next = 1
  /\ cies = EmptyVector /\ fdes = EmptyVector
  /\ live = {}
  /\ phase = "parse"
  /\ status = "OK"

-----------------------------------------------------------------------------
(* Offsets: where an entry starts, and which CIE an FDE points to *)

Offset(k) == (k - 1) * EntryBytes

(* The CIE pointer as the producer wrote it: in .eh_frame the distance     *)
(* back from the pointer's own field, which follows the 4-byte length, in  *)
(* .debug_frame the offset in the section.                                 *)
CiePointer ==
  IF section = "eh_frame"
  THEN Offset(next) + 4 - Offset(Entry.parent)
  ELSE Offset(Entry.parent)

(* The offset parse_fde looks for: it measures from the payload, which     *)
(* starts after the pointer's field.                                       *)
LinkOffset ==
  IF section = "eh_frame" THEN Offset(next) + 8 - CiePointer ELSE CiePointer

LinksToLast(i) == i = Len(cies.items)

(* find_cie: the first CIE of either section at that offset.               *)
LinksTo(i) ==
  /\ cies.items[i].offset = LinkOffset
  /\ \A j \in 1 .. i - 1 : cies.items[j].offset # LinkOffset

Linked == \E i \in 1 .. Len(cies.items) : LinksTo(i)

-----------------------------------------------------------------------------
(* Vectors *)

(* What appending x to v can come to: the vector and the live blocks.      *)
(* realloc may move the vector, or grow it in place.                       *)
AppendedInPlace(v, x) ==
  { [vec |-> [v EXCEPT !.items = Append(@, x)], live |-> live] }

AppendedMoved(v, x) ==
  { [vec  |-> [mem   |-> b,
               cap   |-> IF v.cap = 0 THEN InitialCapacity ELSE v.cap * 2,
               items |-> Append(v.items, x)],
     live |-> (live \ {v.mem}) \cup {b}] :
    b \in (Blocks \ live) \cup ({v.mem} \ {NoBlock}) }

Appended(v, x) ==
  IF Len(v.items) < v.cap THEN AppendedInPlace(v, x) ELSE AppendedMoved(v, x)

-----------------------------------------------------------------------------
(* parse_section *)

(* A zero length ends a section before its last byte.                      *)
MoreEntries == next <= Len(Entries) /\ Entry.kind # "end"

AtEntry == phase = "parse" /\ MoreEntries

(* parse_cie appends the record.                                           *)
ReadCie ==
  /\ AtEntry /\ Entry.kind = "cie" /\ Entry.decodes = "OK"
  /\ \E r \in Appended(cies, [offset |-> Offset(next),
                              origin |-> <<section, next>>]) :
       cies' = r.vec /\ live' = r.live
  /\ next' = next + 1
  /\ UNCHANGED <<contents, section, fdes, phase, status>>

(* parse_fde keeps the address of the CIE it found.                        *)
ReadFde ==
  /\ AtEntry /\ Entry.kind = "fde" /\ Entry.decodes = "OK"
  /\ \E i \in 1 .. Len(cies.items) :
       /\ LinksTo(i)
       /\ \E r \in Appended(fdes, [cie    |-> <<cies.mem, i>>,
                                   origin |-> <<section, next>>]) :
            fdes' = r.vec /\ live' = r.live
  /\ next' = next + 1
  /\ UNCHANGED <<contents, section, cies, phase, status>>

FreesFdesOnly(st) ==
  /\ cies' = EmptyVector /\ fdes' = EmptyVector
  /\ live' = live \ {fdes.mem}
  /\ phase' = "built" /\ status' = st
  /\ UNCHANGED <<contents, section, next>>

(* The build gives up: both vectors are freed and nothing is published.    *)
GivesUp(st) ==
  /\ cies' = EmptyVector /\ fdes' = EmptyVector
  /\ live' = live \ {cies.mem, fdes.mem}
  /\ phase' = "built" /\ status' = st
  /\ UNCHANGED <<contents, section, next>>

RejectSkips ==
  /\ AtEntry
  /\ \/ Entry.kind = "fde" /\ ~Linked
     \/ Entry.kind # "overrun" /\ Entry.decodes # "OK"
  /\ next' = next + 1
  /\ UNCHANGED <<contents, section, cies, fdes, live, phase, status>>

(* A length past the section's end, a FDE without its CIE, or a field that *)
(* does not decode.                                                        *)
Reject ==
  /\ AtEntry
  /\ \/ Entry.kind = "overrun" /\ GivesUp("BAD_FORMAT")
     \/ Entry.kind = "fde" /\ ~Linked /\ GivesUp("BAD_FORMAT")
     \/ /\ Entry.kind = "cie" \/ (Entry.kind = "fde" /\ Linked)
        /\ Entry.decodes # "OK"
        /\ GivesUp(Entry.decodes)

(* realloc fails while the record is being appended.                       *)
OutOfMemory ==
  /\ AtEntry /\ Entry.decodes = "OK"
  /\ \/ Entry.kind = "cie" /\ Len(cies.items) = cies.cap
     \/ Entry.kind = "fde" /\ Linked /\ Len(fdes.items) = fdes.cap
  /\ GivesUp("IO")

SectionDoneAtItsEnd == phase = "parse" /\ next > Len(Entries)

SectionDone == phase = "parse" /\ ~MoreEntries

NextSection ==
  /\ SectionDone /\ section = "eh_frame"
  /\ section' = "debug_frame" /\ next' = 1
  /\ UNCHANGED <<contents, cies, fdes, live, phase, status>>

(* Both sections walked: the vectors become the module's tables, unless    *)
(* there is no FDE.                                                        *)
Publish ==
  /\ SectionDone /\ section = "debug_frame"
  /\ IF fdes.items = <<>>
     THEN GivesUp("NO_DEBUG_DATA")
     ELSE /\ phase' = "built"
          /\ UNCHANGED <<contents, section, next, cies, fdes, live, status>>

(* dwunw_dwarf_index_init: a module without usable tables is still usable. *)
Index ==
  /\ phase = "built" /\ phase' = "indexed"
  /\ status' = IF status \in {"NO_DEBUG_DATA", "NOT_IMPLEMENTED", "BAD_FORMAT"}
               THEN "OK" ELSE status
  /\ UNCHANGED <<contents, section, next, cies, fdes, live>>

Next ==
  \/ ReadCie \/ ReadFde \/ Reject \/ OutOfMemory
  \/ NextSection \/ Publish \/ Index

(* The build is a loop in one call: it does not stop between two entries.  *)
Spec == Init /\ [][Next]_vars /\ WF_vars(Next)

-----------------------------------------------------------------------------
(* Properties *)

WellFormed(entries) ==
  \A k \in 1 .. Len(entries) :
    /\ entries[k].decodes = "OK" /\ entries[k].kind # "overrun"
    /\ entries[k].kind = "fde" =>
         entries[k].parent \in 1 .. k - 1 /\ entries[entries[k].parent].kind = "cie"

BothWellFormed == \A s \in Sections : WellFormed(contents[s])

OriginsOf(v) == {v.items[i].origin : i \in 1 .. Len(v.items)}

(* The record an FDE's pointer leads to is the CIE the producer meant.     *)
LinkIsRight(f) ==
  /\ f.cie[1] = cies.mem
  /\ cies.items[f.cie[2]].origin =
       <<f.origin[1], contents[f.origin[1]][f.origin[2]].parent>>

AllLinksRight ==
  \A i \in 1 .. Len(fdes.items) : LinkIsRight(fdes.items[i])

DistinctCieOffsets ==
  \A i, j \in 1 .. Len(cies.items) :
    cies.items[i].offset = cies.items[j].offset => i = j

(* Every FDE of an indexed module leads to its own CIE, as long as the CIE *)
(* vector never grew and no two CIEs start at the same offset of their     *)
(* sections (cfi.c:436-442 against the moves of :96).                      *)
LinksRightWithoutGrowth ==
  phase = "indexed" /\ BothWellFormed /\ cies.cap <= InitialCapacity
    /\ DistinctCieOffsets => AllLinksRight

(* The live blocks are the two vectors, which never share one; a build     *)
(* that does not publish tables has freed everything, whichever entry it   *)
(* stopped at (:567-581).                                                  *)
BuildOwnsItsBlocks ==
  /\ live = {cies.mem, fdes.mem} \ {NoBlock}
  /\ cies.mem = fdes.mem => live = {}
  /\ phase # "parse" /\ fdes.items = <<>> => live = {}

(* An indexed module has all the entries of its sections or none: an FDE   *)
(* that cannot be linked or decoded never leaves a table with holes, where *)
(* a lookup would answer "no FDE" for code that has one (:567-576).        *)
TablesAreWhole ==
  phase = "indexed" /\ fdes.items # <<>> =>
    \A s \in Sections : \A k \in 1 .. Len(contents[s]) :
      (\A j \in 1 .. k : contents[s][j].kind # "end") =>
        <<s, k>> \in OriginsOf(cies) \cup OriginsOf(fdes)

(* The build ends for every file (:499-541).                               *)
Terminates == <>(phase = "indexed")

(* "link it back to its parent CIE" (cfi.c:410), said of every module.     *)
LinksRightAfterGrowth ==
  phase = "indexed" /\ BothWellFormed /\ DistinctCieOffsets => AllLinksRight

(* A well-formed .eh_frame with an FDE gives the module a table.           *)
EhFrameIsIndexed ==
  phase = "indexed" /\ status = "OK" /\ WellFormed(contents["eh_frame"])
    /\ (\E k \in 1 .. Len(contents["eh_frame"]) :
          /\ contents["eh_frame"][k].kind = "fde"
          /\ \A j \in 1 .. k : contents["eh_frame"][j].kind # "end")
    /\ contents["debug_frame"] = <<>>
    => fdes.items # <<>>

=============================================================================
