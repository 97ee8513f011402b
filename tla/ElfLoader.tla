------------------------------ MODULE ElfLoader ------------------------------
(***************************************************************************)
(* src/dwarf/elf_loader.c: dwunw_elf_open reads a file whole and finds its *)
(* section table; dwunw_elf_collect_dwarf looks three sections up by name. *)
(* The open file may be rewritten in place between any two system calls.   *)
(*                                                                         *)
(* A file is its size, its header and its section headers; names are read  *)
(* through the string table.  No sum of a header's fields exceeds size_t.  *)
(***************************************************************************)
EXTENDS Integers, Sequences, FiniteSetsExt

CONSTANTS
  Files,      \* what may be found under the path
  EntrySize,  \* sizeof of a section header
  None        \* no image

Names == <<".debug_info", ".debug_frame", ".eh_frame">>

Headers == [name : STRING, offset : Nat, size : Nat]

(* readable: the magic, the class and the byte order are known ones.       *)
FileRecords ==
  [size : Nat, readable : BOOLEAN, shoff : Nat, shstrndx : Nat,
   headers : Seq(Headers)]

ASSUME FilesAssumption == Files \subseteq FileRecords /\ None \notin FileRecords
ASSUME SizesAssumption == EntrySize \in Nat \ {0}

VARIABLES
  file,     \* what the file holds
  phase,    \* what the loader does next
  fd,       \* the descriptor is open
  stSize,   \* st.st_size
  image,    \* the bytes read, with handle->size their size, or None
  want, at, \* the name looked up and the section it is compared with
  slices,   \* what was found for the names so far
  status

vars == <<file, phase, fd, stSize, image, want, at, slices, status>>
handleVars == <<want, at, slices>>

Phases == {"open", "stat", "load", "parse", "locate", "collect", "done"}

Empty == [offset |-> 0, size |-> 0]

Slices == [offset : Nat, size : Nat]

TypeOK ==
  /\ file \in Files
  /\ phase \in Phases /\ fd \in BOOLEAN /\ stSize \in Nat
  /\ image \in FileRecords \cup {None}
  /\ want \in 1 .. Len(Names) + 1 /\ at \in Nat
  /\ slices \in [1 .. Len(Names) -> Slices]
  /\ status \in {"OK", "IO", "BAD_FORMAT", "NO_DEBUG_DATA"}

Init ==
  /\ file \in Files
  /\ phase = "open" /\ fd = FALSE /\ stSize = 0 /\ image = None
  /\ want = 1 /\ at = 0 /\ slices = [n \in 1 .. Len(Names) |-> Empty]
  /\ status = "OK"

(* Anybody may rewrite the file; the loader sees the new bytes, until it   *)
(* has read them all.                                                      *)
Rewrite ==
  /\ phase \in {"open", "stat", "load"}
  /\ file' \in Files
  /\ UNCHANGED <<phase, fd, stSize, image, handleVars, status>>

-----------------------------------------------------------------------------
(* dwunw_elf_open *)

FailsOpen(why) ==
  /\ status' = why /\ phase' = "done"
  /\ image' = None
  /\ UNCHANGED <<file, fd, stSize, handleVars>>

(* Every failure closes the file and frees the image.                      *)
Fails(why) ==
  /\ status' = why /\ phase' = "done"
  /\ fd' = FALSE /\ image' = None
  /\ UNCHANGED <<file, stSize, handleVars>>

Open ==
  /\ phase = "open"
  /\ fd' = TRUE /\ phase' = "stat"
  /\ UNCHANGED <<file, stSize, image, handleVars, status>>

OpenFails == phase = "open" /\ Fails("IO")

Stat ==
  /\ phase = "stat" /\ file.size # 0
  /\ stSize' = file.size /\ phase' = "load"
  /\ UNCHANGED <<file, fd, image, handleVars, status>>

StatFails ==
  /\ phase = "stat"
  /\ \/ Fails("IO")
     \/ file.size = 0 /\ Fails("BAD_FORMAT")

(* One pread of as many bytes as fstat told.                               *)
Load ==
  /\ phase = "load" /\ file.size >= stSize
  /\ image' = [file EXCEPT !.size = stSize]
  /\ phase' = "parse"
  /\ UNCHANGED <<file, fd, stSize, handleVars, status>>

(* No memory, a failed read, or a short one.                               *)
LoadFails == phase = "load" /\ Fails("IO")

WellFormed == image.readable /\ image.shoff # 0 /\ image.headers # <<>>

Parse ==
  /\ phase = "parse"
  /\ IF WellFormed
     THEN phase' = "locate" /\ UNCHANGED <<file, fd, stSize, image, handleVars, status>>
     ELSE Fails("BAD_FORMAT")

(* dwunw_elf_section_header: is header i inside the image?                 *)
Inside(i) == image.shoff + i * EntrySize + EntrySize <= image.size

Header(i) == image.headers[i + 1]

StartsInside(h) == h.offset <= image.size

Fits(h) == h.offset + h.size <= image.size

Locate ==
  /\ phase = "locate"
  /\ IF /\ image.shstrndx < Len(image.headers)
        /\ Inside(image.shstrndx) /\ Fits(Header(image.shstrndx))
     THEN /\ fd' = FALSE /\ phase' = "collect"
          /\ UNCHANGED <<file, stSize, image, handleVars, status>>
     ELSE Fails("BAD_FORMAT")

-----------------------------------------------------------------------------
(* dwunw_elf_collect_dwarf, and dwunw_elf_get_section for each name *)

Looking == phase = "collect" /\ want <= Len(Names)

MatchesUnchecked == Header(at).name = Names[want]

Matches == Inside(at) /\ Header(at).name = Names[want]

(* A header outside the image is skipped like one of another name.         *)
Skip ==
  /\ Looking /\ at < Len(image.headers) /\ ~Matches
  /\ at' = at + 1
  /\ UNCHANGED <<file, phase, fd, stSize, image, want, slices, status>>

Found ==
  /\ Looking /\ at < Len(image.headers) /\ Matches /\ Fits(Header(at))
  /\ slices' = [slices EXCEPT ![want] = [offset |-> Header(at).offset, size |-> Header(at).size]]
  /\ want' = want + 1 /\ at' = 0
  /\ UNCHANGED <<file, phase, fd, stSize, image, status>>

(* The caller closes the handle when collecting fails.                     *)
FoundOutside ==
  /\ Looking /\ at < Len(image.headers) /\ Matches /\ ~Fits(Header(at))
  /\ Fails("BAD_FORMAT")

NotFoundAgain ==
  /\ Looking /\ at = Len(image.headers)
  /\ at' = 0
  /\ UNCHANGED <<file, phase, fd, stSize, image, want, slices, status>>

(* .debug_info has to be there, the frame sections may be missing.         *)
NotFound ==
  /\ Looking /\ at = Len(image.headers)
  /\ IF want = 1 THEN Fails("NO_DEBUG_DATA")
     ELSE /\ want' = want + 1 /\ at' = 0
          /\ slices' = [slices EXCEPT ![want] = Empty]
          /\ UNCHANGED <<file, phase, fd, stSize, image, status>>

Collected ==
  /\ phase = "collect" /\ want > Len(Names)
  /\ phase' = "done"
  /\ UNCHANGED <<file, fd, stSize, image, handleVars, status>>

-----------------------------------------------------------------------------
LoaderStep ==
  \/ Open \/ OpenFails \/ Stat \/ StatFails \/ Load \/ LoadFails
  \/ Parse \/ Locate
  \/ Skip \/ Found \/ FoundOutside \/ NotFound \/ Collected

Next ==
  \/ LoaderStep
  \/ Rewrite

Spec == Init /\ [][Next]_vars /\ WF_vars(LoaderStep)

-----------------------------------------------------------------------------
(* Properties *)

Loaded == phase = "done" /\ status = "OK"

(* The first section of a name whose header lies in the image.             *)
SectionsNamed(name) ==
  {i \in 0 .. Len(image.headers) - 1 :
     image.shoff + (i + 1) * EntrySize <= image.size /\ Header(i).name = name}

(* A module that loads has .debug_info, and for each name the slice of the *)
(* first section of that name, or none, whatever happened to the file.     *)
SlicesAreSections ==
  Loaded =>
    /\ SectionsNamed(Names[1]) # {}
    /\ \A n \in 1 .. Len(Names) :
         LET S == SectionsNamed(Names[n])
             h == Header(Min(S))
         IN  slices[n] = IF S = {} THEN Empty ELSE [offset |-> h.offset, size |-> h.size]

(* Every slice lies inside the image, though the file told its size before *)
(* it was read.                                                            *)
SlicesInsideImage ==
  Loaded => \A n \in 1 .. Len(Names) : slices[n].offset + slices[n].size <= image.size

(* No path leaves the file open, and only a loaded module keeps an image.  *)
NothingLeaks ==
  /\ phase = "done" => ~fd /\ (image = None <=> status # "OK")
  /\ phase = "collect" => ~fd

(* Loading ends, however the file is rewritten meanwhile.                  *)
Terminates == <>(phase = "done")

=============================================================================
