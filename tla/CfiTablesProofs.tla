---------------------------- MODULE CfiTablesProofs ----------------------------
(***************************************************************************)
(* Proofs about CfiTables, for every pair of sections, size of an entry,   *)
(* first capacity and heap.                                                *)
(***************************************************************************)
EXTENDS CfiTables, TLAPS

Addresses == Blocks \cup {NoBlock}

Origins == Sections \X (Nat \ {0})

CieRecords == [offset : Int, origin : Origins]

FdeRecords == [cie : Addresses \X (Nat \ {0}), origin : Origins]

(* A vector of T owns a block as soon as it has a capacity.                *)
Vector(v, T) ==
  /\ v \in [mem : Addresses, cap : Nat, items : Seq(T)]
  /\ Len(v.items) <= v.cap
  /\ v.mem = NoBlock <=> v.cap = 0
  /\ v.cap = 0 \/ v.cap >= InitialCapacity

Shape ==
  /\ contents \in [Sections -> Seq(EntryRecords)]
  /\ section \in Sections /\ next \in Nat \ {0}
  /\ Vector(cies, CieRecords) /\ Vector(fdes, FdeRecords)
  /\ phase \in {"parse", "built", "indexed"} /\ status \in Statuses

(* The two vectors own the live blocks, each its own.                      *)
Owned ==
  /\ live \subseteq Blocks
  /\ live = {cies.mem, fdes.mem} \ {NoBlock}
  /\ cies.mem = fdes.mem => cies.mem = NoBlock
  /\ phase # "parse" /\ fdes.items = <<>> => live = {}

EntryAt(o) == contents[o[1]][o[2]]

Entered(o) == o[2] \in 1 .. Len(contents[o[1]])

(* A record of the CIE vector is a CIE of its section.                     *)
CieIsRead(c) ==
  /\ Entered(c.origin)
  /\ EntryAt(c.origin).kind = "cie"
  /\ c.offset = Offset(c.origin[2])

Known == OriginsOf(cies) \cup OriginsOf(fdes)

(* The offset parse_fde looks for, of the FDE of origin o.                 *)
LinkOf(o) ==
  IF o[1] = "eh_frame"
  THEN Offset(o[2]) + 8 - (Offset(o[2]) + 4 - Offset(EntryAt(o).parent))
  ELSE Offset(EntryAt(o).parent)

(* A record of the FDE vector is an FDE that was read after the entries    *)
(* before it and was linked to a CIE of the offset it looked for.          *)
FdeIsRead(f) ==
  /\ Entered(f.origin)
  /\ EntryAt(f.origin).kind = "fde"
  /\ f.cie[2] \in 1 .. Len(cies.items)
  /\ cies.items[f.cie[2]].offset = LinkOf(f.origin)
  /\ cies.cap <= InitialCapacity => f.cie[1] = cies.mem
  /\ \A j \in 1 .. f.origin[2] - 1 : <<f.origin[1], j>> \in Known

RecordsAreRead ==
  /\ \A i \in 1 .. Len(cies.items) : CieIsRead(cies.items[i])
  /\ \A i \in 1 .. Len(fdes.items) : FdeIsRead(fdes.items[i])

(* All of a section up to a terminator is known.                           *)
WholeSection(s) ==
  \A k \in 1 .. Len(contents[s]) :
    (\A j \in 1 .. k : contents[s][j].kind # "end") => <<s, k>> \in Known

Progress ==
  /\ phase = "parse" =>
       /\ next <= Len(Entries) + 1
       /\ \A k \in 1 .. next - 1 : <<section, k>> \in Known
       /\ section = "debug_frame" => WholeSection("eh_frame")
  /\ phase # "parse" /\ fdes.items # <<>> =>
       \A s \in Sections : WholeSection(s)

IInv == TypeOK /\ Shape /\ Owned /\ RecordsAreRead /\ Progress

-----------------------------------------------------------------------------
(* Offsets and vectors *)

LEMMA OffsetInt == \A k \in Int : Offset(k) \in Int
BY EntryBytesAssumption DEF Offset

(* Entries are further apart than the four bytes of an address' field, so  *)
(* that no entry starts four bytes behind another.                         *)
LEMMA OffsetsApart ==
  ASSUME NEW a \in Int, NEW b \in Int
  PROVE  Offset(a) # Offset(b) + 4
<1>. DEFINE d == a - b
<1>1. d \in Int /\ Offset(a) - Offset(b) = d * EntryBytes
  BY EntryBytesAssumption DEF Offset
<1>2. CASE d <= 0
  <2>1. d * EntryBytes <= 0
    BY <1>1, <1>2, EntryBytesAssumption
  <2>. QED
    BY <1>1, <2>1, OffsetInt
<1>3. CASE d >= 1
  <2>1. d * EntryBytes >= EntryBytes
    BY <1>1, <1>3, EntryBytesAssumption
  <2>. QED
    BY <1>1, <2>1, OffsetInt, EntryBytesAssumption
<1>. QED
  BY <1>1, <1>2, <1>3

(* Appending moves a vector only when it is full, into a block that is not *)
(* live or its own, and doubles its capacity.                              *)
LEMMA AppendedVector ==
  ASSUME NEW T, NEW v, Vector(v, T), NEW x \in T, NEW r \in Appended(v, x)
  PROVE  /\ Vector(r.vec, T)
         /\ r.vec.items = Append(v.items, x)
         /\ \/ r.vec.mem = v.mem /\ r.vec.cap = v.cap /\ r.live = live /\ v.cap > 0
            \/ /\ r.vec.mem \in (Blocks \ live) \cup ({v.mem} \ {NoBlock})
               /\ r.live = (live \ {v.mem}) \cup {r.vec.mem}
               /\ v.cap = Len(v.items)
               /\ v.cap > 0 => r.vec.cap > InitialCapacity
<1>. USE CapacityAssumption, NoBlockAssumption
<1>1. CASE Len(v.items) < v.cap
  <2>1. r = [vec |-> [v EXCEPT !.items = Append(@, x)], live |-> live]
    BY <1>1 DEF Appended, AppendedInPlace
  <2>a. Append(v.items, x) \in Seq(T) /\ v \in [mem : Addresses, cap : Nat, items : Seq(T)]
    BY DEF Vector
  <2>b. r.vec = [v EXCEPT !.items = Append(v.items, x)] /\ r.live = live
    BY <2>1
  <2>2. /\ r.vec \in [mem : Addresses, cap : Nat, items : Seq(T)]
        /\ r.vec.items = Append(v.items, x)
        /\ r.vec.mem = v.mem /\ r.vec.cap = v.cap /\ r.live = live
    BY <2>a, <2>b
  <2>3. Len(r.vec.items) = Len(v.items) + 1
    BY <2>2 DEF Vector
  <2>. QED
    BY <1>1, <2>2, <2>3 DEF Vector
<1>2. CASE ~(Len(v.items) < v.cap)
  <2>1. v.cap = Len(v.items) /\ v.cap \in Nat
    BY <1>2 DEF Vector
  <2>2. PICK b \in (Blocks \ live) \cup ({v.mem} \ {NoBlock}) :
          r = [vec  |-> [mem   |-> b,
                         cap   |-> IF v.cap = 0 THEN InitialCapacity ELSE v.cap * 2,
                         items |-> Append(v.items, x)],
               live |-> (live \ {v.mem}) \cup {b}]
    BY <1>2 DEF Appended, AppendedMoved
  <2>3. b \in Blocks /\ b # NoBlock
    BY <2>2 DEF Vector, Addresses
  <2>4. Append(v.items, x) \in Seq(T) /\ Len(Append(v.items, x)) = v.cap + 1
    BY <2>1 DEF Vector
  <2>5. Vector(r.vec, T)
    BY <2>1, <2>2, <2>3, <2>4 DEF Vector, Addresses
  <2>. QED
    BY <2>1, <2>2, <2>5 DEF Vector
<1>. QED
  BY <1>1, <1>2

-----------------------------------------------------------------------------
(* The invariant is inductive *)

LEMMA InitIInv == Init => IInv
<1>. SUFFICES ASSUME Init PROVE IInv
  OBVIOUS
<1>1. contents \in [Sections -> Seq(EntryRecords)]
  BY FilesAssumption DEF Init
<1>2. Vector(EmptyVector, CieRecords) /\ Vector(EmptyVector, FdeRecords)
  BY DEF Vector, EmptyVector, Addresses
<1>3. TypeOK /\ Shape
  BY <1>1, <1>2 DEF Init, TypeOK, Shape, Vector, Addresses, Statuses, Sections
<1>4. Owned
  BY DEF Init, Owned, EmptyVector
<1>5. RecordsAreRead
  BY DEF Init, RecordsAreRead, EmptyVector
<1>6. Progress
  <2>1. Len(Entries) \in Nat
    BY <1>1, <1>3 DEF Shape, Entries
  <2>. QED
    BY <2>1 DEF Init, Progress
<1>. QED
  BY <1>3, <1>4, <1>5, <1>6 DEF IInv

(* The shape gives the types.                                              *)
LEMMA ShapeIsTyped ==
  ASSUME Shape, live \subseteq Blocks, contents \in Files
  PROVE  TypeOK
BY DEF Shape, TypeOK, Vector, Addresses

(* An entry that is looked at is one of its section.                       *)
LEMMA AtEntryOfSection ==
  ASSUME IInv, AtEntry
  PROVE  /\ next \in 1 .. Len(contents[section])
         /\ contents[section] \in Seq(EntryRecords)
         /\ Entry = EntryAt(<<section, next>>)
         /\ Entered(<<section, next>>)
         /\ <<section, next>> \in Origins
<1>1. contents[section] \in Seq(EntryRecords) /\ next \in Nat \ {0}
  BY DEF IInv, Shape
<1>. QED
  BY <1>1 DEF IInv, Shape, AtEntry, MoreEntries, Entries, Entry, EntryAt, Entered, Origins

(* A vector that grows by x keeps its records and their origins.           *)
LEMMA AppendKeeps ==
  ASSUME NEW T, NEW s \in Seq(T), NEW x \in T, NEW t, t = Append(s, x)
  PROVE  /\ Len(t) = Len(s) + 1
         /\ t[Len(s) + 1] = x
         /\ \A i \in 1 .. Len(s) : t[i] = s[i]
OBVIOUS

LEMMA AppendOrigins ==
  \A T : \A x \in T : \A v, w :
    v.items \in Seq(T) /\ w.items = Append(v.items, x)
      => OriginsOf(w) = OriginsOf(v) \cup {x.origin}
<1>. SUFFICES ASSUME NEW T, NEW x \in T, NEW v, NEW w, v.items \in Seq(T),
                     w.items = Append(v.items, x)
              PROVE  OriginsOf(w) = OriginsOf(v) \cup {x.origin}
  OBVIOUS
<1>. DEFINE n == Len(v.items)
<1>1. n \in Nat /\ Len(w.items) = n + 1 /\ w.items[n + 1] = x
  OBVIOUS
<1>2. \A i \in 1 .. n : w.items[i] = v.items[i]
  OBVIOUS
<1>3. ASSUME NEW i \in 1 .. n + 1 PROVE w.items[i].origin \in OriginsOf(v) \cup {x.origin}
  BY <1>1, <1>2 DEF OriginsOf
<1>4. ASSUME NEW i \in 1 .. n PROVE v.items[i].origin \in OriginsOf(w)
  BY <1>1, <1>2 DEF OriginsOf
<1>5. x.origin \in OriginsOf(w)
  BY <1>1 DEF OriginsOf
<1>6. OriginsOf(w) \subseteq OriginsOf(v) \cup {x.origin}
  BY <1>1, <1>3 DEF OriginsOf
<1>7. OriginsOf(v) \subseteq OriginsOf(w)
  BY <1>4 DEF OriginsOf
<1>. QED
  BY <1>5, <1>6, <1>7

LEMMA ReadCieIInv == IInv /\ ReadCie => IInv'
<1>. SUFFICES ASSUME IInv, ReadCie PROVE IInv'
  OBVIOUS
<1>. DEFINE x == [offset |-> Offset(next), origin |-> <<section, next>>]
            o == <<section, next>>
<1>1. /\ next \in 1 .. Len(contents[section])
      /\ contents[section] \in Seq(EntryRecords)
      /\ EntryAt(o).kind = "cie" /\ Entered(o) /\ o \in Origins
  BY AtEntryOfSection DEF ReadCie
<1>2. x \in CieRecords
  BY <1>1, OffsetInt DEF CieRecords
<1>3. PICK r \in Appended(cies, x) : cies' = r.vec /\ live' = r.live
  BY DEF ReadCie
<1>4. /\ Vector(cies', CieRecords)
      /\ cies'.items = Append(cies.items, x)
      /\ \/ cies'.mem = cies.mem /\ cies'.cap = cies.cap /\ live' = live /\ cies.cap > 0
         \/ /\ cies'.mem \in (Blocks \ live) \cup ({cies.mem} \ {NoBlock})
            /\ live' = (live \ {cies.mem}) \cup {cies'.mem}
            /\ cies.cap = Len(cies.items)
            /\ cies.cap > 0 => cies'.cap > InitialCapacity
  <2>1. Vector(cies, CieRecords)
    BY DEF IInv, Shape
  <2>. QED
    BY <1>2, <1>3, <2>1, AppendedVector
<1>5. /\ UNCHANGED <<contents, section, fdes, phase, status>>
      /\ next' = next + 1 /\ phase = "parse"
  BY DEF ReadCie, AtEntry
<1>6. Shape'
  BY <1>1, <1>4, <1>5 DEF IInv, Shape
<1>7. Owned'
  BY <1>4, <1>5, NoBlockAssumption DEF IInv, Owned
<1>8. /\ cies.items \in Seq(CieRecords) /\ fdes.items \in Seq(FdeRecords)
      /\ cies.cap \in Nat /\ Len(cies.items) <= cies.cap
  BY DEF IInv, Shape, Vector
<1>9. /\ Len(cies'.items) = Len(cies.items) + 1
      /\ cies'.items[Len(cies.items) + 1] = x
      /\ \A i \in 1 .. Len(cies.items) : cies'.items[i] = cies.items[i]
  BY <1>2, <1>4, <1>8, AppendKeeps
<1>10. Known' = Known \cup {o}
  <2>1. OriginsOf(cies') = OriginsOf(cies) \cup {x.origin}
    <3>. HIDE DEF x
    <3>. QED
      BY <1>2, <1>4, <1>8, AppendOrigins
  <2>. QED
    BY <1>5, <2>1 DEF Known
<1>11. RecordsAreRead'
  <2>1. ASSUME NEW i \in 1 .. Len(cies'.items) PROVE CieIsRead(cies.items[i])'
    <3>1. CASE i \in 1 .. Len(cies.items)
      <4>1. CieIsRead(cies.items[i]) /\ cies'.items[i] = cies.items[i]
        BY <1>9, <3>1 DEF IInv, RecordsAreRead
      <4>. QED
        BY <1>5, <4>1 DEF CieIsRead, Entered, EntryAt, Offset
    <3>2. CASE i = Len(cies.items) + 1
      <4>1. cies'.items[i] = x
        BY <1>9, <3>2
      <4>. QED
        BY <1>1, <1>5, <4>1 DEF CieIsRead, Entered, EntryAt, Offset
    <3>. QED
      BY <1>8, <1>9, <3>1, <3>2
  <2>2. ASSUME NEW i \in 1 .. Len(fdes.items) PROVE FdeIsRead(fdes.items[i])'
    <3>. DEFINE f == fdes.items[i]
    <3>1. FdeIsRead(f) /\ f \in FdeRecords
      BY <1>8, <2>2 DEF IInv, RecordsAreRead
    <3>2. f.cie[2] \in 1 .. Len(cies'.items) /\ cies'.items[f.cie[2]] = cies.items[f.cie[2]]
      BY <1>8, <1>9, <3>1 DEF FdeIsRead
    <3>3. cies'.cap <= InitialCapacity => f.cie[1] = cies'.mem
      <4>1. cies.cap > 0
        BY <1>8, <3>1 DEF FdeIsRead
      <4>. QED
        BY <1>4, <1>8, <3>1, <4>1, CapacityAssumption DEF FdeIsRead, Vector
    <3>. QED
      BY <1>5, <1>10, <3>1, <3>2, <3>3 DEF FdeIsRead, Entered, EntryAt, LinkOf, Offset
  <2>. QED
    BY <1>5, <2>1, <2>2 DEF RecordsAreRead
<1>12. Progress'
  <2>1. next' <= Len(Entries') + 1
    BY <1>1, <1>5 DEF Entries
  <2>2. \A k \in 1 .. next' - 1 : <<section', k>> \in Known'
    BY <1>1, <1>5, <1>10 DEF IInv, Progress
  <2>. QED
    BY <1>5, <1>10, <2>1, <2>2 DEF IInv, Progress, WholeSection
<1>. QED
  BY <1>5, <1>6, <1>7, <1>11, <1>12, ShapeIsTyped DEF IInv, Owned, TypeOK, Shape, Vector, Addresses

LEMMA ReadFdeIInv == IInv /\ ReadFde => IInv'
<1>. SUFFICES ASSUME IInv, ReadFde PROVE IInv'
  OBVIOUS
<1>. DEFINE o == <<section, next>>
<1>1. /\ next \in 1 .. Len(contents[section])
      /\ contents[section] \in Seq(EntryRecords)
      /\ EntryAt(o).kind = "fde" /\ EntryAt(o) = Entry /\ Entered(o) /\ o \in Origins
  BY AtEntryOfSection DEF ReadFde
<1>2. /\ cies.items \in Seq(CieRecords) /\ fdes.items \in Seq(FdeRecords)
      /\ cies.mem \in Addresses /\ Vector(fdes, FdeRecords)
  BY DEF IInv, Shape, Vector
<1>3. PICK c \in 1 .. Len(cies.items) :
        /\ LinksTo(c)
        /\ \E r \in Appended(fdes, [cie |-> <<cies.mem, c>>, origin |-> o]) :
             fdes' = r.vec /\ live' = r.live
  BY DEF ReadFde
<1>. DEFINE x == [cie |-> <<cies.mem, c>>, origin |-> o]
<1>4. x \in FdeRecords /\ x.cie[1] = cies.mem /\ x.cie[2] = c /\ x.origin = o
  BY <1>1, <1>2, <1>3 DEF FdeRecords
<1>5. PICK r \in Appended(fdes, x) : fdes' = r.vec /\ live' = r.live
  BY <1>3
<1>. HIDE DEF x
<1>6. /\ Vector(fdes', FdeRecords)
      /\ fdes'.items = Append(fdes.items, x)
      /\ \/ fdes'.mem = fdes.mem /\ live' = live
         \/ /\ fdes'.mem \in (Blocks \ live) \cup ({fdes.mem} \ {NoBlock})
            /\ live' = (live \ {fdes.mem}) \cup {fdes'.mem}
  BY <1>2, <1>4, <1>5, AppendedVector
<1>7. /\ UNCHANGED <<contents, section, cies, phase, status>>
      /\ next' = next + 1 /\ phase = "parse"
  BY DEF ReadFde, AtEntry
<1>8. Shape'
  BY <1>1, <1>6, <1>7 DEF IInv, Shape
<1>9. Owned'
  BY <1>6, <1>7, NoBlockAssumption DEF IInv, Owned
<1>10. /\ Len(fdes'.items) = Len(fdes.items) + 1
       /\ fdes'.items[Len(fdes.items) + 1] = x
       /\ \A i \in 1 .. Len(fdes.items) : fdes'.items[i] = fdes.items[i]
  BY <1>2, <1>4, <1>6, AppendKeeps
<1>11. Known' = Known \cup {o}
  <2>1. OriginsOf(fdes') = OriginsOf(fdes) \cup {x.origin}
    BY <1>2, <1>4, <1>6, AppendOrigins
  <2>. QED
    BY <1>4, <1>7, <2>1 DEF Known
<1>12. RecordsAreRead'
  <2>1. ASSUME NEW i \in 1 .. Len(cies.items) PROVE CieIsRead(cies.items[i])'
    BY <1>7 DEF IInv, RecordsAreRead, CieIsRead, Entered, EntryAt, Offset
  <2>2. ASSUME NEW i \in 1 .. Len(fdes.items) PROVE FdeIsRead(fdes.items[i])'
    <3>1. FdeIsRead(fdes.items[i]) /\ fdes'.items[i] = fdes.items[i]
      BY <1>10 DEF IInv, RecordsAreRead
    <3>. QED
      BY <1>7, <1>11, <3>1 DEF FdeIsRead, Entered, EntryAt, LinkOf, Offset
  <2>3. FdeIsRead(x)
    <3>1. cies.items[c].offset = LinkOf(o)
      BY <1>1, <1>3 DEF LinksTo, LinkOffset, CiePointer, LinkOf
    <3>2. \A j \in 1 .. next - 1 : <<section, j>> \in Known
      BY <1>7 DEF IInv, Progress
    <3>. QED
      BY <1>1, <1>3, <1>4, <3>1, <3>2 DEF FdeIsRead
  <2>4. FdeIsRead(fdes.items[Len(fdes.items)])'
    <3>1. fdes'.items[Len(fdes'.items)] = x
      BY <1>10
    <3>. QED
      BY <1>7, <1>11, <2>3, <3>1 DEF FdeIsRead, Entered, EntryAt, LinkOf, Offset
  <2>5. ASSUME NEW i \in 1 .. Len(fdes'.items) PROVE FdeIsRead(fdes.items[i])'
    <3>1. i \in 1 .. Len(fdes.items) \/ i = Len(fdes'.items)
      BY <1>2, <1>10
    <3>. QED
      BY <2>2, <2>4, <3>1
  <2>. QED
    BY <1>7, <2>1, <2>5 DEF RecordsAreRead
<1>13. Progress'
  <2>1. next' <= Len(Entries') + 1
    BY <1>1, <1>7 DEF Entries
  <2>2. \A k \in 1 .. next' - 1 : <<section', k>> \in Known'
    BY <1>1, <1>7, <1>11 DEF IInv, Progress
  <2>. QED
    BY <1>7, <1>11, <2>1, <2>2 DEF IInv, Progress, WholeSection
<1>. QED
  BY <1>7, <1>8, <1>9, <1>12, <1>13, ShapeIsTyped
     DEF IInv, Owned, TypeOK, Shape, Vector, Addresses

(* Giving up leaves empty vectors and no block.                            *)
LEMMA GivesUpIInv ==
  ASSUME IInv, NEW st \in Statuses, GivesUp(st)
  PROVE  IInv'
<1>1. Vector(EmptyVector, CieRecords) /\ Vector(EmptyVector, FdeRecords)
  BY DEF Vector, EmptyVector, Addresses
<1>2. Shape'
  BY <1>1 DEF IInv, Shape, GivesUp
<1>3. Owned'
  BY DEF IInv, Owned, GivesUp, EmptyVector
<1>4. RecordsAreRead' /\ Progress'
  BY DEF RecordsAreRead, Progress, GivesUp, EmptyVector
<1>. QED
  BY <1>2, <1>3, <1>4 DEF IInv, Owned, TypeOK, Shape, GivesUp, Vector, Addresses, EmptyVector

(* Going on without touching the vectors.                                  *)
LEMMA VectorsKept ==
  ASSUME IInv, UNCHANGED <<contents, cies, fdes, live>>
  PROVE  RecordsAreRead' /\ Known' = Known
<1>1. Known' = Known
  BY DEF Known, OriginsOf
<1>2. ASSUME NEW i \in 1 .. Len(cies.items) PROVE CieIsRead(cies.items[i])'
  BY DEF IInv, RecordsAreRead, CieIsRead, Entered, EntryAt, Offset
<1>3. ASSUME NEW i \in 1 .. Len(fdes.items) PROVE FdeIsRead(fdes.items[i])'
  <2>1. FdeIsRead(fdes.items[i])
    BY DEF IInv, RecordsAreRead
  <2>. QED
    BY <1>1, <2>1 DEF FdeIsRead, Entered, EntryAt, LinkOf, Offset
<1>. QED
  BY <1>1, <1>2, <1>3 DEF RecordsAreRead

(* A section is whole when its end or a terminator is reached.             *)
LEMMA SectionIsWhole ==
  ASSUME IInv, SectionDone
  PROVE  WholeSection(section)
<1>1. contents[section] \in Seq(EntryRecords) /\ next \in Nat \ {0}
  BY DEF IInv, Shape
<1>2. next > Len(contents[section]) \/ contents[section][next].kind = "end"
  BY <1>1 DEF SectionDone, MoreEntries, Entries, Entry
<1>3. \A k \in 1 .. next - 1 : <<section, k>> \in Known
  BY DEF IInv, Progress, SectionDone
<1>. QED
  BY <1>1, <1>2, <1>3 DEF WholeSection

LEMMA NextSectionIInv == IInv /\ NextSection => IInv'
<1>. SUFFICES ASSUME IInv, NextSection PROVE IInv'
  OBVIOUS
<1>1. /\ UNCHANGED <<contents, cies, fdes, live, phase, status>>
      /\ section' = "debug_frame" /\ next' = 1 /\ section = "eh_frame" /\ phase = "parse"
  BY DEF NextSection, SectionDone
<1>2. RecordsAreRead' /\ Known' = Known
  BY <1>1, VectorsKept
<1>3. Shape'
  BY <1>1 DEF IInv, Shape, Sections
<1>4. WholeSection("eh_frame")
  BY <1>1, SectionIsWhole DEF NextSection
<1>5. Len(Entries') \in Nat
  BY <1>3 DEF Shape, Entries
<1>6. Progress'
  BY <1>1, <1>2, <1>4, <1>5 DEF Progress, WholeSection
<1>. QED
  BY <1>1, <1>2, <1>3, <1>6 DEF IInv, Owned, TypeOK, Shape

LEMMA PublishIInv == IInv /\ Publish => IInv'
<1>. SUFFICES ASSUME IInv, Publish PROVE IInv'
  OBVIOUS
<1>1. CASE fdes.items = <<>>
  BY <1>1, GivesUpIInv DEF Publish, Statuses
<1>2. CASE fdes.items # <<>>
  <2>1. /\ UNCHANGED <<contents, section, next, cies, fdes, live, status>>
        /\ phase' = "built" /\ phase = "parse" /\ section = "debug_frame"
    BY <1>2 DEF Publish, SectionDone
  <2>2. RecordsAreRead' /\ Known' = Known
    BY <2>1, VectorsKept
  <2>3. WholeSection("debug_frame") /\ WholeSection("eh_frame")
    BY <2>1, SectionIsWhole DEF Publish, IInv, Progress
  <2>4. Progress'
    BY <2>1, <2>2, <2>3 DEF Progress, WholeSection, Sections
  <2>. QED
    BY <1>2, <2>1, <2>2, <2>4 DEF IInv, Owned, TypeOK, Shape
<1>. QED
  BY <1>1, <1>2

LEMMA IndexIInv == IInv /\ Index => IInv'
<1>. SUFFICES ASSUME IInv, Index PROVE IInv'
  OBVIOUS
<1>1. /\ UNCHANGED <<contents, section, next, cies, fdes, live>>
      /\ phase' = "indexed" /\ phase = "built" /\ status' \in Statuses
  BY DEF Index, IInv, Shape, Statuses
<1>2. RecordsAreRead' /\ Known' = Known
  BY <1>1, VectorsKept
<1>3. Progress'
  BY <1>1, <1>2 DEF IInv, Progress, WholeSection
<1>. QED
  BY <1>1, <1>2, <1>3 DEF IInv, Owned, TypeOK, Shape

LEMMA NextIInv == IInv /\ [Next]_vars => IInv'
<1>. SUFFICES ASSUME IInv, [Next]_vars PROVE IInv'
  OBVIOUS
<1>1. CASE Reject
  <2>1. Entry.kind \in {"cie", "fde"} => Entry.decodes \in Statuses
    <3>1. Entry \in EntryRecords
      BY <1>1, AtEntryOfSection DEF Reject, EntryAt
    <3>. QED
      BY <3>1 DEF EntryRecords, Statuses
  <2>. QED
    BY <1>1, <2>1, GivesUpIInv DEF Reject, Statuses
<1>2. CASE OutOfMemory
  BY <1>2, GivesUpIInv DEF OutOfMemory, Statuses
<1>3. CASE UNCHANGED vars
  <2>1. RecordsAreRead' /\ Known' = Known
    BY <1>3, VectorsKept DEF vars
  <2>. QED
    BY <1>3, <2>1 DEF vars, IInv, TypeOK, Shape, Owned, Progress, WholeSection, Entries
<1>. QED
  BY <1>1, <1>2, <1>3, ReadCieIInv, ReadFdeIInv, NextSectionIInv, PublishIInv, IndexIInv
     DEF Next

(* Every reachable state satisfies the invariant.                          *)
THEOREM AlwaysIInv == Spec => []IInv
BY InitIInv, NextIInv, PTL DEF Spec

-----------------------------------------------------------------------------
(* Theorems *)

(* The walk, the vectors and the blocks keep their types                   *)
(* (cfi.c:499-581).                                                        *)
THEOREM TypeCorrect == Spec => []TypeOK
BY AlwaysIInv, PTL DEF IInv

(* The live blocks are the two vectors, and a build without tables has     *)
(* freed them, wherever realloc put them (cfi.c:85-108, :567-581).         *)
THEOREM BlocksCorrect == Spec => []BuildOwnsItsBlocks
<1>1. IInv => BuildOwnsItsBlocks
  BY DEF IInv, Owned, BuildOwnsItsBlocks
<1>. QED
  BY <1>1, AlwaysIInv, PTL

(* An indexed module has all the entries of its sections or none           *)
(* (cfi.c:499-576).                                                        *)
THEOREM TablesCorrect == Spec => []TablesAreWhole
<1>1. IInv => TablesAreWhole
  BY DEF IInv, Progress, WholeSection, Known, TablesAreWhole
<1>. QED
  BY <1>1, AlwaysIInv, PTL

(* Every FDE of a well-formed file leads to its own CIE while the vector   *)
(* of CIEs has not grown: because those of .eh_frame, whose pointers are   *)
(* measured from the wrong place, have no link at all                      *)
(* (cfi.c:419-442, :96).                                                   *)
THEOREM LinksCorrect == Spec => []LinksRightWithoutGrowth
<1>1. ASSUME IInv, phase = "indexed", BothWellFormed, cies.cap <= InitialCapacity,
             DistinctCieOffsets, NEW i \in 1 .. Len(fdes.items)
      PROVE  LinkIsRight(fdes.items[i])
  <2>. DEFINE f == fdes.items[i]
              s == f.origin[1]
              k == f.origin[2]
              p == contents[s][k].parent
  <2>1. /\ contents \in [Sections -> Seq(EntryRecords)]
        /\ cies.items \in Seq(CieRecords) /\ fdes.items \in Seq(FdeRecords)
    BY <1>1 DEF IInv, Shape, Vector
  <2>2. FdeIsRead(f) /\ f.origin \in Origins
    <3>1. f \in FdeRecords
      BY <2>1
    <3>2. FdeIsRead(fdes.items[i])
      BY <1>1 DEF IInv, RecordsAreRead
    <3>. QED
      BY <3>1, <3>2 DEF FdeRecords
  <2>3. /\ s \in Sections /\ k \in 1 .. Len(contents[s])
        /\ contents[s][k].kind = "fde" /\ f.origin = <<s, k>>
    BY <2>2 DEF FdeIsRead, Entered, EntryAt, Origins
  <2>4. p \in 1 .. k - 1 /\ contents[s][p].kind = "cie" /\ p \in Int
    <3>. HIDE DEF s, k
    <3>1. WellFormed(contents[s])
      BY <1>1, <2>3 DEF BothWellFormed
    <3>. QED
      BY <2>3, <3>1 DEF WellFormed
  <2>5. /\ f.cie[2] \in 1 .. Len(cies.items) /\ f.cie[1] = cies.mem
        /\ CieIsRead(cies.items[f.cie[2]])
        /\ cies.items[f.cie[2]].offset = LinkOf(f.origin)
    BY <1>1, <2>2 DEF FdeIsRead, IInv, RecordsAreRead
  <2>6. s = "debug_frame"
    <3>1. SUFFICES ASSUME s = "eh_frame" PROVE FALSE
      BY <2>3 DEF Sections
    <3>2. LinkOf(f.origin) = Offset(p) + 4
      <4>1. Offset(k) \in Int /\ Offset(p) \in Int
        <5>1. k \in Int
          BY <2>3
        <5>. HIDE DEF k, p
        <5>. QED
          BY <2>4, <5>1, OffsetInt
      <4>. QED
        BY <2>3, <3>1, <4>1 DEF LinkOf, EntryAt
    <3>3. PICK a \in Int : cies.items[f.cie[2]].offset = Offset(a)
      <4>. DEFINE c == cies.items[f.cie[2]]
      <4>1. c \in CieRecords
        BY <2>1, <2>5
      <4>2. c.origin[2] \in Int
        BY <4>1 DEF CieRecords, Origins
      <4>3. c.offset = Offset(c.origin[2])
        BY <2>5 DEF CieIsRead
      <4>. QED
        BY <4>2, <4>3
    <3>. QED
      BY <2>4, <2>5, <3>2, <3>3, OffsetsApart
  <2>7. cies.items[f.cie[2]].offset = Offset(p)
    BY <2>3, <2>5, <2>6 DEF LinkOf, EntryAt
  <2>8. PICK j \in 1 .. Len(cies.items) : cies.items[j].origin = <<s, p>>
    <3>1. <<s, p>> \in Known
      BY <2>2, <2>4 DEF FdeIsRead
    <3>2. <<s, p>> \notin OriginsOf(fdes)
      <4>1. SUFFICES ASSUME NEW l \in 1 .. Len(fdes.items), fdes.items[l].origin = <<s, p>>
                     PROVE  FALSE
        BY DEF OriginsOf
      <4>2. FdeIsRead(fdes.items[l])
        BY <1>1 DEF IInv, RecordsAreRead
      <4>. QED
        <5>1. EntryAt(<<s, p>>).kind = "fde"
          BY <4>1, <4>2 DEF FdeIsRead
        <5>. HIDE DEF s, p
        <5>. QED
          BY <2>4, <5>1 DEF EntryAt
    <3>. QED
      BY <3>1, <3>2 DEF Known, OriginsOf
  <2>9. CieIsRead(cies.items[j])
    BY <1>1 DEF IInv, RecordsAreRead
  <2>10. cies.items[j].offset = Offset(p)
    <3>1. <<s, p>>[2] = p
      OBVIOUS
    <3>. HIDE DEF s, p
    <3>. QED
      BY <2>8, <2>9, <3>1 DEF CieIsRead
  <2>11. j = f.cie[2]
    BY <1>1, <2>5, <2>7, <2>10 DEF DistinctCieOffsets
  <2>. QED
    BY <2>5, <2>8, <2>11 DEF LinkIsRight
<1>2. IInv => LinksRightWithoutGrowth
  BY <1>1 DEF LinksRightWithoutGrowth, AllLinksRight
<1>. QED
  BY <1>2, AlwaysIInv, PTL

=============================================================================
