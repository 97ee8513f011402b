--------------------------- MODULE MemleakBpfProofs ---------------------------
(***************************************************************************)
(* Proofs about MemleakBpf, for every number of threads, addresses,        *)
(* stacks, sizes and map elements, with and without sampling, nested calls *)
(* and full maps.                                                          *)
(***************************************************************************)
EXTENDS MemleakBpf, FiniteSetTheorems, WellFoundedInduction, TLAPS

-----------------------------------------------------------------------------
(* The inductive invariant *)

(* A slot in the map holds a record, and no two the same key.              *)
Elements ==
  /\ \A k \in linked : entry[k] \in Records
  /\ \A j, k \in linked : entry[j].addr = entry[k].addr => j = k

Finite == IsFiniteSet(DOMAIN sizes) /\ IsFiniteSet(memptrs) /\ IsFiniteSet(DOMAIN combined)

InCall(t) == step[t] \in {"exit", "record", "count"}

(* A free that came first, on the way to a call or to a free.              *)
Before(t, then) ==
  step[t] = then \/ (step[t] \in {"delete", "uncount"} /\ job[t].then = then)

(* Where a probe is tells what its thread holds, and how deep it is.       *)
Position(t) ==
  /\ Idle(t) => job[t].addr = Null
  /\ step[t] \in {"delete", "uncount"} =>
       /\ job[t].slot \in Slots /\ entry[job[t].slot] \in Records
       /\ job[t].then \in {"enter", "free"}
  /\ Before(t, "free") => calls[t] = <<>> /\ job[t].addr \in Addresses
  /\ Before(t, "enter") => Len(calls[t]) = 1 /\ job[t].addr \in Addresses
  /\ InCall(t) => calls[t] # <<>>
  /\ step[t] \in {"record", "count"} => job[t].addr \in Addresses /\ job[t].stack \in Stacks

Exact == anomaly \cap {"stale size", "failed memalign"} = {}

(* The addresses a thread's probe and its unfinished calls are about.      *)
Olds(t) == {calls[t][i].old : i \in DOMAIN calls[t]} \ {Null}

Touched(t) == Olds(t) \cup ({job[t].addr} \ {Null})

(* They are addresses of blocks, and each of them one thread's.            *)
Owned(t) == Touched(t) \subseteq DOMAIN heap /\ (InCall(t) => job[t].addr \notin Olds(t))

Apart == \A t, u \in Threads : t # u => Touched(t) \cap Touched(u) = {}

(* Only realloc's call has an old block, and calls no other one that does; *)
(* a call whose second half is to come has not noted its size yet.         *)
Nested(t) ==
  /\ options.kernel => Olds(t) = {}
  /\ Len(calls[t]) = 2 => calls[t][2].old = Null
  /\ Before(t, "enter") /\ User => calls[t][1].old = job[t].addr
  /\ Before(t, "enter") => ~calls[t][1].traced
  /\ InCall(t) /\ Frame(t).old # Null => ~heap[Frame(t).old].plain

(* The size noted for a thread is that of its call, as long as no other    *)
(* call was nested in it.                                                  *)
Noted(t) ==
  /\ calls[t] = <<>> \/ step[t] \in {"record", "count"} => t \notin DOMAIN sizes
  /\ Len(calls[t]) = 2 => ~calls[t][1].plain /\ ~calls[t][2].plain
  /\ Len(calls[t]) = 1 /\ calls[t][1].plain /\ step[t] \notin {"record", "count"} =>
       /\ t \in DOMAIN sizes <=> calls[t][1].traced
       /\ t \in DOMAIN sizes => sizes[t] = calls[t][1].size

Good(size, stack, b) == stack = b.stack /\ (b.plain => b.traced /\ size = b.size)

(* A block that is being returned is what its call asked for.              *)
Given(t) ==
  (InCall(t) \/ (Before(t, "enter") /\ options.kernel)) /\ job[t].addr # Null =>
    /\ heap[job[t].addr] = NewBlock(Frame(t))
    /\ step[t] = "record" => Good(job[t].size, job[t].stack, heap[job[t].addr])

(* No record of an address is left, or it is known not to be the block's.  *)
Forgotten(a) == a \in missed \/ \A k \in linked : entry[k].addr # a

Probing(t) ==
  /\ step[t] \in {"uncount", "enter", "free", "exit", "record"} => Forgotten(job[t].addr)
  /\ step[t] # "delete" => \A a \in Olds(t) : Forgotten(a)
  /\ step[t] = "count" => \A k \in linked : entry[k].addr = job[t].addr =>
       Good(entry[k].size, entry[k].stack, heap[job[t].addr])

(* A record is of a block, and tells the truth about it.                   *)
Listed(a) ==
  \A k \in linked : entry[k].addr = a =>
    /\ a \in DOMAIN heap \cup missed
    /\ a \in missed \/ InProbe(a) \/ Good(entry[k].size, entry[k].stack, heap[a])

(* A block that was seen to be allocated has its record.                   *)
Wanted(a) == heap[a].plain /\ heap[a].traced

Remembered(a) == \E k \in linked : entry[k].addr = a

Kept(a) ==
  "map full" \notin anomaly /\ a \in DOMAIN heap /\ Wanted(a) =>
    (\E t \in Threads : a \in Touched(t)) \/ Remembered(a)

Counting(t) ==
  "map full" \notin anomaly /\ step[t] = "count" /\ Wanted(job[t].addr) => Remembered(job[t].addr)

Sound(t) == Owned(t) /\ Nested(t) /\ Noted(t) /\ Given(t) /\ Probing(t) /\ Counting(t)

Truth ==
  Exact => /\ Apart
           /\ \A t \in Threads : Sound(t)
           /\ \A a \in Addresses : Listed(a) /\ Kept(a)

Shape == TypeOK /\ Elements /\ Finite /\ (\A t \in Threads : Position(t))

IInv == Shape /\ Truth

-----------------------------------------------------------------------------
(* Functions, words and calls *)

LEMMA Cut ==
  ASSUME NEW f, NEW S
  PROVE  /\ DOMAIN Restrict(f, S) = S
         /\ \A x \in S : Restrict(f, S)[x] = f[x]
BY DEF Restrict

LEMMA WordsAreWords ==
  /\ \A n \in Int : Word(n) \in Words
  /\ \A n \in Nat : Increment(n) \in Int
<1>1. TotalLimit \in Nat \ {0} /\ CountLimit \in Nat \ {0}
  BY LimitsAssumption
<1>2. TotalLimit * CountLimit \in Nat \ {0}
  BY <1>1, SMT
<1>. DEFINE m == TotalLimit * CountLimit
<1>3. \A n \in Int : n % m \in 0 .. m - 1
  BY <1>2
<1>4. \A n \in Nat : n % TotalLimit \in Nat
  BY <1>1
<1>. QED
  BY <1>1, <1>2, <1>3, <1>4 DEF Word, Words, Increment

LEMMA NoJobIsOne == NoJob \in Jobs /\ NoJob.addr = Null /\ NoJob.then = "idle"
BY SizesAssumption DEF NoJob, Jobs, Steps

LEMMA IsASeq ==
  ASSUME NEW S, NEW n \in Nat, NEW q \in [1 .. n -> S]
  PROVE  q \in Seq(S) /\ Len(q) = n
OBVIOUS

LEMMA Calls ==
  ASSUME TypeOK, NEW t \in Threads
  PROVE  /\ calls[t] \in Seq(Frames) /\ Len(calls[t]) \in 0 .. 2
         /\ calls[t] = <<>> <=> Len(calls[t]) = 0
         /\ DOMAIN calls[t] = 1 .. Len(calls[t])
         /\ \A i \in 1 .. Len(calls[t]) : calls[t][i] \in Frames
         /\ calls[t] # <<>> => Frame(t) \in Frames
<1>1. calls[t] \in Seq(Frames) /\ Len(calls[t]) <= 2 /\ Len(calls[t]) \in Nat
  BY DEF TypeOK
<1>2. calls[t] = <<>> <=> Len(calls[t]) = 0
  BY <1>1
<1>3. \A i \in 1 .. Len(calls[t]) : calls[t][i] \in Frames
  BY <1>1
<1>4. calls[t] # <<>> => Frame(t) \in Frames
  BY <1>1, <1>2, <1>3 DEF Frame
<1>5. DOMAIN calls[t] = 1 .. Len(calls[t])
  BY <1>1
<1>6. Len(calls[t]) \in 0 .. 2
  <2>1. \A n \in Nat : n <= 2 => n \in 0 .. 2
    OBVIOUS
  <2>. QED
    BY <1>1, <2>1, Zenon
<1>. QED
  BY <1>1, <1>2, <1>3, <1>4, <1>5, <1>6, Zenon

Asked(kind, n, s, old, traced) ==
  /\ kind \in {"malloc", "realloc", "memalign", "slab", "page"}
  /\ n \in Sizes /\ s \in Stacks /\ old \in Addresses \cup {Null} /\ traced \in BOOLEAN

Asks(f, n, s, old, traced) ==
  f.size = n /\ f.stack = s /\ f.old = old /\ (f.traced <=> traced)

(* What a push, a pop and a change of the innermost call come to.          *)
LEMMA Pushed ==
  ASSUME TypeOK, NEW t \in Threads, Len(calls[t]) <= 1,
         NEW kind, NEW n, NEW s, NEW old, NEW traced, Asked(kind, n, s, old, traced),
         Pushes(t, kind, n, s, old, traced)
  PROVE  /\ calls' \in [Threads -> Seq(Frames)]
         /\ \A u \in Threads \ {t} : calls'[u] = calls[u]
         /\ Len(calls'[t]) = Len(calls[t]) + 1
         /\ \A i \in 1 .. Len(calls[t]) :
              calls'[t][i] = [calls[t][i] EXCEPT !.plain = FALSE]
         /\ Asks(calls'[t][Len(calls[t]) + 1], n, s, old, traced)
         /\ calls'[t][Len(calls[t]) + 1].plain <=> calls[t] = <<>>
<1>. DEFINE outer == [i \in DOMAIN calls[t] |-> [calls[t][i] EXCEPT !.plain = FALSE]]
            inner == [kind |-> kind, size |-> n, stack |-> s, old |-> old,
                      plain |-> outer = <<>>, traced |-> traced]
<1>1. calls' = [calls EXCEPT ![t] = Append(outer, inner)]
  BY DEF Pushes
<1>2. DOMAIN outer = 1 .. Len(calls[t]) /\ \A i \in 1 .. Len(calls[t]) : calls[t][i] \in Frames
  BY Calls
<1>3. \A i \in 1 .. Len(calls[t]) : outer[i] \in Frames
  BY <1>2 DEF Frames
<1>4. outer \in Seq(Frames) /\ Len(outer) = Len(calls[t])
  <2>1. Len(calls[t]) \in Nat /\ outer \in [1 .. Len(calls[t]) -> Frames]
    <3>1. Len(calls[t]) \in Nat /\ DOMAIN calls[t] = 1 .. Len(calls[t])
      BY Calls
    <3>. QED
      BY <3>1, <1>3, Zenon
  <2>. QED
    BY <2>1, IsASeq, Zenon
<1>5. (outer = <<>>) = (calls[t] = <<>>)
  BY <1>4, Calls
<1>6. inner \in Frames
  BY DEF Frames, Asked
<1>7. Append(outer, inner) \in Seq(Frames)
  BY <1>4, <1>6
<1>8. calls'[t] = Append(outer, inner)
  BY <1>1 DEF TypeOK
<1>9. \A u \in Threads \ {t} : calls'[u] = calls[u]
  BY <1>1 DEF TypeOK
<1>10. calls' \in [Threads -> Seq(Frames)]
  BY <1>1, <1>7 DEF TypeOK
<1>11. Len(calls'[t]) = Len(calls[t]) + 1 /\ calls'[t][Len(calls[t]) + 1] = inner
       /\ \A i \in 1 .. Len(calls[t]) : calls'[t][i] = outer[i]
  BY <1>4, <1>6, <1>8
<1>12. Asks(inner, n, s, old, traced) /\ (inner.plain <=> calls[t] = <<>>)
  BY <1>5, Zenon DEF Asks
<1>. QED
  BY <1>2, <1>9, <1>10, <1>11, <1>12, Zenon

LEMMA Popped ==
  ASSUME TypeOK, NEW t \in Threads, calls[t] # <<>>, Pop(t)
  PROVE  /\ calls' \in [Threads -> Seq(Frames)]
         /\ \A u \in Threads \ {t} : calls'[u] = calls[u]
         /\ Len(calls'[t]) = Len(calls[t]) - 1
         /\ \A i \in 1 .. Len(calls[t]) - 1 : calls'[t][i] = calls[t][i]
<1>1. calls' = [calls EXCEPT ![t] = SubSeq(calls[t], 1, Len(calls[t]) - 1)]
  BY DEF Pop
<1>2. /\ calls[t] \in Seq(Frames) /\ Len(calls[t]) \in 1 .. 2
  BY Calls
<1>3. SubSeq(calls[t], 1, Len(calls[t]) - 1) \in Seq(Frames)
  BY <1>2
<1>4. calls'[t] = SubSeq(calls[t], 1, Len(calls[t]) - 1)
  BY <1>1 DEF TypeOK
<1>5. calls' \in [Threads -> Seq(Frames)] /\ \A u \in Threads \ {t} : calls'[u] = calls[u]
  BY <1>1, <1>3 DEF TypeOK
<1>. QED
  BY <1>2, <1>4, <1>5

LEMMA Changed ==
  ASSUME TypeOK, NEW t \in Threads, calls[t] # <<>>, NEW g \in Frames,
         calls' = [calls EXCEPT ![t][Len(calls[t])] = g]
  PROVE  /\ calls' \in [Threads -> Seq(Frames)]
         /\ \A u \in Threads \ {t} : calls'[u] = calls[u]
         /\ Len(calls'[t]) = Len(calls[t])
         /\ \A i \in 1 .. Len(calls[t]) - 1 : calls'[t][i] = calls[t][i]
         /\ calls'[t][Len(calls[t])] = g
<1>1. /\ calls[t] \in Seq(Frames) /\ Len(calls[t]) \in 1 .. 2
  BY Calls
<1>2. calls'[t] = [calls[t] EXCEPT ![Len(calls[t])] = g]
  BY DEF TypeOK
<1>3. calls'[t] \in Seq(Frames)
  BY <1>1, <1>2
<1>4. calls' \in [Threads -> Seq(Frames)] /\ \A u \in Threads \ {t} : calls'[u] = calls[u]
  BY <1>3 DEF TypeOK
<1>. QED
  BY <1>1, <1>2, <1>4

-----------------------------------------------------------------------------
(* What the shared parts of the probes do to a thread *)

OnlyThread(t) ==
  \A u \in Threads \ {t} :
    step'[u] = step[u] /\ job'[u] = job[u] /\ calls'[u] = calls[u]

Moves(t) ==
  /\ step' \in [Threads -> Steps] /\ job' \in [Threads -> Jobs]
  /\ \A u \in Threads \ {t} : step'[u] = step[u] /\ job'[u] = job[u]

LEMMA DoneMoves ==
  ASSUME TypeOK, NEW t \in Threads, Done(t)
  PROVE  Moves(t) /\ step'[t] = "idle" /\ job'[t] = NoJob
BY NoJobIsOne DEF TypeOK, Done, Moves, Steps

LEMMA LooksUpNotMoves ==
  ASSUME TypeOK, NEW t \in Threads, NEW a \in Addresses, NEW then \in {"enter", "free"},
         LooksUpNot(t, a, then)
  PROVE  /\ Moves(t) /\ step'[t] = then
         /\ job'[t].addr = a /\ job'[t].then = then
<1>. DEFINE j == [NoJob EXCEPT !.addr = a, !.then = then]
<1>1. j \in Jobs /\ j.addr = a /\ j.then = then
  BY NoJobIsOne, SizesAssumption DEF NoJob, Jobs, Steps
<1>. HIDE DEF j
<1>2. step' = [step EXCEPT ![t] = then] /\ job' = [job EXCEPT ![t] = j]
  BY DEF LooksUpNot, j
<1>. QED
  BY <1>1, <1>2 DEF TypeOK, Moves, Steps

LEMMA LooksUpMoves ==
  ASSUME TypeOK, Elements, NEW t \in Threads, NEW a \in Addresses,
         NEW then \in {"enter", "free"}, LooksUp(t, a, then)
  PROVE  /\ Moves(t) /\ step'[t] \in {then, "delete"}
         /\ job'[t].addr = a /\ job'[t].then = then
         /\ step'[t] = "delete" =>
              job'[t].slot \in linked /\ entry[job'[t].slot].addr = a
         /\ step'[t] = then => \A k \in linked : entry[k].addr # a
<1>. DEFINE found == Recorded(a)
            next == IF found = {} THEN then ELSE "delete"
<1>1. PICK k \in IF found = {} THEN {Null} ELSE found :
         /\ step' = [step EXCEPT ![t] = next]
         /\ job' = [job EXCEPT ![t] = [NoJob EXCEPT !.addr = a, !.slot = k, !.then = then]]
  BY DEF LooksUp
<1>. DEFINE j == [NoJob EXCEPT !.addr = a, !.slot = k, !.then = then]
<1>2. k \in Slots \cup {Null} /\ (found # {} => k \in linked /\ entry[k].addr = a)
  BY DEF Recorded, TypeOK
<1>3. j \in Jobs /\ j.addr = a /\ j.then = then /\ j.slot = k
  BY <1>2, NoJobIsOne, SizesAssumption DEF NoJob, Jobs, Steps
<1>. HIDE DEF j
<1>4. job' = [job EXCEPT ![t] = j]
  BY <1>1 DEF j
<1>5. found = {} => \A i \in linked : entry[i].addr # a
  BY DEF Recorded
<1>6. next \in {then, "delete"} /\ then # "delete"
  OBVIOUS
<1>7. (next = "delete") = (found # {})
  OBVIOUS
<1>. HIDE DEF next, found
<1>8. Moves(t) /\ step'[t] = next /\ job'[t] = j
  BY <1>1, <1>3, <1>4, <1>6 DEF TypeOK, Moves, Steps
<1>. QED
  BY <1>2, <1>3, <1>5, <1>6, <1>7, <1>8

LEMMA Noting ==
  ASSUME TypeOK, Finite, NEW t \in Threads, NEW n \in Sizes, NEW traced \in BOOLEAN,
         NotesSize(t, n, traced)
  PROVE  /\ DOMAIN sizes' \subseteq Threads
         /\ \A u \in DOMAIN sizes' : sizes'[u] \in TracedSizes
         /\ Cardinality(DOMAIN sizes') <= MaxThreads /\ IsFiniteSet(DOMAIN sizes')
         /\ \A u \in Threads \ {t} : /\ u \in DOMAIN sizes' <=> u \in DOMAIN sizes
                                     /\ u \in DOMAIN sizes => sizes'[u] = sizes[u]
         /\ traced => t \in DOMAIN sizes' /\ sizes'[t] = n
         /\ ~traced => sizes' = sizes
<1>1. CASE traced
  <2>1. n \in TracedSizes /\ Cardinality(DOMAIN sizes \cup {t}) <= MaxThreads
        /\ sizes' = With(sizes, t, n)
    BY <1>1 DEF NotesSize, Notes
  <2>2. /\ DOMAIN sizes' = {t} \cup DOMAIN sizes /\ sizes'[t] = n
        /\ \A u \in DOMAIN sizes : u # t => sizes'[u] = sizes[u]
    BY <2>1 DEF With
  <2>3. DOMAIN sizes' = DOMAIN sizes \cup {t}
    BY <2>2
  <2>4. IsFiniteSet(DOMAIN sizes \cup {t})
    BY FS_AddElement DEF Finite
  <2>. QED
    BY <1>1, <2>1, <2>2, <2>3, <2>4 DEF TypeOK
<1>2. CASE ~traced
  BY <1>2 DEF NotesSize, TypeOK, Finite
<1>. QED
  BY <1>1, <1>2

(* Taking a size from the map.                                             *)
LEMMA Taking ==
  ASSUME TypeOK, Finite, NEW t \in Threads,
         sizes' = Restrict(sizes, DOMAIN sizes \ {t})
  PROVE  /\ DOMAIN sizes' \subseteq Threads /\ t \notin DOMAIN sizes'
         /\ \A u \in DOMAIN sizes' : sizes'[u] \in TracedSizes
         /\ Cardinality(DOMAIN sizes') <= MaxThreads /\ IsFiniteSet(DOMAIN sizes')
         /\ \A u \in Threads \ {t} : /\ u \in DOMAIN sizes' <=> u \in DOMAIN sizes
                                     /\ u \in DOMAIN sizes => sizes'[u] = sizes[u]
<1>1. DOMAIN sizes' = DOMAIN sizes \ {t} /\ \A u \in DOMAIN sizes' : sizes'[u] = sizes[u]
  BY Cut
<1>2. IsFiniteSet(DOMAIN sizes \ {t}) /\ Cardinality(DOMAIN sizes \ {t}) <= Cardinality(DOMAIN sizes)
  BY FS_Subset DEF Finite
<1>3. Cardinality(DOMAIN sizes) \in Nat /\ Cardinality(DOMAIN sizes \ {t}) \in Nat
  BY <1>2, FS_CardinalityType DEF Finite
<1>4. MaxThreads \in Nat /\ Cardinality(DOMAIN sizes) <= MaxThreads
  BY LimitsAssumption DEF TypeOK
<1>5. Cardinality(DOMAIN sizes \ {t}) <= MaxThreads
  BY <1>2, <1>3, <1>4
<1>6. DOMAIN sizes \subseteq Threads /\ \A u \in DOMAIN sizes : sizes[u] \in TracedSizes
  BY DEF TypeOK
<1>. QED
  BY <1>1, <1>2, <1>5, <1>6

-----------------------------------------------------------------------------
(* The shape of the state, in parts *)

HeapOK ==
  /\ DOMAIN heap \subseteq Addresses /\ \A a \in DOMAIN heap : heap[a] \in Blocks
  /\ missed \subseteq Addresses

CallsOK ==
  calls \in [Threads -> Seq(Frames)] /\ \A t \in Threads : Len(calls[t]) <= 2

SizesOK ==
  /\ DOMAIN sizes \subseteq Threads /\ \A t \in DOMAIN sizes : sizes[t] \in TracedSizes
  /\ Cardinality(DOMAIN sizes) <= MaxThreads /\ IsFiniteSet(DOMAIN sizes)

MemptrsOK ==
  memptrs \subseteq Threads /\ Cardinality(memptrs) <= MaxThreads /\ IsFiniteSet(memptrs)

EntryOK == linked \subseteq Slots /\ entry \in [Slots -> Records \cup {Null}] /\ Elements

CombinedOK ==
  /\ DOMAIN combined \subseteq Stacks /\ \A s \in DOMAIN combined : combined[s] \in Words
  /\ Cardinality(DOMAIN combined) <= MaxCombined /\ IsFiniteSet(DOMAIN combined)

Rest == options \in [kernel : BOOLEAN, wa : BOOLEAN] /\ anomaly \subseteq Anomalies

LEMMA Parts ==
  Shape <=> /\ HeapOK /\ CallsOK /\ SizesOK /\ MemptrsOK /\ EntryOK /\ CombinedOK /\ Rest
            /\ step \in [Threads -> Steps] /\ job \in [Threads -> Jobs]
            /\ \A t \in Threads : Position(t)
BY DEF Shape, TypeOK, Finite, HeapOK, CallsOK, SizesOK, MemptrsOK, EntryOK, CombinedOK, Rest

(* A step of one thread keeps the shape if it keeps each part.             *)
LEMMA ShapeOf ==
  ASSUME Shape, NEW t \in Threads, Moves(t), OnlyThread(t),
         HeapOK', SizesOK', MemptrsOK', EntryOK', CombinedOK', Rest',
         calls' \in [Threads -> Seq(Frames)], Len(calls'[t]) <= 2,
         \A k \in Slots : entry[k] \in Records => entry'[k] \in Records,
         Position(t)'
  PROVE  Shape'
<1>1. CallsOK'
  BY DEF Shape, TypeOK, OnlyThread, CallsOK
<1>2. ASSUME NEW u \in Threads PROVE Position(u)'
  <2>1. CASE u # t
    <3>1. Position(u) /\ step'[u] = step[u] /\ job'[u] = job[u] /\ calls'[u] = calls[u]
      BY <2>1 DEF Shape, OnlyThread
    <3>. QED
      BY <3>1 DEF Position, Before, InCall, Idle
  <2>. QED
    BY <2>1
<1>. QED
  BY <1>1, <1>2, Parts DEF Moves, HeapOK, CallsOK, SizesOK, MemptrsOK, EntryOK, CombinedOK,
     Rest, Shape, TypeOK, Finite

(* What is left alone keeps its part of the shape.                         *)
LEMMA Unchanged ==
  /\ Shape /\ UNCHANGED <<heap, missed>> => HeapOK'
  /\ Shape /\ UNCHANGED sizes => SizesOK'
  /\ Shape /\ UNCHANGED memptrs => MemptrsOK'
  /\ Shape /\ UNCHANGED <<entry, linked>> =>
       EntryOK' /\ \A k \in Slots : entry[k] \in Records => entry'[k] \in Records
  /\ Shape /\ UNCHANGED combined => CombinedOK'
  /\ Shape /\ UNCHANGED <<options, anomaly>> => Rest'
BY DEF Shape, TypeOK, Finite, Elements, HeapOK, SizesOK, MemptrsOK, EntryOK, CombinedOK, Rest

-----------------------------------------------------------------------------
(* A step of one thread that leaves an address alone                       *)

Same(a) ==
  /\ a \in DOMAIN heap' <=> a \in DOMAIN heap
  /\ a \in DOMAIN heap => heap'[a] = heap[a]
  /\ a \in missed' <=> a \in missed
  /\ \A k \in Slots : k \in linked /\ entry[k].addr = a <=> k \in linked' /\ entry'[k].addr = a
  /\ \A k \in linked : entry[k].addr = a => entry'[k] = entry[k]

SizesOfOthers(t) ==
  \A u \in Threads \ {t} : /\ u \in DOMAIN sizes' <=> u \in DOMAIN sizes
                           /\ u \in DOMAIN sizes => sizes'[u] = sizes[u]

Told == Apart /\ (\A t \in Threads : Sound(t)) /\ \A a \in Addresses : Listed(a) /\ Kept(a)

LEMMA NullForgotten == Shape' => \A k \in linked' : entry'[k].addr # Null
BY NullAssumption DEF Shape, TypeOK, Elements, Records

LEMMA InnermostIsOld ==
  ASSUME Shape, NEW t \in Threads, calls[t] # <<>>, Frame(t).old # Null
  PROVE  Frame(t).old \in Olds(t)
<1>1. Len(calls[t]) \in DOMAIN calls[t]
  BY Calls DEF Shape
<1>. QED
  BY <1>1 DEF Frame, Olds

(* A thread that takes no step keeps what the invariant says of it.        *)
LEMMA OtherThread ==
  ASSUME Shape, Shape', Told, NEW u \in Threads,
         step'[u] = step[u], job'[u] = job[u], calls'[u] = calls[u],
         u \in DOMAIN sizes' <=> u \in DOMAIN sizes,
         u \in DOMAIN sizes => sizes'[u] = sizes[u],
         options' = options, anomaly \subseteq anomaly',
         \A a \in Touched(u) : Same(a)
  PROVE  Sound(u)' /\ Touched(u)' = Touched(u)
<1>1. step'[u] = step[u] /\ job'[u] = job[u] /\ calls'[u] = calls[u]
  OBVIOUS
<1>2. Olds(u)' = Olds(u) /\ Touched(u)' = Touched(u)
  BY <1>1 DEF Olds, Touched
<1>3. Frame(u)' = Frame(u) /\ NewBlock(Frame(u))' = NewBlock(Frame(u))
  BY <1>1 DEF Frame, NewBlock
<1>4. Sound(u)
  BY DEF Told
<1>5. job[u].addr # Null => job[u].addr \in Touched(u)
  BY DEF Touched
<1>6. Touched(u) \subseteq DOMAIN heap /\ Olds(u) \subseteq Touched(u)
  BY <1>4 DEF Sound, Owned, Touched
<1>7. InCall(u) => calls[u] # <<>>
  BY DEF Shape, Position
<1>8. Owned(u)'
  BY <1>1, <1>2, <1>4, <1>6 DEF Sound, Owned, InCall, Same
<1>9. Nested(u)'
  <2>1. InCall(u) /\ Frame(u).old # Null => heap'[Frame(u).old] = heap[Frame(u).old]
    BY <1>6, <1>7, InnermostIsOld DEF Same
  <2>. QED
    BY <1>1, <1>2, <1>3, <1>4, <2>1 DEF Sound, Nested, InCall, Before, User
<1>10. Noted(u)'
  BY <1>1, <1>4 DEF Sound, Noted
<1>11. Given(u)'
  <2>1. job[u].addr # Null => heap'[job[u].addr] = heap[job[u].addr]
    BY <1>5, <1>6 DEF Same
  <2>. QED
    BY <1>1, <1>3, <1>4, <2>1 DEF Sound, Given, InCall, Before
<1>12. \A a \in Touched(u) : Forgotten(a) => Forgotten(a)'
  BY DEF Same, Forgotten, Shape, TypeOK
<1>13. Probing(u)'
  <2>. DEFINE a == job[u].addr
  <2>1. Forgotten(a) => a \in missed' \/ \A k \in linked' : entry'[k].addr # a
    <3>1. CASE a = Null
      BY <3>1, NullForgotten
    <3>2. CASE a # Null
      BY <1>5, <1>12, <3>2 DEF Forgotten
    <3>. QED
      BY <3>1, <3>2
  <2>2. ASSUME step[u] = "count"
        PROVE  job[u].addr \in Touched(u) /\ Same(job[u].addr)
    BY <1>5, <2>2, NullAssumption DEF Shape, Position
  <2>3. step[u] = "count" => heap'[job[u].addr] = heap[job[u].addr]
    BY <1>6, <2>2 DEF Same
  <2>4. step[u] = "count" => \A k \in linked' : entry'[k].addr = job[u].addr =>
          k \in linked /\ entry[k].addr = job[u].addr /\ entry'[k] = entry[k]
    BY <2>2 DEF Same, Shape, TypeOK
  <2>5. step[u] \in {"uncount", "enter", "free", "exit", "record"} => Forgotten(job[u].addr)'
    BY <1>1, <1>4, <2>1 DEF Sound, Probing, Forgotten
  <2>6. step[u] # "delete" => \A x \in Olds(u) : Forgotten(x)'
    BY <1>4, <1>6, <1>12 DEF Sound, Probing
  <2>. QED
    BY <1>1, <1>2, <1>4, <2>3, <2>4, <2>5, <2>6 DEF Sound, Probing
<1>14. Counting(u)'
  <2>1. step[u] = "count" => job[u].addr \in Touched(u) /\ Same(job[u].addr)
    BY <1>5, NullAssumption DEF Shape, Position
  <2>2. step[u] = "count" => heap'[job[u].addr] = heap[job[u].addr]
    BY <1>6, <2>1 DEF Same
  <2>3. step[u] = "count" /\ Remembered(job[u].addr) => Remembered(job[u].addr)'
    BY <2>1, <1>1 DEF Same, Remembered, Shape, TypeOK
  <2>. QED
    BY <1>1, <1>4, <2>2, <2>3 DEF Sound, Counting, Wanted
<1>. QED
  BY <1>2, <1>8, <1>9, <1>10, <1>11, <1>13, <1>14 DEF Sound

(* The rule every step of a thread is proved by: it is about a few         *)
(* addresses, A, no other thread's, and only these and the thread itself   *)
(* are to be looked at.                                                    *)
LEMMA FrameRule ==
  ASSUME Shape, Shape', Told, NEW t \in Threads, OnlyThread(t), SizesOfOthers(t),
         options' = options, anomaly \subseteq anomaly',
         NEW A, \A a \in Addresses \ A : Same(a),
         \A u \in Threads \ {t} : Touched(u) \cap A = {},
         Touched(t) \subseteq A, Touched(t)' \subseteq A,
         Sound(t)', \A a \in A \cap Addresses : Listed(a)' /\ Kept(a)'
  PROVE  Truth'
<1>1. ASSUME NEW u \in Threads, u # t
      PROVE  Sound(u)' /\ Touched(u)' = Touched(u)
  <2>1. Touched(u) \subseteq Addresses
    BY DEF Told, Sound, Owned, Shape, TypeOK
  <2>2. \A a \in Touched(u) : Same(a)
    BY <1>1, <2>1
  <2>3. /\ step'[u] = step[u] /\ job'[u] = job[u] /\ calls'[u] = calls[u]
        /\ u \in DOMAIN sizes' <=> u \in DOMAIN sizes
        /\ u \in DOMAIN sizes => sizes'[u] = sizes[u]
    BY <1>1 DEF OnlyThread, SizesOfOthers
  <2>. QED
    BY <2>2, <2>3, OtherThread
<1>2. Apart'
  <2>1. \A u, v \in Threads : u # v => Touched(u)' \cap Touched(v)' = {}
    <3>. TAKE u, v \in Threads
    <3>. HAVE u # v
    <3>1. CASE u # t /\ v # t
      BY <1>1, <3>1 DEF Told, Apart
    <3>2. CASE u = t \/ v = t
      BY <1>1, <3>2
    <3>. QED
      BY <3>1, <3>2
  <2>. QED
    BY <2>1 DEF Apart
<1>3. ASSUME NEW a \in Addresses \ A PROVE Listed(a)' /\ Kept(a)'
  <2>1. Same(a) /\ Listed(a) /\ Kept(a)
    BY DEF Told
  <2>2. ASSUME InProbe(a) PROVE InProbe(a)'
    <3>1. PICK u \in Threads : ~Idle(u) /\ job[u].addr = a
      BY <2>2 DEF InProbe
    <3>2. a \in Touched(u)
      BY <3>1, NullAssumption DEF Touched
    <3>3. u # t
      BY <3>2
    <3>. QED
      BY <3>1, <3>3 DEF OnlyThread, InProbe, Idle
  <2>3. Listed(a)'
    BY <2>1, <2>2 DEF Listed, Same, Shape, TypeOK
  <2>4. ASSUME NEW u \in Threads, a \in Touched(u) PROVE \E v \in Threads : a \in Touched(v)'
    <3>1. u # t
      BY <2>4
    <3>. QED
      BY <1>1, <2>4, <3>1
  <2>5. Remembered(a) => Remembered(a)'
    BY <2>1 DEF Remembered, Same, Shape, TypeOK
  <2>6. Kept(a)'
    BY <2>1, <2>4, <2>5 DEF Kept, Same, Wanted
  <2>. QED
    BY <2>3, <2>6
<1>. QED
  BY <1>1, <1>2, <1>3 DEF Truth

(* Before a step the truth is known whenever it is to be known after it.   *)
LEMMA Knowing ==
  ASSUME Truth, anomaly \subseteq anomaly', Exact'
  PROVE  Told
BY DEF Truth, Told, Exact

LEMMA Vacuous == ~Exact' => Truth'
BY DEF Truth

(* The program gives away and takes back blocks no probe is about.         *)
LEMMA FreeableIsFree ==
  ASSUME Shape, NEW a \in Freeable
  PROVE  a \in DOMAIN heap /\ a \in Addresses /\ \A u \in Threads : a \notin Touched(u)
BY NullAssumption DEF Shape, TypeOK, Position, Freeable, Touched, Olds, Idle

LEMMA NewIsFree ==
  ASSUME Told, NEW a \in Addresses \ DOMAIN heap
  PROVE  \A u \in Threads : a \notin Touched(u)
BY DEF Told, Sound, Owned

LEMMA SameAll == UNCHANGED <<heap, missed, entry, linked>> => \A a : Same(a)
BY DEF Same

LEMMA Untouched ==
  ASSUME Shape, NEW t \in Threads, Idle(t), calls[t] = <<>>
  PROVE  Olds(t) = {} /\ Touched(t) = {}
BY Calls DEF Shape, Position, Olds, Touched

(* A block a probe is about is listed and kept, as long as it is there.    *)
LEMMA Probed ==
  ASSUME NEW t \in Threads, NEW a \in Addresses, step'[t] # "idle", job'[t].addr = a,
         a \in DOMAIN heap'
  PROVE  Listed(a)' /\ Kept(a)'
<1>1. InProbe(a)' /\ a \in Touched(t)'
  BY NullAssumption DEF InProbe, Idle, Touched
<1>. QED
  BY <1>1 DEF Listed, Kept

(* A block nothing is promised of any more.                                *)
Spoiled(b) == [b EXCEPT !.plain = FALSE]

LEMMA SpoiledBlock ==
  ASSUME NEW b \in Blocks
  PROVE  Spoiled(b) \in Blocks /\ ~Spoiled(b).plain /\ Spoiled(b).stack = b.stack
BY DEF Blocks, Spoiled

-----------------------------------------------------------------------------
(* Frees *)

LEMMA FreeEnterIInv ==
  ASSUME IInv, NEW t \in Threads, FreeEnter(t)
  PROVE  IInv'
<1>1. PICK a \in Freeable : LooksUp(t, a, "free")
  BY DEF FreeEnter
<1>2. Shape /\ Idle(t) /\ calls[t] = <<>>
      /\ UNCHANGED <<options, heap, missed, calls, sizes, memptrs, entry, linked, combined, anomaly>>
  BY DEF IInv, FreeEnter
<1>3. a \in DOMAIN heap /\ a \in Addresses /\ \A u \in Threads : a \notin Touched(u)
  BY <1>2, FreeableIsFree
<1>4. /\ Moves(t) /\ step'[t] \in {"free", "delete"}
      /\ job'[t].addr = a /\ job'[t].then = "free"
      /\ step'[t] = "delete" => job'[t].slot \in linked /\ entry[job'[t].slot].addr = a
      /\ step'[t] = "free" => \A k \in linked : entry[k].addr # a
  BY <1>1, <1>2, <1>3, LooksUpMoves DEF Shape
<1>5. OnlyThread(t)
  BY <1>2, <1>4 DEF Moves, OnlyThread
<1>6. Position(t)'
  BY <1>2, <1>3, <1>4 DEF Shape, TypeOK, Elements, Position, Before, InCall, Idle
<1>7. calls' \in [Threads -> Seq(Frames)] /\ Len(calls'[t]) <= 2
  BY <1>2 DEF Shape, TypeOK
<1>8. Shape'
  BY <1>2, <1>4, <1>5, <1>6, <1>7, Unchanged, ShapeOf
<1>9. Truth'
  <2>. SUFFICES ASSUME Exact' PROVE Truth'
    BY Vacuous
  <2>1. Told /\ Sound(t)
    BY <1>2, Knowing DEF IInv, Told
  <2>2. Olds(t) = {} /\ Touched(t) = {}
    BY <1>2, Untouched
  <2>3. Olds(t)' = {} /\ Touched(t)' = {a}
    BY <1>2, <1>3, <1>4, <2>2, NullAssumption DEF Olds, Touched
  <2>4. Sound(t)'
    <3>1. Owned(t)' /\ Nested(t)' /\ Noted(t)' /\ Given(t)'
      BY <1>2, <1>3, <1>4, <2>1, <2>3 DEF Sound, Owned, Nested, Noted, Given, InCall, Before
    <3>2. Probing(t)' /\ Counting(t)'
      BY <1>2, <1>4, <2>3 DEF Probing, Counting, Forgotten
    <3>. QED
      BY <3>1, <3>2 DEF Sound
  <2>5. Listed(a)' /\ Kept(a)'
    BY <1>2, <1>3, <1>4, Probed
  <2>6. SizesOfOthers(t) /\ \A b : Same(b)
    BY <1>2, SameAll DEF SizesOfOthers
  <2>. QED
    BY <1>2, <1>3, <1>5, <1>8, <2>1, <2>2, <2>3, <2>4, <2>5, <2>6, FrameRule
<1>. QED
  BY <1>8, <1>9 DEF IInv

(* The free that comes first is of one address.                            *)
LEMMA BeforeIsOfOne ==
  ASSUME Shape, NEW t \in Threads, Sound(t), Before(t, "enter") \/ Before(t, "free")
  PROVE  /\ job[t].addr \in Addresses /\ Touched(t) = {job[t].addr}
         /\ Olds(t) \subseteq {job[t].addr} /\ job[t].addr \in DOMAIN heap
<1>1. job[t].addr \in Addresses /\ job[t].addr # Null
  BY NullAssumption DEF Shape, Position
<1>2. CASE Before(t, "free")
  <2>1. calls[t] = <<>>
    BY <1>2 DEF Shape, Position
  <2>2. Olds(t) = {}
    BY <2>1, Calls DEF Shape, Olds
  <2>. QED
    BY <1>1, <2>2 DEF Touched, Sound, Owned
<1>3. CASE Before(t, "enter") /\ options.kernel
  BY <1>1, <1>3 DEF Sound, Nested, Touched, Owned
<1>4. CASE Before(t, "enter") /\ User
  <2>1. Len(calls[t]) = 1 /\ calls[t][1].old = job[t].addr
    BY <1>4 DEF Shape, Position, Sound, Nested
  <2>2. DOMAIN calls[t] = 1 .. 1
    BY <2>1, Calls DEF Shape
  <2>3. Olds(t) = {job[t].addr}
    BY <1>1, <2>1, <2>2 DEF Olds
  <2>. QED
    BY <1>1, <2>3 DEF Touched, Sound, Owned
<1>. QED
  BY <1>2, <1>3, <1>4 DEF User

LEMMA DeleteIInv ==
  ASSUME IInv, NEW t \in Threads, Delete(t)
  PROVE  IInv'
<1>. DEFINE a == job[t].addr
<1>1. /\ Shape /\ step[t] = "delete"
      /\ linked' = linked \ Recorded(a) /\ missed' = missed \ {a}
      /\ step' = [step EXCEPT ![t] = "uncount"]
      /\ UNCHANGED <<options, heap, calls, job, sizes, memptrs, entry, combined, anomaly>>
  BY DEF IInv, Delete
<1>2. Moves(t) /\ step'[t] = "uncount" /\ OnlyThread(t)
  BY <1>1 DEF Shape, TypeOK, Moves, OnlyThread, Steps
<1>3. Before(t, "enter") \/ Before(t, "free")
  BY <1>1 DEF Shape, Position, Before
<1>4. Position(t)'
  BY <1>1, <1>2, <1>3 DEF Shape, Position, Before, InCall, Idle
<1>5. HeapOK' /\ EntryOK'
  BY <1>1 DEF Shape, TypeOK, Elements, HeapOK, EntryOK
<1>6. calls' \in [Threads -> Seq(Frames)] /\ Len(calls'[t]) <= 2
  BY <1>1 DEF Shape, TypeOK
<1>7. Shape'
  BY <1>1, <1>2, <1>4, <1>5, <1>6, Unchanged, ShapeOf
<1>8. Truth'
  <2>. SUFFICES ASSUME Exact' PROVE Truth'
    BY Vacuous
  <2>1. Told /\ Sound(t)
    BY <1>1, Knowing DEF IInv, Told
  <2>2. a \in Addresses /\ Touched(t) = {a} /\ Olds(t) \subseteq {a} /\ a \in DOMAIN heap
    BY <1>1, <1>3, <2>1, BeforeIsOfOne
  <2>3. Olds(t)' = Olds(t) /\ Touched(t)' = {a}
    BY <1>1, <2>2 DEF Olds, Touched
  <2>4. \A k \in linked' : entry'[k].addr # a
    BY <1>1 DEF Recorded
  <2>5. Sound(t)'
    <3>1. Owned(t)' /\ Nested(t)' /\ Noted(t)' /\ Given(t)'
      BY <1>1, <1>2, <2>1, <2>2, <2>3
         DEF Sound, Owned, Nested, Noted, Given, InCall, Before, User, Frame, NewBlock
    <3>2. Probing(t)' /\ Counting(t)'
      BY <1>1, <1>2, <2>2, <2>3, <2>4 DEF Probing, Counting, Forgotten
    <3>. QED
      BY <3>1, <3>2 DEF Sound
  <2>6. Listed(a)' /\ Kept(a)'
    BY <1>1, <1>2, <2>2, Probed
  <2>7. \A b \in Addresses \ {a} : Same(b)
    BY <1>1 DEF Same, Recorded
  <2>8. \A u \in Threads \ {t} : Touched(u) \cap {a} = {}
    BY <2>1, <2>2 DEF Told, Apart
  <2>9. SizesOfOthers(t)
    BY <1>1 DEF SizesOfOthers
  <2>. QED
    BY <1>1, <1>2, <1>7, <2>1, <2>2, <2>3, <2>5, <2>6, <2>7, <2>8, <2>9, FrameRule
<1>. QED
  BY <1>7, <1>8 DEF IInv

LEMMA UncountIInv ==
  ASSUME IInv, NEW t \in Threads, Uncount(t)
  PROVE  IInv'
<1>. DEFINE a == job[t].addr
            info == entry[job[t].slot]
<1>1. /\ Shape /\ step[t] = "uncount"
      /\ combined' = IF info.stack \in DOMAIN combined
                     THEN [combined EXCEPT ![info.stack] = Word(@ - Increment(info.size))]
                     ELSE combined
      /\ anomaly \subseteq anomaly' /\ anomaly' \subseteq anomaly \cup {"torn read"}
      /\ step' = [step EXCEPT ![t] = job[t].then]
      /\ UNCHANGED <<options, heap, missed, calls, job, sizes, memptrs, entry, linked>>
  BY DEF IInv, Uncount
<1>2. job[t].then \in {"enter", "free"} /\ info \in Records
  BY <1>1 DEF Shape, Position
<1>3. Moves(t) /\ step'[t] = job[t].then /\ OnlyThread(t)
  BY <1>1, <1>2 DEF Shape, TypeOK, Moves, OnlyThread, Steps
<1>4. Before(t, "enter") \/ Before(t, "free")
  BY <1>1, <1>2 DEF Before
<1>5. Position(t)'
  BY <1>1, <1>2, <1>3 DEF Shape, Position, Before, InCall, Idle
<1>6. CombinedOK'
  <2>1. info.size \in Nat
    BY <1>2, SizesAssumption DEF Records
  <2>2. Increment(info.size) \in Int
    BY <2>1, WordsAreWords
  <2>3. \A n \in Words : n \in Int
    BY DEF Words
  <2>4. \A n \in Words : Word(n - Increment(info.size)) \in Words
    BY <2>2, <2>3, WordsAreWords
  <2>. QED
    BY <1>1, <2>4 DEF Shape, TypeOK, Finite, CombinedOK
<1>7. Rest'
  BY <1>1 DEF Shape, TypeOK, Rest, Anomalies
<1>8. calls' \in [Threads -> Seq(Frames)] /\ Len(calls'[t]) <= 2
  BY <1>1 DEF Shape, TypeOK
<1>9. Shape'
  BY <1>1, <1>3, <1>5, <1>6, <1>7, <1>8, Unchanged, ShapeOf
<1>10. Truth'
  <2>. SUFFICES ASSUME Exact' PROVE Truth'
    BY Vacuous
  <2>1. Told /\ Sound(t)
    BY <1>1, Knowing DEF IInv, Told
  <2>2. a \in Addresses /\ Touched(t) = {a} /\ Olds(t) \subseteq {a} /\ a \in DOMAIN heap
    BY <1>1, <1>4, <2>1, BeforeIsOfOne
  <2>3. Olds(t)' = Olds(t) /\ Touched(t)' = {a}
    BY <1>1, <2>2 DEF Olds, Touched
  <2>4. Sound(t)'
    <3>1. Owned(t)' /\ Nested(t)' /\ Noted(t)' /\ Given(t)'
      BY <1>1, <1>2, <1>3, <2>1, <2>2, <2>3
         DEF Sound, Owned, Nested, Noted, Given, InCall, Before, User, Frame, NewBlock
    <3>2. Probing(t)' /\ Counting(t)'
      BY <1>1, <1>2, <1>3, <2>1, <2>3 DEF Sound, Probing, Counting, Forgotten
    <3>. QED
      BY <3>1, <3>2 DEF Sound
  <2>5. Listed(a)' /\ Kept(a)'
    BY <1>1, <1>2, <1>3, <2>2, Probed
  <2>6. \A u \in Threads \ {t} : Touched(u) \cap {a} = {}
    BY <2>1, <2>2 DEF Told, Apart
  <2>7. SizesOfOthers(t) /\ \A b : Same(b)
    BY <1>1, SameAll DEF SizesOfOthers
  <2>. QED
    BY <1>1, <1>3, <1>9, <2>1, <2>2, <2>3, <2>4, <2>5, <2>6, <2>7, FrameRule
<1>. QED
  BY <1>9, <1>10 DEF IInv

LEMMA FreedIInv ==
  ASSUME IInv, NEW t \in Threads, Freed(t)
  PROVE  IInv'
<1>0. PICK a : a = job[t].addr
  OBVIOUS
<1>1. /\ Shape /\ step[t] = "free" /\ Done(t)
      /\ heap' = Without(a) \/ heap' = [heap EXCEPT ![a].plain = FALSE]
      /\ UNCHANGED <<options, missed, calls, sizes, memptrs, entry, linked, combined, anomaly>>
  BY <1>0 DEF IInv, Freed
<1>2. Moves(t) /\ step'[t] = "idle" /\ job'[t] = NoJob
  BY <1>1, DoneMoves DEF Shape
<1>3. OnlyThread(t) /\ job'[t].addr = Null
  BY <1>1, <1>2, NoJobIsOne DEF Moves, OnlyThread
<1>4. Before(t, "free") /\ calls[t] = <<>>
  BY <1>1 DEF Shape, Position, Before
<1>5. Position(t)'
  BY <1>2, <1>3 DEF Position, Before, InCall, Idle
<1>6. /\ DOMAIN heap' \subseteq DOMAIN heap
      /\ \A b \in DOMAIN heap \ {a} : b \in DOMAIN heap' /\ heap'[b] = heap[b]
      /\ a \in DOMAIN heap' => heap'[a] = Spoiled(heap[a])
  <2>1. CASE heap' = Without(a)
    BY <2>1, Cut DEF Without
  <2>2. CASE heap' = [heap EXCEPT ![a].plain = FALSE]
    BY <2>2 DEF Spoiled
  <2>. QED
    BY <1>1, <2>1, <2>2
<1>7. a \in DOMAIN heap' => heap'[a] \in Blocks /\ ~heap'[a].plain
  <2>. SUFFICES ASSUME a \in DOMAIN heap' PROVE heap'[a] \in Blocks /\ ~heap'[a].plain
    OBVIOUS
  <2>1. heap[a] \in Blocks
    BY <1>1, <1>6 DEF Shape, TypeOK
  <2>. QED
    BY <1>6, <2>1, SpoiledBlock, Zenon
<1>8. HeapOK'
  BY <1>1, <1>6, <1>7 DEF Shape, TypeOK, HeapOK
<1>9. calls' \in [Threads -> Seq(Frames)] /\ Len(calls'[t]) <= 2
  BY <1>1 DEF Shape, TypeOK
<1>10. Shape'
  BY <1>1, <1>2, <1>3, <1>5, <1>8, <1>9, Unchanged, ShapeOf
<1>11. Truth'
  <2>. SUFFICES ASSUME Exact' PROVE Truth'
    BY Vacuous
  <2>1. Told /\ Sound(t)
    BY <1>1, Knowing DEF IInv, Told
  <2>2. a \in Addresses /\ Touched(t) = {a} /\ a \in DOMAIN heap
    BY <1>0, <1>1, <1>4, <2>1, BeforeIsOfOne
  <2>3. Olds(t)' = {} /\ Touched(t)' = {}
    BY <1>1, <1>2, <1>3, <1>4, <1>10, Calls DEF Shape, Olds, Touched
  <2>4. Sound(t)'
    <3>1. Owned(t)' /\ Nested(t)' /\ Noted(t)' /\ Given(t)'
      BY <1>1, <1>2, <1>4, <2>1, <2>3
         DEF Sound, Owned, Nested, Noted, Given, InCall, Before
    <3>2. Probing(t)' /\ Counting(t)'
      BY <1>2, <2>3 DEF Probing, Counting
    <3>. QED
      BY <3>1, <3>2 DEF Sound
  <2>5. Listed(a)' /\ Kept(a)'
    <3>1. Forgotten(a)
      BY <1>0, <1>1, <2>1 DEF Sound, Probing
    <3>2. Listed(a)'
      BY <1>1, <3>1 DEF Listed, Forgotten
    <3>. QED
      BY <1>7, <3>2 DEF Kept, Wanted
  <2>6. \A u \in Threads \ {t} : Touched(u) \cap {a} = {}
    BY <2>1, <2>2 DEF Told, Apart
  <2>7. \A b \in Addresses \ {a} : Same(b)
    BY <1>1, <1>6 DEF Same
  <2>8. SizesOfOthers(t)
    BY <1>1 DEF SizesOfOthers
  <2>. QED
    BY <1>1, <1>3, <1>10, <2>1, <2>2, <2>3, <2>4, <2>5, <2>6, <2>7, <2>8, FrameRule
<1>. QED
  BY <1>10, <1>11 DEF IInv

-----------------------------------------------------------------------------
(* Calls that begin *)

(* The first call of a thread.                                             *)
LEMMA FirstCall ==
  ASSUME Shape, NEW t \in Threads, calls[t] = <<>>,
         NEW kind, NEW n, NEW s, NEW old, NEW traced, Asked(kind, n, s, old, traced),
         Pushes(t, kind, n, s, old, traced)
  PROVE  /\ calls' \in [Threads -> Seq(Frames)]
         /\ \A u \in Threads \ {t} : calls'[u] = calls[u]
         /\ Len(calls'[t]) = 1 /\ DOMAIN calls'[t] = 1 .. 1 /\ calls'[t] # <<>>
         /\ Frame(t)' = calls'[t][1]
         /\ Asks(calls'[t][1], n, s, old, traced) /\ calls'[t][1].plain
         /\ Olds(t)' = {old} \ {Null}
<1>1. TypeOK /\ Len(calls[t]) = 0 /\ Len(calls[t]) <= 1 /\ Len(calls[t]) + 1 = 1
  BY Calls DEF Shape
<1>2. /\ calls' \in [Threads -> Seq(Frames)]
      /\ \A u \in Threads \ {t} : calls'[u] = calls[u]
      /\ Len(calls'[t]) = Len(calls[t]) + 1
      /\ Asks(calls'[t][Len(calls[t]) + 1], n, s, old, traced)
      /\ calls'[t][Len(calls[t]) + 1].plain <=> calls[t] = <<>>
  BY <1>1, Pushed, Zenon
<1>3. calls'[t] \in Seq(Frames) /\ Len(calls'[t]) = 1
  BY <1>1, <1>2
<1>4. DOMAIN calls'[t] = 1 .. 1 /\ calls'[t] # <<>>
  <2>1. \A q \in Seq(Frames) : Len(q) = 1 => DOMAIN q = 1 .. 1 /\ q # <<>>
    OBVIOUS
  <2>. QED
    BY <1>3, <2>1, Zenon
<1>5. Frame(t)' = calls'[t][1]
  BY <1>3 DEF Frame
<1>6. Asks(calls'[t][1], n, s, old, traced) /\ calls'[t][1].plain
  BY <1>1, <1>2, Zenon
<1>7. Olds(t)' = {old} \ {Null}
  <2>1. calls'[t][1].old = old
    BY <1>6, Zenon DEF Asks
  <2>. QED
    BY <1>4, <2>1 DEF Olds
<1>. QED
  BY <1>2, <1>3, <1>4, <1>5, <1>6, <1>7, Zenon

LEMMA ReallocEnterIInv ==
  ASSUME IInv, NEW t \in Threads, ReallocEnter(t)
  PROVE  IInv'
<1>1. PICK a \in Freeable, n \in Sizes, s \in Stacks :
         Pushes(t, "realloc", n, s, a, FALSE) /\ LooksUp(t, a, "enter")
  BY DEF ReallocEnter
<1>2. Shape /\ User /\ Idle(t) /\ calls[t] = <<>>
      /\ UNCHANGED <<options, heap, missed, sizes, memptrs, entry, linked, combined, anomaly>>
  BY DEF IInv, ReallocEnter
<1>3. a \in DOMAIN heap /\ a \in Addresses /\ a # Null /\ \A u \in Threads : a \notin Touched(u)
  BY <1>2, FreeableIsFree, NullAssumption
<1>4. /\ Moves(t) /\ step'[t] \in {"enter", "delete"}
      /\ job'[t].addr = a /\ job'[t].then = "enter"
      /\ step'[t] = "delete" => job'[t].slot \in linked /\ entry[job'[t].slot].addr = a
      /\ step'[t] = "enter" => \A k \in linked : entry[k].addr # a
  BY <1>1, <1>2, <1>3, LooksUpMoves DEF Shape
<1>5. /\ calls' \in [Threads -> Seq(Frames)]
      /\ \A u \in Threads \ {t} : calls'[u] = calls[u]
      /\ Len(calls'[t]) = 1 /\ calls'[t] # <<>> /\ calls'[t][1].old = a
      /\ ~calls'[t][1].traced /\ Olds(t)' = {a}
  <2>1. Asked("realloc", n, s, a, FALSE)
    BY <1>3 DEF Asked
  <2>2. /\ calls' \in [Threads -> Seq(Frames)]
        /\ \A u \in Threads \ {t} : calls'[u] = calls[u]
        /\ Len(calls'[t]) = 1 /\ calls'[t] # <<>>
        /\ Asks(calls'[t][1], n, s, a, FALSE) /\ Olds(t)' = {a} \ {Null}
    BY <1>1, <1>2, <2>1, FirstCall, Zenon
  <2>3. calls'[t][1].old = a /\ ~calls'[t][1].traced
    BY <2>2, Zenon DEF Asks
  <2>. QED
    BY <1>3, <2>2, <2>3
<1>6. OnlyThread(t)
  BY <1>4, <1>5 DEF Moves, OnlyThread
<1>7. Position(t)'
  BY <1>2, <1>3, <1>4, <1>5 DEF Shape, TypeOK, Elements, Position, Before, InCall, Idle
<1>8. Shape'
  <2>1. HeapOK' /\ SizesOK' /\ MemptrsOK' /\ EntryOK' /\ CombinedOK' /\ Rest'
        /\ \A k \in Slots : entry[k] \in Records => entry'[k] \in Records
    BY <1>2, Unchanged
  <2>2. Len(calls'[t]) <= 2
    BY <1>5
  <2>. QED
    BY <1>2, <1>4, <1>5, <1>6, <1>7, <2>1, <2>2, ShapeOf, Zenon
<1>9. Truth'
  <2>. SUFFICES ASSUME Exact' PROVE Truth'
    BY Vacuous
  <2>1. Told /\ Sound(t)
    BY <1>2, Knowing DEF IInv, Told
  <2>2. Touched(t) = {}
    BY <1>2, Untouched
  <2>3. Touched(t)' = {a}
    BY <1>3, <1>4, <1>5 DEF Touched
  <2>4. Sound(t)'
    <3>1. Owned(t)' /\ Nested(t)' /\ Given(t)'
      BY <1>2, <1>3, <1>4, <1>5, <2>3 DEF Owned, Nested, Given, InCall, Before, User
    <3>2. Noted(t)'
      BY <1>2, <1>4, <1>5, <2>1 DEF Sound, Noted
    <3>3. Probing(t)' /\ Counting(t)'
      BY <1>2, <1>4, <1>5 DEF Probing, Counting, Forgotten
    <3>. QED
      BY <3>1, <3>2, <3>3 DEF Sound
  <2>5. Listed(a)' /\ Kept(a)'
    BY <1>2, <1>3, <1>4, Probed
  <2>6. SizesOfOthers(t) /\ \A b : Same(b)
    BY <1>2, SameAll DEF SizesOfOthers
  <2>. QED
    BY <1>2, <1>3, <1>6, <1>8, <2>1, <2>2, <2>3, <2>4, <2>5, <2>6, FrameRule
<1>. QED
  BY <1>8, <1>9 DEF IInv

(* The call a thread makes, from outside or from inside another one.       *)
LEMMA AnyCall ==
  ASSUME Shape, NEW t \in Threads, Len(calls[t]) <= 1,
         NEW kind, NEW n, NEW s, NEW traced, Asked(kind, n, s, Null, traced),
         Pushes(t, kind, n, s, Null, traced)
  PROVE  /\ calls' \in [Threads -> Seq(Frames)]
         /\ \A u \in Threads \ {t} : calls'[u] = calls[u]
         /\ Len(calls'[t]) <= 2 /\ calls'[t] # <<>> /\ Olds(t)' = Olds(t)
         /\ Len(calls'[t]) = 1 => calls[t] = <<>> /\ Asks(calls'[t][1], n, s, Null, traced)
         /\ Len(calls'[t]) = 2 =>
              ~calls'[t][1].plain /\ ~calls'[t][2].plain /\ calls'[t][2].old = Null
<1>1. TypeOK
  BY DEF Shape
<1>2. CASE calls[t] = <<>>
  <2>1. Olds(t) = {}
    BY <1>1, <1>2, Calls DEF Olds
  <2>2. Olds(t)' = {Null} \ {Null} /\ Len(calls'[t]) = 1 /\ calls'[t] # <<>>
        /\ calls' \in [Threads -> Seq(Frames)]
        /\ (\A u \in Threads \ {t} : calls'[u] = calls[u])
        /\ Asks(calls'[t][1], n, s, Null, traced)
    BY <1>2, FirstCall, Zenon
  <2>3. Olds(t)' = Olds(t) /\ Len(calls'[t]) <= 2 /\ Len(calls'[t]) # 2
    BY <2>1, <2>2
  <2>. QED
    BY <1>2, <2>2, <2>3, Zenon
<1>3. CASE calls[t] # <<>>
  <2>1. Len(calls[t]) = 1 /\ DOMAIN calls[t] = 1 .. 1 /\ calls[t][1] \in Frames
    BY <1>1, <1>3, Calls
  <2>2. /\ calls' \in [Threads -> Seq(Frames)]
        /\ \A u \in Threads \ {t} : calls'[u] = calls[u]
        /\ Len(calls'[t]) = Len(calls[t]) + 1
        /\ \A i \in 1 .. Len(calls[t]) :
              calls'[t][i] = [calls[t][i] EXCEPT !.plain = FALSE]
        /\ Asks(calls'[t][Len(calls[t]) + 1], n, s, Null, traced)
        /\ calls'[t][Len(calls[t]) + 1].plain <=> calls[t] = <<>>
    BY <1>1, Pushed, Zenon
  <2>3. Len(calls'[t]) = 2 /\ Len(calls[t]) + 1 = 2
    BY <2>1, <2>2
  <2>4. calls'[t][1] = [calls[t][1] EXCEPT !.plain = FALSE]
    BY <2>1, <2>2
  <2>5. calls'[t][1].old = calls[t][1].old /\ ~calls'[t][1].plain
    BY <2>1, <2>4 DEF Frames
  <2>6. calls'[t][2].old = Null /\ ~calls'[t][2].plain
    BY <1>3, <2>2, <2>3, Zenon DEF Asks
  <2>7. calls'[t] \in Seq(Frames)
    BY <2>2
  <2>8. DOMAIN calls'[t] = 1 .. 2 /\ calls'[t] # <<>>
    <3>1. \A q \in Seq(Frames) : Len(q) = 2 => DOMAIN q = 1 .. 2 /\ q # <<>>
      OBVIOUS
    <3>. QED
      BY <2>3, <2>7, <3>1, Zenon
  <2>9. Olds(t)' = Olds(t)
    BY <2>1, <2>5, <2>6, <2>8 DEF Olds
  <2>10. Len(calls'[t]) <= 2 /\ Len(calls'[t]) # 1
    BY <2>3
  <2>. QED
    BY <2>2, <2>5, <2>6, <2>8, <2>9, <2>10, Zenon
<1>. QED
  BY <1>2, <1>3, Zenon

LEMMA AllocEnterIInv ==
  ASSUME IInv, NEW t \in Threads, AllocEnter(t)
  PROVE  IInv'
<1>1. PICK kind \in {"malloc", "memalign"}, n \in Sizes, s \in Stacks, traced \in BOOLEAN :
         /\ NotesSize(t, n, traced)
         /\ Pushes(t, kind, n, s, Null, traced)
         /\ memptrs' = IF kind = "memalign" /\ Cardinality(memptrs \cup {t}) <= MaxThreads
                       THEN memptrs \cup {t} ELSE memptrs
  BY DEF AllocEnter
<1>2. Shape /\ Idle(t)
      /\ UNCHANGED <<options, heap, missed, step, job, entry, linked, combined, anomaly>>
  BY DEF IInv, AllocEnter
<1>3. Len(calls[t]) <= 1
  BY <1>2, Calls DEF AllocEnter, Shape
<1>4. Asked(kind, n, s, Null, traced)
  BY DEF Asked
<1>5. /\ calls' \in [Threads -> Seq(Frames)]
      /\ \A u \in Threads \ {t} : calls'[u] = calls[u]
      /\ Len(calls'[t]) <= 2 /\ calls'[t] # <<>> /\ Olds(t)' = Olds(t)
      /\ Len(calls'[t]) = 1 => calls[t] = <<>> /\ Asks(calls'[t][1], n, s, Null, traced)
      /\ Len(calls'[t]) = 2 =>
           ~calls'[t][1].plain /\ ~calls'[t][2].plain /\ calls'[t][2].old = Null
  BY <1>1, <1>2, <1>3, <1>4, AnyCall, Zenon
<1>6. OnlyThread(t) /\ Moves(t)
  BY <1>2, <1>5 DEF OnlyThread, Moves, Shape, TypeOK
<1>7. Position(t)'
  BY <1>2 DEF Shape, Position, Before, InCall, Idle
<1>8. SizesOK' /\ SizesOfOthers(t) /\ (traced => t \in DOMAIN sizes' /\ sizes'[t] = n)
      /\ (~traced => sizes' = sizes)
  BY <1>1, <1>2, Noting DEF Shape, SizesOK, SizesOfOthers
<1>9. MemptrsOK'
  <2>1. IsFiniteSet(memptrs \cup {t})
    BY <1>2, FS_AddElement DEF Shape, Finite
  <2>. QED
    BY <1>1, <1>2, <2>1 DEF Shape, TypeOK, Finite, MemptrsOK
<1>10. Shape'
  <2>1. HeapOK' /\ EntryOK' /\ CombinedOK' /\ Rest'
        /\ \A k \in Slots : entry[k] \in Records => entry'[k] \in Records
    BY <1>2, Unchanged
  <2>. QED
    BY <1>2, <1>5, <1>6, <1>7, <1>8, <1>9, <2>1, ShapeOf, Zenon
<1>11. Truth'
  <2>. SUFFICES ASSUME Exact' PROVE Truth'
    BY Vacuous
  <2>1. Told /\ Sound(t)
    BY <1>2, Knowing DEF IInv, Told
  <2>2. Touched(t)' = Touched(t)
    BY <1>2, <1>5 DEF Touched
  <2>3. ~InCall(t)' /\ ~Before(t, "enter")' /\ step'[t] = "idle"
    BY <1>2 DEF InCall, Before, Idle
  <2>4. Noted(t)'
    <3>1. CASE Len(calls'[t]) = 1
      <4>1. t \notin DOMAIN sizes
        BY <1>5, <2>1, <3>1 DEF Sound, Noted
      <4>2. calls'[t][1].size = n /\ (calls'[t][1].traced <=> traced)
        BY <1>5, <3>1, Zenon DEF Asks
      <4>. QED
        BY <1>5, <1>8, <2>3, <3>1, <4>1, <4>2 DEF Noted
    <3>2. CASE Len(calls'[t]) # 1
      BY <1>5, <2>3, <3>2 DEF Noted
    <3>. QED
      BY <3>1, <3>2
  <2>5. Sound(t)'
    <3>1. Owned(t)' /\ Nested(t)' /\ Given(t)' /\ Counting(t)'
      BY <1>2, <1>5, <2>1, <2>2, <2>3 DEF Sound, Owned, Nested, Given, Counting
    <3>2. Probing(t)'
      BY <1>2, <1>5, <2>1, <2>3 DEF Sound, Probing, Forgotten, Idle
    <3>. QED
      BY <2>4, <3>1, <3>2 DEF Sound
  <2>6. ASSUME NEW a \in Addresses \cap Touched(t) PROVE Listed(a)' /\ Kept(a)'
    BY <1>2, <2>1, <2>2 DEF Told, Listed, Kept, InProbe, Idle
  <2>7. \A b : Same(b)
    BY <1>2, SameAll
  <2>8. \A u \in Threads \ {t} : Touched(u) \cap Touched(t) = {}
    BY <2>1 DEF Told, Apart
  <2>. QED
    BY <1>2, <1>6, <1>8, <1>10, <2>1, <2>2, <2>5, <2>6, <2>7, <2>8, FrameRule
<1>. QED
  BY <1>10, <1>11 DEF IInv

(* A call or its block, once it is known whether its size was noted.       *)
Seen(f, traced) == [f EXCEPT !.traced = traced]

LEMMA SeenFrame ==
  ASSUME NEW f \in Frames, NEW traced \in BOOLEAN
  PROVE  Seen(f, traced) \in Frames /\ Asks(Seen(f, traced), f.size, f.stack, f.old, traced)
         /\ Seen(f, traced).plain = f.plain
BY Zenon DEF Frames, Seen, Asks

LEMMA SeenBlock ==
  ASSUME NEW f \in Frames, NEW traced \in BOOLEAN
  PROVE  Seen(NewBlock(f), traced) \in Blocks
         /\ Seen(NewBlock(f), traced) = NewBlock(Seen(f, traced))
BY DEF Frames, Blocks, Seen, NewBlock

LEMMA EnterIInv ==
  ASSUME IInv, NEW t \in Threads, Enter(t)
  PROVE  IInv'
<1>0. PICK a : a = job[t].addr
  OBVIOUS
<1>1. PICK traced \in BOOLEAN :
        /\ NotesSize(t, Frame(t).size, traced)
        /\ calls' = [calls EXCEPT ![t][Len(calls[t])].traced = traced]
        /\ IF options.kernel
           THEN /\ heap' = [heap EXCEPT ![a].traced = traced]
                /\ step' = [step EXCEPT ![t] = "exit"]
                /\ job' = [job EXCEPT ![t] = [NoJob EXCEPT !.addr = a]]
           ELSE Done(t) /\ UNCHANGED heap
  BY <1>0 DEF Enter
<1>2. Shape /\ step[t] = "enter" /\ Before(t, "enter")
      /\ UNCHANGED <<options, missed, memptrs, entry, linked, combined, anomaly>>
  BY DEF IInv, Enter, Before
<1>3. Len(calls[t]) = 1 /\ a \in Addresses /\ a # Null
  BY <1>0, <1>2, NullAssumption DEF Shape, Position
<1>4. calls[t] # <<>> /\ Frame(t) \in Frames /\ Frame(t) = calls[t][1] /\ DOMAIN calls[t] = 1 .. 1
  BY <1>2, <1>3, Calls DEF Shape, Frame
<1>5. PICK g \in Frames : /\ g = Seen(Frame(t), traced)
                          /\ Asks(g, Frame(t).size, Frame(t).stack, Frame(t).old, traced)
                          /\ g.plain = Frame(t).plain
  BY <1>4, SeenFrame, Zenon
<1>6. calls' = [calls EXCEPT ![t][Len(calls[t])] = g]
  BY <1>1, <1>5 DEF Seen, Frame
<1>7. /\ calls' \in [Threads -> Seq(Frames)]
      /\ \A u \in Threads \ {t} : calls'[u] = calls[u]
      /\ Len(calls'[t]) = 1 /\ calls'[t][1] = g
  <2>1. TypeOK
    BY <1>2 DEF Shape
  <2>2. /\ calls' \in [Threads -> Seq(Frames)]
        /\ \A u \in Threads \ {t} : calls'[u] = calls[u]
        /\ Len(calls'[t]) = Len(calls[t])
        /\ calls'[t][Len(calls[t])] = g
    BY <1>4, <1>6, <2>1, Changed, Zenon
  <2>. QED
    BY <1>3, <2>2
<1>8. DOMAIN calls'[t] = 1 .. 1 /\ calls'[t] # <<>> /\ Frame(t)' = g /\ Len(calls'[t]) <= 2
  <2>1. \A q \in Seq(Frames) : Len(q) = 1 => DOMAIN q = 1 .. 1 /\ q # <<>> /\ Len(q) <= 2
    OBVIOUS
  <2>2. calls'[t] \in Seq(Frames)
    BY <1>7
  <2>. QED
    BY <1>7, <2>1, <2>2, Zenon DEF Frame
<1>9. /\ g.size = Frame(t).size /\ g.stack = Frame(t).stack /\ g.old = Frame(t).old
      /\ g.traced <=> traced
  BY <1>5, Zenon DEF Asks
<1>10. Olds(t)' = Olds(t)
  BY <1>4, <1>7, <1>8, <1>9 DEF Olds
<1>11. PICK j \in Jobs : j.addr = (IF options.kernel THEN a ELSE Null) /\ job' = [job EXCEPT ![t] = j]
  <2>1. [NoJob EXCEPT !.addr = a] \in Jobs /\ [NoJob EXCEPT !.addr = a].addr = a
    BY <1>3, NoJobIsOne, SizesAssumption DEF NoJob, Jobs, Steps
  <2>. QED
    BY <1>1, <2>1, NoJobIsOne DEF Done
<1>12. step' = [step EXCEPT ![t] = IF options.kernel THEN "exit" ELSE "idle"]
  BY <1>1 DEF Done
<1>13. /\ Moves(t) /\ OnlyThread(t)
       /\ step'[t] = (IF options.kernel THEN "exit" ELSE "idle")
       /\ job'[t].addr = (IF options.kernel THEN a ELSE Null)
  BY <1>2, <1>7, <1>11, <1>12 DEF Shape, TypeOK, Moves, OnlyThread, Steps
<1>14. Position(t)'
  BY <1>8, <1>13 DEF Position, Before, InCall, Idle
<1>15. /\ DOMAIN heap' = DOMAIN heap
       /\ \A b \in DOMAIN heap \ {a} : heap'[b] = heap[b]
       /\ options.kernel /\ a \in DOMAIN heap => heap'[a] = Seen(heap[a], traced)
       /\ ~options.kernel => heap' = heap
  BY <1>1 DEF Seen
<1>16. HeapOK'
  <2>1. \A b \in Blocks : Seen(b, traced) \in Blocks
    BY Zenon DEF Blocks, Seen
  <2>2. DOMAIN heap \subseteq Addresses /\ (\A b \in DOMAIN heap : heap[b] \in Blocks)
        /\ missed' \subseteq Addresses
    BY <1>2 DEF Shape, TypeOK
  <2>3. \A b \in DOMAIN heap : heap'[b] \in Blocks
    BY <1>15, <2>1, <2>2
  <2>. QED
    BY <1>15, <2>2, <2>3 DEF HeapOK
<1>17. SizesOK' /\ SizesOfOthers(t) /\ (traced => t \in DOMAIN sizes' /\ sizes'[t] = g.size)
       /\ (~traced => sizes' = sizes)
  <2>1. Frame(t).size \in Sizes
    BY <1>4 DEF Frames
  <2>. QED
    BY <1>1, <1>2, <1>9, <2>1, Noting DEF Shape, SizesOK, SizesOfOthers
<1>18. Shape'
  <2>1. MemptrsOK' /\ EntryOK' /\ CombinedOK' /\ Rest'
        /\ \A k \in Slots : entry[k] \in Records => entry'[k] \in Records
    BY <1>2, Unchanged
  <2>. QED
    BY <1>2, <1>7, <1>8, <1>13, <1>14, <1>16, <1>17, <2>1, ShapeOf, Zenon
<1>19. Truth'
  <2>. SUFFICES ASSUME Exact' PROVE Truth'
    BY Vacuous
  <2>1. Told /\ Sound(t)
    BY <1>2, Knowing DEF IInv, Told
  <2>2. Touched(t) = {a} /\ a \in DOMAIN heap
    BY <1>0, <1>2, <2>1, BeforeIsOfOne
  <2>3. options.kernel => Olds(t) = {} /\ Frame(t).old = Null
    BY <1>2, <1>4, <2>1, InnermostIsOld DEF Sound, Nested
  <2>4. ~options.kernel => Olds(t) = {a}
    BY <1>0, <1>2, <1>3, <1>4, <2>1 DEF Sound, Nested, Olds, User
  <2>5. Touched(t)' = {a}
    BY <1>3, <1>10, <1>13, <2>3, <2>4 DEF Touched
  <2>6. Forgotten(a)'
    BY <1>0, <1>2, <2>1 DEF Sound, Probing, Forgotten
  <2>7. Noted(t)'
    <3>1. ~calls[t][1].traced
      BY <1>2, <2>1 DEF Sound, Nested
    <3>2. g.plain => t \notin DOMAIN sizes
      BY <1>2, <1>3, <1>4, <1>5, <2>1, <3>1 DEF Sound, Noted
    <3>3. g.plain => (t \in DOMAIN sizes' <=> g.traced)
      BY <1>9, <1>17, <3>2
    <3>4. g.plain /\ t \in DOMAIN sizes' => sizes'[t] = g.size
      BY <1>17, <3>2
    <3>. QED
      BY <1>7, <1>8, <1>13, <3>3, <3>4 DEF Noted
  <2>8. Given(t)'
    <3>1. options.kernel => heap[a] = NewBlock(Frame(t))
      BY <1>0, <1>2, <1>3, <2>1 DEF Sound, Given
    <3>2. options.kernel => heap'[a] = NewBlock(g)
      BY <1>4, <1>5, <1>15, <2>2, <3>1, SeenBlock
    <3>3. NewBlock(g)' = NewBlock(g)
      BY DEF NewBlock
    <3>4. NewBlock(Frame(t))' = NewBlock(g)
      BY <1>8 DEF NewBlock
    <3>. QED
      BY <1>2, <1>13, <3>2, <3>4 DEF Given, InCall, Before
  <2>9. Sound(t)'
    <3>1. Owned(t)' /\ Nested(t)' /\ Counting(t)'
      BY <1>2, <1>7, <1>8, <1>9, <1>10, <1>13, <1>15, <2>2, <2>3, <2>5
         DEF Owned, Nested, Counting, InCall, Before
    <3>2. Probing(t)'
      BY <1>10, <1>13, <2>3, <2>4, <2>6 DEF Probing, Forgotten
    <3>. QED
      BY <2>7, <2>8, <3>1, <3>2 DEF Sound
  <2>10. Listed(a)' /\ Kept(a)'
    <3>1. Listed(a)'
      <4>1. CASE a \in missed'
        BY <4>1 DEF Listed
      <4>2. CASE \A k \in linked' : entry'[k].addr # a
        BY <4>2 DEF Listed
      <4>. QED
        BY <2>6, <4>1, <4>2 DEF Forgotten
    <3>. QED
      BY <2>5, <3>1 DEF Kept
  <2>11. \A b \in Addresses \ {a} : Same(b)
    BY <1>2, <1>15 DEF Same
  <2>12. \A u \in Threads \ {t} : Touched(u) \cap {a} = {}
    BY <2>1, <2>2 DEF Told, Apart
  <2>. QED
    BY <1>2, <1>13, <1>17, <1>18, <2>1, <2>2, <2>5, <2>9, <2>10, <2>11, <2>12, FrameRule
<1>. QED
  BY <1>18, <1>19 DEF IInv

-----------------------------------------------------------------------------
(* Calls that return *)

LEMMA FrameChanged ==
  ASSUME Shape, NEW t \in Threads, calls[t] # <<>>, NEW g \in Frames,
         calls' = [calls EXCEPT ![t][Len(calls[t])] = g]
  PROVE  /\ calls' \in [Threads -> Seq(Frames)]
         /\ \A u \in Threads \ {t} : calls'[u] = calls[u]
         /\ Len(calls'[t]) = Len(calls[t]) /\ DOMAIN calls'[t] = DOMAIN calls[t]
         /\ Len(calls'[t]) <= 2 /\ calls'[t] # <<>> /\ Frame(t)' = g
         /\ \A i \in 1 .. Len(calls[t]) - 1 : calls'[t][i] = calls[t][i]
<1>1. /\ calls' \in [Threads -> Seq(Frames)]
      /\ \A u \in Threads \ {t} : calls'[u] = calls[u]
      /\ Len(calls'[t]) = Len(calls[t])
      /\ \A i \in 1 .. Len(calls[t]) - 1 : calls'[t][i] = calls[t][i]
      /\ calls'[t][Len(calls[t])] = g
  BY Changed, Zenon DEF Shape
<1>2. calls[t] \in Seq(Frames) /\ Len(calls[t]) <= 2
  BY DEF Shape, TypeOK
<1>3. calls'[t] \in Seq(Frames)
  BY <1>1
<1>4. DOMAIN calls'[t] = DOMAIN calls[t]
  BY <1>1, <1>2, <1>3
<1>5. calls'[t] # <<>>
  BY <1>1, <1>2, <1>3
<1>6. Frame(t)' = g /\ Len(calls'[t]) <= 2
  BY <1>1, <1>2 DEF Frame
<1>. QED
  BY <1>1, <1>4, <1>5, <1>6, Zenon

Dropped(f) == [f EXCEPT !.old = Null]

LEMMA DroppedFrame ==
  ASSUME NEW f \in Frames
  PROVE  /\ Dropped(f) \in Frames /\ Dropped(f).old = Null /\ NewBlock(Dropped(f)) = NewBlock(f)
         /\ Dropped(f).size = f.size /\ Dropped(f).plain = f.plain /\ Dropped(f).traced = f.traced
         /\ NewBlock(f) \in Blocks
BY DEF Frames, Blocks, Dropped, NewBlock

LEMMA ReturnIInv ==
  ASSUME IInv, NEW t \in Threads, Return(t)
  PROVE  IInv'
<1>0. PICK f : f = Frame(t)
  OBVIOUS
<1>1. PICK a \in (Addresses \ DOMAIN heap) \cup ({f.old} \ {Null}) :
        /\ heap' = With(Without(f.old), a, NewBlock(f))
        /\ job' = [job EXCEPT ![t] = [NoJob EXCEPT !.addr = a]]
  BY <1>0, Zenon DEF Return
<1>2. Shape /\ User /\ Idle(t) /\ calls[t] # <<>>
      /\ step' = [step EXCEPT ![t] = "exit"]
      /\ calls' = [calls EXCEPT ![t][Len(calls[t])].old = Null]
      /\ UNCHANGED <<options, missed, sizes, memptrs, entry, linked, combined, anomaly>>
  BY DEF IInv, Return
<1>3. f \in Frames
  BY <1>0, <1>2, Calls DEF Shape
<1>4. PICK g \in Frames : g = Dropped(f) /\ g.old = Null /\ NewBlock(g) = NewBlock(f)
                          /\ g.size = f.size /\ g.plain = f.plain /\ g.traced = f.traced
  BY <1>3, DroppedFrame, Zenon
<1>5. calls' = [calls EXCEPT ![t][Len(calls[t])] = g]
  BY <1>0, <1>2, <1>4 DEF Dropped, Frame
<1>6. /\ calls' \in [Threads -> Seq(Frames)]
      /\ \A u \in Threads \ {t} : calls'[u] = calls[u]
      /\ Len(calls'[t]) = Len(calls[t]) /\ DOMAIN calls'[t] = DOMAIN calls[t]
      /\ Len(calls'[t]) <= 2 /\ calls'[t] # <<>> /\ Frame(t)' = g
      /\ \A i \in 1 .. Len(calls[t]) - 1 : calls'[t][i] = calls[t][i]
  BY <1>2, <1>5, FrameChanged, Zenon
<1>7. a \in Addresses /\ a # Null
  BY <1>3, NullAssumption DEF Frames
<1>8. [NoJob EXCEPT !.addr = a] \in Jobs /\ [NoJob EXCEPT !.addr = a].addr = a
  BY <1>7, NoJobIsOne, SizesAssumption DEF NoJob, Jobs, Steps
<1>9. Moves(t) /\ OnlyThread(t) /\ step'[t] = "exit" /\ job'[t].addr = a
  <2>. DEFINE j == [NoJob EXCEPT !.addr = a]
  <2>. HIDE DEF j
  <2>1. j \in Jobs /\ j.addr = a /\ job' = [job EXCEPT ![t] = j]
    BY <1>1, <1>8 DEF j
  <2>. QED
    BY <1>2, <1>6, <2>1 DEF Shape, TypeOK, Moves, OnlyThread, Steps
<1>10. Position(t)'
  BY <1>6, <1>9 DEF Position, Before, InCall, Idle
<1>11. /\ DOMAIN heap' = {a} \cup (DOMAIN heap \ {f.old}) /\ heap'[a] = NewBlock(f)
       /\ \A b \in DOMAIN heap \ {a, f.old} : heap'[b] = heap[b]
  <2>1. DOMAIN Without(f.old) = DOMAIN heap \ {f.old}
        /\ \A b \in DOMAIN heap \ {f.old} : Without(f.old)[b] = heap[b]
    BY Cut DEF Without
  <2>2. PICK w : w = Without(f.old)
    OBVIOUS
  <2>3. /\ DOMAIN heap' = {a} \cup DOMAIN w /\ heap'[a] = NewBlock(f)
        /\ \A b \in DOMAIN w : b # a => heap'[b] = w[b]
    <3>1. heap' = With(w, a, NewBlock(f))
      BY <1>1, <2>2
    <3>. QED
      BY <3>1, Zenon DEF With
  <2>. QED
    BY <2>1, <2>2, <2>3
<1>12. HeapOK'
  <2>1. NewBlock(f) \in Blocks
    BY <1>3, DroppedFrame
  <2>. QED
    BY <1>2, <1>7, <1>11, <2>1 DEF Shape, TypeOK, HeapOK
<1>13. Shape'
  <2>1. SizesOK' /\ MemptrsOK' /\ EntryOK' /\ CombinedOK' /\ Rest'
        /\ \A k \in Slots : entry[k] \in Records => entry'[k] \in Records
    BY <1>2, Unchanged
  <2>. QED
    BY <1>2, <1>6, <1>9, <1>10, <1>12, <2>1, ShapeOf, Zenon
<1>14. Truth'
  <2>. SUFFICES ASSUME Exact' PROVE Truth'
    BY Vacuous
  <2>1. Told /\ Sound(t)
    BY <1>2, Knowing DEF IInv, Told
  <2>2. Touched(t) = Olds(t) /\ Olds(t) \subseteq DOMAIN heap /\ Olds(t) \subseteq Addresses
    BY <1>2, <2>1 DEF Touched, Sound, Owned, Idle, Shape, Position, TypeOK
  <2>3. f.old # Null => f.old \in Olds(t)
    BY <1>0, <1>2, InnermostIsOld
  <2>4. Olds(t)' = Olds(t) \ {f.old}
    <3>1. Len(calls[t]) \in 1 .. 2 /\ DOMAIN calls[t] = 1 .. Len(calls[t])
      BY <1>2, Calls DEF Shape
    <3>2. CASE Len(calls[t]) = 1
      <4>1. calls[t][1] = f /\ calls'[t][1] = g /\ DOMAIN calls[t] = {1} /\ DOMAIN calls'[t] = {1}
        BY <1>0, <1>6, <3>1, <3>2 DEF Frame
      <4>. QED
        BY <1>4, <4>1 DEF Olds
    <3>3. CASE Len(calls[t]) = 2
      <4>1. /\ calls[t][2] = f /\ calls'[t][2] = g /\ calls'[t][1] = calls[t][1]
            /\ DOMAIN calls[t] = {1, 2} /\ DOMAIN calls'[t] = {1, 2}
        BY <1>0, <1>6, <3>1, <3>3 DEF Frame
      <4>2. f.old = Null
        BY <2>1, <3>3, <4>1 DEF Sound, Nested
      <4>. QED
        BY <1>4, <4>1, <4>2 DEF Olds
    <3>. QED
      BY <3>1, <3>2, <3>3
  <2>5. Touched(t)' = (Olds(t) \ {f.old}) \cup {a}
    BY <1>7, <1>9, <2>4 DEF Touched
  <2>6. a \in DOMAIN heap => a = f.old
    BY <1>1
  <2>7. a \notin Olds(t)' /\ Touched(t)' \subseteq DOMAIN heap'
    BY <1>11, <2>2, <2>4, <2>5, <2>6
  <2>8. \A x \in Olds(t) \cup {a} : Forgotten(x)
    <3>1. \A x \in Olds(t) : Forgotten(x)
      BY <1>2, <2>1 DEF Sound, Probing, Idle
    <3>2. a \notin DOMAIN heap => Forgotten(a)
      BY <1>7, <2>1 DEF Told, Listed, Forgotten
    <3>. QED
      BY <1>7, <2>3, <2>6, <3>1, <3>2
  <2>9. Noted(t)'
    <3>1. Len(calls[t]) \in 1 .. 2
      BY <1>2, Calls DEF Shape
    <3>2. CASE Len(calls[t]) = 1
      <4>1. calls[t][1] = f /\ calls'[t][1] = g
        BY <1>0, <1>6, <3>2 DEF Frame
      <4>2. f.plain => /\ t \in DOMAIN sizes <=> f.traced
                       /\ t \in DOMAIN sizes => sizes[t] = f.size
        BY <1>2, <2>1, <3>2, <4>1 DEF Sound, Noted, Idle
      <4>3. g.plain => /\ t \in DOMAIN sizes' <=> g.traced
                       /\ t \in DOMAIN sizes' => sizes'[t] = g.size
        BY <1>2, <1>4, <4>2, Zenon
      <4>4. Len(calls'[t]) # 2 /\ step'[t] \notin {"record", "count"}
        BY <1>6, <1>9, <3>2
      <4>. QED
        BY <1>6, <4>1, <4>3, <4>4 DEF Noted
    <3>3. CASE Len(calls[t]) = 2
      <4>1. calls[t][2] = f /\ calls'[t][2] = g /\ calls'[t][1] = calls[t][1]
        BY <1>0, <1>6, <3>3 DEF Frame
      <4>. QED
        BY <1>2, <1>4, <1>6, <1>9, <2>1, <3>3, <4>1 DEF Sound, Noted, Idle
    <3>. QED
      BY <3>1, <3>2, <3>3
  <2>10. Given(t)'
    <3>1. NewBlock(Frame(t))' = NewBlock(g)
      BY <1>6 DEF NewBlock
    <3>. QED
      BY <1>4, <1>9, <1>11, <3>1 DEF Given
  <2>11. Nested(t)'
    <3>1. Len(calls'[t]) = 2 => calls'[t][2].old = Null
      BY <1>4, <1>6 DEF Frame
    <3>. QED
      BY <1>2, <1>4, <1>6, <1>9, <3>1 DEF Nested, Before, User
  <2>12. Sound(t)'
    <3>1. Owned(t)' /\ Counting(t)'
      BY <1>9, <2>7 DEF Owned, Counting
    <3>2. Probing(t)'
      BY <1>2, <1>9, <2>4, <2>8 DEF Probing, Forgotten
    <3>. QED
      BY <2>9, <2>10, <2>11, <3>1, <3>2 DEF Sound
  <2>13. ASSUME NEW x \in Addresses \cap (Touched(t) \cup {a}) PROVE Listed(x)' /\ Kept(x)'
    <3>1. CASE x = a
      BY <1>7, <1>9, <1>11, <3>1, Probed
    <3>2. CASE x # a
      <4>1. Forgotten(x)
        BY <2>2, <2>8, <3>2
      <4>2. Listed(x)'
        BY <1>2, <4>1 DEF Listed, Forgotten
      <4>3. Kept(x)'
        BY <1>11, <2>2, <2>5, <3>2 DEF Kept
      <4>. QED
        BY <4>2, <4>3
    <3>. QED
      BY <3>1, <3>2
  <2>14. \A b \in Addresses \ (Touched(t) \cup {a}) : Same(b)
    BY <1>2, <1>11, <2>2, <2>3, NullAssumption DEF Same
  <2>15. \A u \in Threads \ {t} : Touched(u) \cap (Touched(t) \cup {a}) = {}
    <3>1. a \in DOMAIN heap => a \in Touched(t)
      BY <1>7, <2>2, <2>3, <2>6
    <3>2. a \notin DOMAIN heap => \A u \in Threads : a \notin Touched(u)
      BY <1>7, <2>1, NewIsFree
    <3>. QED
      BY <2>1, <3>1, <3>2 DEF Told, Apart
  <2>16. SizesOfOthers(t)
    BY <1>2 DEF SizesOfOthers
  <2>17. Touched(t)' \subseteq Touched(t) \cup {a}
    BY <2>2, <2>5
  <2>. QED
    BY <1>2, <1>9, <1>13, <2>1, <2>12, <2>13, <2>14, <2>15, <2>16, <2>17, FrameRule
<1>. QED
  BY <1>13, <1>14 DEF IInv

LEMMA ReturnFailureIInv ==
  ASSUME IInv, NEW t \in Threads, ReturnFailure(t)
  PROVE  IInv'
<1>0. PICK f : f = Frame(t)
  OBVIOUS
<1>1. PICK a \in {Null} \cup (IF f.kind = "memalign" THEN Addresses ELSE {}) :
        /\ heap' = IF f.old = Null THEN heap ELSE [heap EXCEPT ![f.old].plain = FALSE]
        /\ job' = [job EXCEPT ![t] = [NoJob EXCEPT !.addr = a]]
        /\ anomaly' = IF a = Null THEN anomaly ELSE anomaly \cup {"failed memalign"}
  BY <1>0, Zenon DEF ReturnFailure
<1>2. Shape /\ User /\ Idle(t) /\ calls[t] # <<>>
      /\ step' = [step EXCEPT ![t] = "exit"]
      /\ UNCHANGED <<options, missed, calls, sizes, memptrs, entry, linked, combined>>
  BY DEF IInv, ReturnFailure
<1>3. a \in Addresses \cup {Null} /\ anomaly \subseteq anomaly'
      /\ (Exact' => a = Null) /\ Rest'
  BY <1>1, <1>2 DEF Exact, Rest, Shape, TypeOK, Anomalies
<1>4. [NoJob EXCEPT !.addr = a] \in Jobs /\ [NoJob EXCEPT !.addr = a].addr = a
  BY <1>3, NoJobIsOne, SizesAssumption DEF NoJob, Jobs, Steps
<1>5. Moves(t) /\ OnlyThread(t) /\ step'[t] = "exit" /\ job'[t].addr = a
  <2>. DEFINE j == [NoJob EXCEPT !.addr = a]
  <2>. HIDE DEF j
  <2>1. j \in Jobs /\ j.addr = a /\ job' = [job EXCEPT ![t] = j]
    BY <1>1, <1>4 DEF j
  <2>. QED
    BY <1>2, <2>1 DEF Shape, TypeOK, Moves, OnlyThread, Steps
<1>6. Position(t)'
  BY <1>2, <1>5 DEF Position, Before, InCall, Idle
<1>7. /\ DOMAIN heap' = DOMAIN heap /\ \A b \in DOMAIN heap \ {f.old} : heap'[b] = heap[b]
      /\ f.old # Null /\ f.old \in DOMAIN heap => heap'[f.old] = Spoiled(heap[f.old])
      /\ f.old = Null => heap' = heap
  BY <1>1 DEF Spoiled
<1>8. HeapOK' /\ (f.old # Null /\ f.old \in DOMAIN heap => ~heap'[f.old].plain)
  <2>1. \A b \in DOMAIN heap : heap[b] \in Blocks
    BY <1>2 DEF Shape, TypeOK
  <2>2. f.old # Null /\ f.old \in DOMAIN heap => heap'[f.old] \in Blocks /\ ~heap'[f.old].plain
    BY <1>7, <2>1, SpoiledBlock, Zenon
  <2>. QED
    BY <1>2, <1>7, <2>1, <2>2 DEF Shape, TypeOK, HeapOK
<1>9. calls' \in [Threads -> Seq(Frames)] /\ Len(calls'[t]) <= 2
  BY <1>2 DEF Shape, TypeOK
<1>10. Shape'
  <2>1. SizesOK' /\ MemptrsOK' /\ EntryOK' /\ CombinedOK'
        /\ \A k \in Slots : entry[k] \in Records => entry'[k] \in Records
    BY <1>2, Unchanged
  <2>. QED
    BY <1>2, <1>3, <1>5, <1>6, <1>8, <1>9, <2>1, ShapeOf, Zenon
<1>11. Truth'
  <2>. SUFFICES ASSUME Exact' PROVE Truth'
    BY Vacuous
  <2>1. Told /\ Sound(t) /\ a = Null
    BY <1>2, <1>3, Knowing DEF IInv, Told
  <2>2. Touched(t) = Olds(t) /\ Olds(t) \subseteq DOMAIN heap /\ Olds(t) \subseteq Addresses
    BY <1>2, <2>1 DEF Touched, Sound, Owned, Idle, Shape, Position, TypeOK
  <2>3. f.old # Null => f.old \in Olds(t)
    BY <1>0, <1>2, InnermostIsOld
  <2>4. Olds(t)' = Olds(t) /\ Touched(t)' = Touched(t) /\ Frame(t)' = f
    BY <1>0, <1>2, <1>5, <2>1, <2>2 DEF Olds, Touched, Frame
  <2>5. \A x \in Olds(t) : Forgotten(x)
    BY <1>2, <2>1 DEF Sound, Probing, Idle
  <2>6. Nested(t)'
    <3>1. f.old # Null => ~heap'[f.old].plain
      BY <1>8, <2>2, <2>3
    <3>. QED
      BY <1>2, <1>5, <2>1, <2>4, <3>1 DEF Sound, Nested, Before, User
  <2>7. Sound(t)'
    <3>1. Owned(t)' /\ Noted(t)' /\ Given(t)' /\ Counting(t)'
      BY <1>2, <1>5, <1>7, <2>1, <2>2, <2>4, NullAssumption
         DEF Sound, Owned, Noted, Given, Counting, Idle, Olds
    <3>2. Probing(t)'
      BY <1>2, <1>5, <1>10, <2>1, <2>4, <2>5, NullForgotten DEF Probing, Forgotten
    <3>. QED
      BY <2>6, <3>1, <3>2 DEF Sound
  <2>8. ASSUME NEW x \in Addresses \cap Touched(t) PROVE Listed(x)' /\ Kept(x)'
    <3>1. Forgotten(x) /\ x \in Touched(t)'
      BY <2>2, <2>4, <2>5
    <3>. QED
      BY <1>2, <3>1 DEF Listed, Forgotten, Kept
  <2>9. \A b \in Addresses \ Touched(t) : Same(b)
    BY <1>2, <1>7, <2>2, <2>3, NullAssumption DEF Same
  <2>10. \A u \in Threads \ {t} : Touched(u) \cap Touched(t) = {}
    BY <2>1 DEF Told, Apart
  <2>11. SizesOfOthers(t)
    BY <1>2 DEF SizesOfOthers
  <2>. QED
    BY <1>2, <1>3, <1>5, <1>10, <2>1, <2>4, <2>7, <2>8, <2>9, <2>10, <2>11, FrameRule
<1>. QED
  BY <1>10, <1>11 DEF IInv

-----------------------------------------------------------------------------
(* Calls that end *)

LEMMA Ends ==
  ASSUME Shape, NEW t \in Threads, calls[t] # <<>>, Pop(t), Done(t)
  PROVE  /\ Moves(t) /\ OnlyThread(t) /\ step'[t] = "idle" /\ job'[t].addr = Null
         /\ Position(t)' /\ calls' \in [Threads -> Seq(Frames)] /\ Len(calls'[t]) <= 2
<1>1. Moves(t) /\ step'[t] = "idle" /\ job'[t].addr = Null
  BY DoneMoves, NoJobIsOne DEF Shape
<1>2. Len(calls[t]) \in 0 .. 2
  BY Calls DEF Shape
<1>3. /\ calls' \in [Threads -> Seq(Frames)]
      /\ \A u \in Threads \ {t} : calls'[u] = calls[u]
      /\ Len(calls'[t]) = Len(calls[t]) - 1
  BY Popped DEF Shape
<1>4. OnlyThread(t)
  BY <1>1, <1>3 DEF OnlyThread, Moves
<1>5. Position(t)'
  BY <1>1 DEF Position, Before, InCall, Idle
<1>6. Len(calls'[t]) <= 2
  <2>1. \A n \in 0 .. 2 : n - 1 <= 2
    OBVIOUS
  <2>. QED
    BY <1>2, <1>3, <2>1, Zenon
<1>. QED
  BY <1>1, <1>3, <1>4, <1>5, <1>6, Zenon

LEMMA Outer ==
  ASSUME Shape, NEW t \in Threads, calls[t] # <<>>, Pop(t), Nested(t)
  PROVE  /\ Olds(t)' \subseteq Olds(t) /\ \A x \in Olds(t) \ Olds(t)' : x = Frame(t).old
         /\ \/ Len(calls[t]) = 1 /\ Frame(t) = calls[t][1]
               /\ calls'[t] = <<>> /\ Len(calls'[t]) = 0
            \/ Len(calls[t]) = 2 /\ Frame(t) = calls[t][2]
               /\ Len(calls'[t]) = 1 /\ calls'[t][1] = calls[t][1]
<1>1. /\ Len(calls[t]) \in 1 .. 2 /\ DOMAIN calls[t] = 1 .. Len(calls[t])
  BY Calls DEF Shape
<1>2. /\ calls' \in [Threads -> Seq(Frames)]
      /\ Len(calls'[t]) = Len(calls[t]) - 1
      /\ \A i \in 1 .. Len(calls[t]) - 1 : calls'[t][i] = calls[t][i]
  BY Popped DEF Shape
<1>3. calls'[t] \in Seq(Frames) /\ DOMAIN calls'[t] = 1 .. Len(calls'[t])
  <2>1. \A q \in Seq(Frames) : DOMAIN q = 1 .. Len(q)
    OBVIOUS
  <2>2. calls'[t] \in Seq(Frames)
    BY <1>2
  <2>. QED
    BY <2>1, <2>2
<1>4. CASE Len(calls[t]) = 1
  <2>1. DOMAIN calls[t] = {1} /\ Frame(t) = calls[t][1]
    BY <1>1, <1>4 DEF Frame
  <2>2. Len(calls'[t]) = 0 /\ calls'[t] = <<>>
    BY <1>2, <1>3, <1>4
  <2>3. DOMAIN calls'[t] = {}
    BY <1>3, <2>2
  <2>. QED
    BY <1>4, <2>1, <2>2, <2>3 DEF Olds
<1>5. CASE Len(calls[t]) = 2
  <2>1. DOMAIN calls[t] = {1, 2} /\ Frame(t) = calls[t][2]
    BY <1>1, <1>5 DEF Frame
  <2>2. Len(calls'[t]) = 1 /\ calls'[t][1] = calls[t][1]
    BY <1>2, <1>5
  <2>3. DOMAIN calls'[t] = {1}
    BY <1>3, <2>2
  <2>4. calls[t][2].old = Null
    BY <1>5 DEF Nested
  <2>. QED
    BY <1>5, <2>1, <2>2, <2>3, <2>4 DEF Olds
<1>. QED
  BY <1>1, <1>4, <1>5

LEMMA Forgetting ==
  ASSUME Shape, NEW t \in Threads, memptrs' = memptrs \ {t}
  PROVE  MemptrsOK'
<1>1. IsFiniteSet(memptrs \ {t}) /\ Cardinality(memptrs \ {t}) <= Cardinality(memptrs)
  BY FS_Subset DEF Shape, Finite
<1>2. Cardinality(memptrs \ {t}) \in Nat /\ Cardinality(memptrs) \in Nat
  BY <1>1, FS_CardinalityType DEF Shape, Finite
<1>3. MaxThreads \in Nat /\ Cardinality(memptrs) <= MaxThreads
  BY LimitsAssumption DEF Shape, TypeOK
<1>4. Cardinality(memptrs \ {t}) <= MaxThreads
  BY <1>1, <1>2, <1>3
<1>. QED
  BY <1>1, <1>4 DEF Shape, TypeOK, MemptrsOK

LEMMA MemalignExitEarlyIInv ==
  ASSUME IInv, NEW t \in Threads, MemalignExitEarly(t)
  PROVE  IInv'
<1>1. /\ Shape /\ step[t] = "exit" /\ memptrs' = memptrs \ {t}
      /\ anomaly' = anomaly \cup {"stale size"} /\ Pop(t) /\ Done(t)
      /\ UNCHANGED <<options, heap, missed, sizes, entry, linked, combined>>
  BY DEF IInv, MemalignExitEarly
<1>2. calls[t] # <<>>
  BY <1>1 DEF Shape, Position, InCall
<1>3. /\ Moves(t) /\ OnlyThread(t) /\ Position(t)'
      /\ calls' \in [Threads -> Seq(Frames)] /\ Len(calls'[t]) <= 2
  BY <1>1, <1>2, Ends, Zenon
<1>4. MemptrsOK'
  BY <1>1, Forgetting
<1>5. Rest'
  BY <1>1 DEF Shape, TypeOK, Rest, Anomalies
<1>6. Shape'
  <2>1. HeapOK' /\ SizesOK' /\ EntryOK' /\ CombinedOK'
        /\ \A k \in Slots : entry[k] \in Records => entry'[k] \in Records
    BY <1>1, Unchanged
  <2>. QED
    BY <1>1, <1>3, <1>4, <1>5, <2>1, ShapeOf, Zenon
<1>7. Truth'
  BY <1>1 DEF Truth, Exact
<1>. QED
  BY <1>6, <1>7 DEF IInv

(* The return probe looks for the size, and finds it or not.               *)
LEMMA ExitIInv ==
  ASSUME IInv, NEW t \in Threads, step[t] = "exit", TakesSize(t, job[t].addr), MemptrsOK',
         UNCHANGED <<options, heap, missed, entry, linked, combined, anomaly>>
  PROVE  IInv'
<1>0. PICK a : a = job[t].addr
  OBVIOUS
<1>1. Shape /\ calls[t] # <<>> /\ a \in Addresses \cup {Null}
      /\ UNCHANGED <<options, heap, missed, entry, linked, combined, anomaly>>
  BY <1>0 DEF IInv, Shape, Position, InCall, TypeOK, Jobs
<1>2. /\ sizes' = Restrict(sizes, DOMAIN sizes \ {t})
      /\ IF t \in DOMAIN sizes /\ a # Null THEN Holds(t, a) ELSE Pop(t) /\ Done(t)
  BY <1>0 DEF TakesSize
<1>3. SizesOK' /\ SizesOfOthers(t) /\ t \notin DOMAIN sizes'
  BY <1>1, <1>2, Taking DEF Shape, SizesOK, SizesOfOthers
<1>4. /\ HeapOK' /\ EntryOK' /\ CombinedOK' /\ Rest'
      /\ \A k \in Slots : entry[k] \in Records => entry'[k] \in Records
  BY <1>1, Unchanged
<1>5. ASSUME Told PROVE /\ Sound(t) /\ Apart
                        /\ \A x \in Touched(t) : Forgotten(x)
                        /\ \A u \in Threads \ {t} : Touched(u) \cap Touched(t) = {}
                        /\ \A x \in Addresses \cap Touched(t) : Listed(x)'
                        /\ \A b : Same(b)
  <2>1. Sound(t) /\ Apart
    BY <1>5 DEF Told
  <2>2. \A x \in Touched(t) : Forgotten(x)
    BY <2>1 DEF Sound, Probing, Touched
  <2>3. \A x \in Touched(t) : Listed(x)'
    BY <1>1, <2>2 DEF Listed, Forgotten
  <2>. QED
    BY <1>1, <2>1, <2>2, <2>3, SameAll DEF Apart
<1>6. CASE Holds(t, a) /\ t \in DOMAIN sizes /\ a # Null
  <2>1. PICK j \in Jobs : /\ j.addr = a /\ j.size = sizes[t] /\ j.stack = Frame(t).stack
                          /\ job' = [job EXCEPT ![t] = j]
    <3>1. sizes[t] \in Sizes /\ Frame(t).stack \in Stacks /\ job[t] \in Jobs
      BY <1>1, <1>6, Calls, SizesAssumption DEF Shape, TypeOK, Frames
    <3>2. job \in [Threads -> Jobs]
      BY <1>1 DEF Shape, TypeOK
    <3>3. PICK j : j = [job[t] EXCEPT !.addr = a, !.size = sizes[t], !.stack = Frame(t).stack]
      OBVIOUS
    <3>4. j \in Jobs /\ j.addr = a /\ j.size = sizes[t] /\ j.stack = Frame(t).stack
      BY <1>1, <3>1, <3>3 DEF Jobs
    <3>5. job' = [job EXCEPT ![t] = [job[t] EXCEPT !.addr = a, !.size = sizes[t],
                                                   !.stack = Frame(t).stack]]
      BY <1>6, <3>2 DEF Holds
    <3>. QED
      BY <3>3, <3>4, <3>5
  <2>2. step' = [step EXCEPT ![t] = "record"] /\ calls' = calls
    BY <1>6 DEF Holds
  <2>3. Moves(t) /\ OnlyThread(t) /\ step'[t] = "record" /\ job'[t] = j
    BY <1>1, <2>1, <2>2 DEF Shape, TypeOK, Moves, OnlyThread, Steps
  <2>4. Frame(t).stack \in Stacks
    BY <1>1, Calls DEF Shape, Frames
  <2>5. Position(t)'
    BY <1>1, <1>6, <2>1, <2>2, <2>3, <2>4 DEF Position, Before, InCall, Idle
  <2>6. calls' \in [Threads -> Seq(Frames)] /\ Len(calls'[t]) <= 2
    BY <1>1, <2>2 DEF Shape, TypeOK
  <2>7. Shape'
    BY <1>1, <1>3, <1>4, <2>3, <2>5, <2>6, ShapeOf, Zenon
  <2>8. Truth'
    <3>. SUFFICES ASSUME Exact' PROVE Truth'
      BY Vacuous
    <3>1. Told
      BY <1>1, Knowing DEF IInv
    <3>2. Sound(t)
      BY <1>5, <3>1
    <3>3. Olds(t)' = Olds(t) /\ Touched(t)' = Touched(t) /\ Frame(t)' = Frame(t)
          /\ NewBlock(Frame(t))' = NewBlock(Frame(t))
      BY <1>0, <2>1, <2>2, <2>3 DEF Olds, Touched, Frame, NewBlock
    <3>4. heap[a] = NewBlock(Frame(t))
      BY <1>0, <1>6, <3>2 DEF Sound, Given, InCall
    <3>5. heap[a].plain => heap[a].traced /\ sizes[t] = heap[a].size
      <4>1. /\ Len(calls[t]) \in 1 .. 2
        BY <1>1, Calls DEF Shape
      <4>2. heap[a].plain = Frame(t).plain /\ heap[a].traced = Frame(t).traced
            /\ heap[a].size = Frame(t).size
        BY <3>4 DEF NewBlock
      <4>3. Frame(t) = calls[t][1] \/ ~Frame(t).plain
        BY <3>2, <4>1 DEF Frame, Sound, Noted
      <4>4. Frame(t).plain => Len(calls[t]) = 1 /\ Frame(t) = calls[t][1]
        BY <3>2, <4>1, <4>3 DEF Frame, Sound, Noted
      <4>5. Frame(t).plain => Frame(t).traced /\ sizes[t] = Frame(t).size
        BY <1>6, <3>2, <4>4 DEF Sound, Noted
      <4>. QED
        BY <4>2, <4>5, Zenon
    <3>6. Given(t)'
      <4>1. j.stack = heap[a].stack
        BY <2>1, <3>4 DEF NewBlock
      <4>2. Good(j.size, j.stack, heap[a])
        BY <2>1, <3>5, <4>1, Zenon DEF Good
      <4>. QED
        BY <1>1, <2>1, <2>3, <3>3, <3>4, <4>2 DEF Given
    <3>7. Owned(t)' /\ Nested(t)' /\ Noted(t)' /\ Counting(t)'
      BY <1>0, <1>1, <1>3, <2>1, <2>2, <2>3, <3>2, <3>3
         DEF Sound, Owned, Nested, Noted, Counting, InCall, Before, User
    <3>8. Probing(t)'
      BY <1>0, <1>1, <2>1, <2>3, <3>2, <3>3 DEF Sound, Probing, Forgotten
    <3>9. Sound(t)'
      BY <3>6, <3>7, <3>8 DEF Sound
    <3>10. \A x \in Addresses \cap Touched(t) : Kept(x)'
      BY <3>3 DEF Kept
    <3>. QED
      BY <1>1, <1>3, <1>5, <2>3, <2>7, <3>1, <3>3, <3>9, <3>10, FrameRule
  <2>. QED
    BY <2>7, <2>8 DEF IInv
<1>7. CASE Pop(t) /\ Done(t) /\ ~(t \in DOMAIN sizes /\ a # Null)
  <2>1. /\ Moves(t) /\ OnlyThread(t) /\ step'[t] = "idle" /\ job'[t].addr = Null
        /\ Position(t)' /\ calls' \in [Threads -> Seq(Frames)] /\ Len(calls'[t]) <= 2
    BY <1>1, <1>7, Ends, Zenon
  <2>2. Shape'
    BY <1>1, <1>3, <1>4, <2>1, ShapeOf, Zenon
  <2>3. Truth'
    <3>. SUFFICES ASSUME Exact' PROVE Truth'
      BY Vacuous
    <3>1. Told
      BY <1>1, Knowing DEF IInv
    <3>2. Sound(t)
      BY <1>5, <3>1
    <3>3. /\ Olds(t)' \subseteq Olds(t) /\ \A x \in Olds(t) \ Olds(t)' : x = Frame(t).old
          /\ \/ Len(calls[t]) = 1 /\ Frame(t) = calls[t][1]
                /\ calls'[t] = <<>> /\ Len(calls'[t]) = 0
             \/ Len(calls[t]) = 2 /\ Frame(t) = calls[t][2]
                /\ Len(calls'[t]) = 1 /\ calls'[t][1] = calls[t][1]
      <4>1. Nested(t)
        BY <3>2 DEF Sound
      <4>. QED
        BY <1>1, <1>7, <4>1, Outer, Zenon
    <3>4. Touched(t)' = Olds(t)' /\ Touched(t)' \subseteq Touched(t)
          /\ Touched(t) \subseteq Olds(t) \cup {a}
      BY <1>0, <2>1, <3>3 DEF Touched
    <3>5. Owned(t)' /\ Given(t)' /\ Counting(t)'
      BY <1>1, <2>1, <3>2, <3>4 DEF Sound, Owned, Given, Counting, InCall, Before
    <3>6. Nested(t)' /\ Noted(t)'
      BY <1>1, <1>3, <2>1, <3>2, <3>3 DEF Sound, Nested, Noted, InCall, Before
    <3>7. Probing(t)'
      <4>1. \A x \in Olds(t)' : Forgotten(x)
        BY <1>5, <3>1, <3>4
      <4>. QED
        BY <1>1, <2>1, <4>1 DEF Probing, Forgotten
    <3>8. Sound(t)'
      BY <3>5, <3>6, <3>7 DEF Sound
    <3>9. ASSUME NEW x \in Addresses \cap Touched(t) PROVE Kept(x)'
      <4>1. CASE x \in Olds(t)'
        BY <3>4, <4>1 DEF Kept
      <4>2. CASE x \in Olds(t) \ Olds(t)'
        <5>1. x = Frame(t).old /\ x # Null
          BY <3>3, <4>2, NullAssumption
        <5>2. ~heap[x].plain
          BY <3>2, <5>1 DEF Sound, Nested, InCall
        <5>. QED
          BY <1>1, <5>2 DEF Kept, Wanted
      <4>3. CASE x = a
        <5>1. a # Null /\ t \notin DOMAIN sizes
          BY <1>7, <4>3, NullAssumption
        <5>2. heap[a] = NewBlock(Frame(t))
          BY <1>0, <3>2, <5>1 DEF Sound, Given, InCall
        <5>3. heap[a].plain = Frame(t).plain /\ heap[a].traced = Frame(t).traced
          BY <5>2 DEF NewBlock
        <5>4. ~(Frame(t).plain /\ Frame(t).traced)
          BY <3>2, <3>3, <5>1 DEF Sound, Noted
        <5>5. ~(heap[a].plain /\ heap[a].traced)
          BY <5>3, <5>4, Zenon
        <5>. QED
          BY <1>1, <4>3, <5>5 DEF Kept, Wanted
      <4>. QED
        BY <3>4, <4>1, <4>2, <4>3
    <3>. QED
      BY <1>1, <1>3, <1>5, <2>1, <2>2, <3>1, <3>4, <3>8, <3>9, FrameRule
  <2>. QED
    BY <2>2, <2>3 DEF IInv
<1>. QED
  BY <1>2, <1>6, <1>7

LEMMA AllocExitIInv ==
  ASSUME IInv, NEW t \in Threads, AllocExit(t)
  PROVE  IInv'
<1>1. MemptrsOK'
  BY Unchanged DEF IInv, AllocExit
<1>. QED
  BY <1>1, ExitIInv DEF AllocExit

LEMMA MemalignExitIInv ==
  ASSUME IInv, NEW t \in Threads, MemalignExit(t)
  PROVE  IInv'
<1>1. MemptrsOK'
  BY Forgetting DEF IInv, MemalignExit
<1>. QED
  BY <1>1, ExitIInv DEF MemalignExit

-----------------------------------------------------------------------------
(* Records and what is not probed *)

LEMMA RecordIInv ==
  ASSUME IInv, NEW t \in Threads, Record(t)
  PROVE  IInv'
<1>0. PICK a : a = job[t].addr
  OBVIOUS
<1>1. /\ Shape /\ step[t] = "record"
      /\ IF Slots = linked /\ Recorded(a) = {}
         THEN UNCHANGED <<entry, linked>> /\ anomaly' = anomaly \cup {"map full"}
         ELSE \E k \in IF Slots = linked THEN Recorded(a) ELSE Slots \ linked :
                /\ entry' = [entry EXCEPT ![k] = [addr |-> a, size |-> job[t].size,
                                                  stack |-> job[t].stack]]
                /\ linked' = (linked \ Recorded(a)) \cup {k}
                /\ anomaly' = IF Recorded(a) = {} THEN anomaly ELSE anomaly \cup {"overwritten"}
      /\ missed' = missed \ {a} /\ step' = [step EXCEPT ![t] = "count"]
      /\ UNCHANGED <<options, heap, calls, job, sizes, memptrs, combined>>
  BY <1>0, Zenon DEF IInv, Record
<1>2. /\ a \in Addresses /\ a # Null /\ job[t].size \in Sizes /\ job[t].stack \in Stacks
      /\ calls[t] # <<>>
  BY <1>0, <1>1, NullAssumption DEF Shape, TypeOK, Jobs, Position, InCall
<1>3. PICK r \in Records : r = [addr |-> a, size |-> job[t].size, stack |-> job[t].stack]
  BY <1>2 DEF Records
<1>4. r.addr = a /\ r.size = job[t].size /\ r.stack = job[t].stack
  BY <1>3
<1>5. \/ /\ UNCHANGED <<entry, linked>> /\ Recorded(a) = {}
         /\ anomaly' = anomaly \cup {"map full"}
      \/ \E k \in Slots :
           /\ k \notin linked \/ k \in Recorded(a)
           /\ entry' = [entry EXCEPT ![k] = r]
           /\ linked' = (linked \ Recorded(a)) \cup {k}
           /\ anomaly \subseteq anomaly' /\ anomaly' \subseteq anomaly \cup {"overwritten"}
  <2>1. Recorded(a) \subseteq Slots
    BY <1>1 DEF Recorded, Shape, TypeOK
  <2>. QED
    BY <1>1, <1>3, <2>1
<1>6. Moves(t) /\ OnlyThread(t) /\ step'[t] = "count" /\ job'[t] = job[t]
  BY <1>1 DEF Shape, TypeOK, Moves, OnlyThread, Steps
<1>7. /\ EntryOK' /\ \A k \in Slots : entry[k] \in Records => entry'[k] \in Records
      /\ \A b \in Addresses \ {a} : Same(b)
      /\ \A k \in linked' : entry'[k].addr = a => entry'[k] = r
      /\ "map full" \notin anomaly' => Remembered(a)'
  <2>1. CASE UNCHANGED <<entry, linked>> /\ Recorded(a) = {}
             /\ anomaly' = anomaly \cup {"map full"}
    <3>1. EntryOK' /\ \A k \in Slots : entry[k] \in Records => entry'[k] \in Records
      BY <1>1, <2>1, Unchanged
    <3>2. \A b \in Addresses \ {a} : Same(b)
      BY <1>1, <2>1 DEF Same
    <3>. QED
      BY <2>1, <3>1, <3>2 DEF Recorded
  <2>2. CASE \E k \in Slots :
               /\ k \notin linked \/ k \in Recorded(a)
               /\ entry' = [entry EXCEPT ![k] = r]
               /\ linked' = (linked \ Recorded(a)) \cup {k}
               /\ anomaly \subseteq anomaly' /\ anomaly' \subseteq anomaly \cup {"overwritten"}
    <3>1. PICK k \in Slots : /\ k \notin linked \/ k \in Recorded(a)
                             /\ entry' = [entry EXCEPT ![k] = r]
                             /\ linked' = (linked \ Recorded(a)) \cup {k}
      BY <2>2
    <3>2. entry'[k] = r /\ \A j \in Slots \ {k} : entry'[j] = entry[j]
      BY <1>1, <3>1 DEF Shape, TypeOK
    <3>3. linked \subseteq Slots /\ entry \in [Slots -> Records \cup {Null}] /\ Elements
      BY <1>1 DEF Shape, TypeOK
    <3>4. entry' \in [Slots -> Records \cup {Null}] /\ linked' \subseteq Slots
      BY <3>1, <3>3
    <3>5. \A j \in linked' \ {k} : j \in linked /\ entry'[j] = entry[j] /\ entry[j].addr # a
      BY <3>1, <3>2, <3>3 DEF Recorded
    <3>6. Elements'
      BY <1>4, <3>2, <3>3, <3>5 DEF Elements
    <3>7. \A b \in Addresses \ {a} : Same(b)
      BY <1>1, <1>4, <3>1, <3>2, <3>3, <3>5 DEF Same, Recorded
    <3>8. Remembered(a)'
      BY <1>4, <3>1, <3>2 DEF Remembered
    <3>. QED
      BY <3>2, <3>4, <3>5, <3>6, <3>7, <3>8 DEF EntryOK
  <2>. QED
    BY <1>5, <2>1, <2>2
<1>8. anomaly \subseteq anomaly' /\ Rest'
  BY <1>1, <1>5 DEF Shape, TypeOK, Rest, Anomalies
<1>9. HeapOK' /\ Position(t)'
  BY <1>0, <1>1, <1>2, <1>6 DEF Shape, TypeOK, HeapOK, Position, Before, InCall, Idle
<1>10. calls' \in [Threads -> Seq(Frames)] /\ Len(calls'[t]) <= 2
  BY <1>1 DEF Shape, TypeOK
<1>11. Shape'
  <2>1. SizesOK' /\ MemptrsOK' /\ CombinedOK'
    BY <1>1, Unchanged
  <2>. QED
    BY <1>1, <1>6, <1>7, <1>8, <1>9, <1>10, <2>1, ShapeOf, Zenon
<1>12. Truth'
  <2>. SUFFICES ASSUME Exact' PROVE Truth'
    BY Vacuous
  <2>1. Told /\ Sound(t)
    BY <1>1, <1>8, Knowing DEF IInv, Told
  <2>2. Olds(t)' = Olds(t) /\ Touched(t)' = Touched(t) /\ Frame(t)' = Frame(t)
        /\ NewBlock(Frame(t))' = NewBlock(Frame(t)) /\ Touched(t) = Olds(t) \cup {a}
    BY <1>0, <1>1, <1>2 DEF Olds, Touched, Frame, NewBlock
  <2>3. a \notin Olds(t) /\ Touched(t) \subseteq DOMAIN heap /\ Touched(t) \subseteq Addresses
    BY <1>0, <1>1, <2>1 DEF Sound, Owned, InCall, Shape, TypeOK
  <2>4. Good(r.size, r.stack, heap[a])
    BY <1>0, <1>1, <1>2, <1>4, <2>1 DEF Sound, Given, InCall
  <2>5. ASSUME NEW x \in Olds(t) PROVE Forgotten(x)'
    <3>1. Forgotten(x)
      BY <1>1, <2>1 DEF Sound, Probing
    <3>2. Same(x)
      BY <1>7, <2>2, <2>3
    <3>. QED
      BY <1>7, <3>1, <3>2 DEF Forgotten, Same, EntryOK
  <2>6. Sound(t)'
    <3>1. Owned(t)' /\ Nested(t)' /\ Noted(t)' /\ Given(t)'
      BY <1>1, <1>6, <2>1, <2>2
         DEF Sound, Owned, Nested, Noted, Given, InCall, Before, User
    <3>2. Probing(t)'
      BY <1>0, <1>1, <1>6, <1>7, <2>2, <2>4, <2>5 DEF Probing
    <3>3. Counting(t)'
      BY <1>0, <1>6, <1>7 DEF Counting
    <3>. QED
      BY <3>1, <3>2, <3>3 DEF Sound
  <2>7. ASSUME NEW x \in Addresses \cap Touched(t) PROVE Listed(x)' /\ Kept(x)'
    <3>1. CASE x = a
      BY <1>0, <1>1, <1>2, <1>6, <2>2, <2>3, <3>1, Probed
    <3>2. CASE x \in Olds(t)
      <4>1. Forgotten(x)'
        BY <2>5, <3>2
      <4>2. Listed(x)'
        <5>1. CASE x \in missed'
          BY <5>1 DEF Listed
        <5>2. CASE \A k \in linked' : entry'[k].addr # x
          BY <5>2 DEF Listed
        <5>. QED
          BY <4>1, <5>1, <5>2 DEF Forgotten
      <4>. QED
        BY <2>2, <4>2 DEF Kept
    <3>. QED
      BY <2>2, <3>1, <3>2
  <2>8. \A u \in Threads \ {t} : Touched(u) \cap Touched(t) = {}
    BY <2>1 DEF Told, Apart
  <2>9. SizesOfOthers(t)
    BY <1>1 DEF SizesOfOthers
  <2>10. \A b \in Addresses \ Touched(t) : Same(b)
    BY <1>7, <2>2
  <2>. QED
    BY <1>1, <1>6, <1>8, <1>11, <2>1, <2>2, <2>6, <2>7, <2>8, <2>9, <2>10, FrameRule
<1>. QED
  BY <1>11, <1>12 DEF IInv

LEMMA CountIInv ==
  ASSUME IInv, NEW t \in Threads, Count(t)
  PROVE  IInv'
<1>0. PICK a, s : a = job[t].addr /\ s = job[t].stack
  OBVIOUS
<1>1. /\ Shape /\ step[t] = "count" /\ Pop(t) /\ Done(t)
      /\ UNCHANGED <<options, heap, missed, sizes, memptrs, entry, linked, anomaly>>
  BY DEF IInv, Count
<1>2. /\ a \in Addresses /\ a # Null /\ s \in Stacks /\ job[t].size \in Nat /\ calls[t] # <<>>
  BY <1>0, <1>1, NullAssumption, SizesAssumption DEF Shape, TypeOK, Jobs, Position, InCall
<1>3. CombinedOK'
  <2>. DEFINE now == IF s \in DOMAIN combined THEN combined[s] ELSE 0
              word == Word(now + Increment(job[t].size))
  <2>1. combined' = IF Cardinality(DOMAIN combined \cup {s}) <= MaxCombined
                    THEN With(combined, s, word) ELSE combined
    BY <1>0 DEF Count
  <2>2. now \in Int
    BY <1>1 DEF Shape, TypeOK, Words
  <2>3. word \in Words
    <3>1. Increment(job[t].size) \in Int
      BY <1>2, WordsAreWords
    <3>. QED
      BY <2>2, <3>1, WordsAreWords
  <2>4. PICK w \in Words : w = word
    BY <2>3
  <2>. HIDE DEF word
  <2>5. IsFiniteSet(DOMAIN combined \cup {s})
    BY <1>1, FS_AddElement DEF Shape, Finite
  <2>6. CASE combined' = With(combined, s, w) /\ Cardinality(DOMAIN combined \cup {s}) <= MaxCombined
    <3>1. DOMAIN combined' = {s} \cup DOMAIN combined
          /\ \A x \in DOMAIN combined' : combined'[x] = w \/ (x \in DOMAIN combined /\ combined'[x] = combined[x])
      BY <2>6 DEF With
    <3>2. DOMAIN combined' = DOMAIN combined \cup {s}
      BY <3>1
    <3>. QED
      BY <1>1, <1>2, <2>5, <2>6, <3>1, <3>2 DEF Shape, TypeOK, CombinedOK
  <2>7. CASE combined' = combined
    BY <1>1, <2>7, Unchanged
  <2>. QED
    BY <2>1, <2>4, <2>6, <2>7
<1>4. /\ Moves(t) /\ OnlyThread(t) /\ step'[t] = "idle" /\ job'[t].addr = Null
      /\ Position(t)' /\ calls' \in [Threads -> Seq(Frames)] /\ Len(calls'[t]) <= 2
  BY <1>1, <1>2, Ends, Zenon
<1>5. Shape'
  <2>1. HeapOK' /\ SizesOK' /\ MemptrsOK' /\ EntryOK' /\ Rest'
        /\ \A k \in Slots : entry[k] \in Records => entry'[k] \in Records
    BY <1>1, Unchanged
  <2>. QED
    BY <1>1, <1>3, <1>4, <2>1, ShapeOf, Zenon
<1>6. Truth'
  <2>. SUFFICES ASSUME Exact' PROVE Truth'
    BY Vacuous
  <2>1. Told /\ Sound(t)
    BY <1>1, Knowing DEF IInv, Told
  <2>2. /\ Olds(t)' \subseteq Olds(t) /\ \A x \in Olds(t) \ Olds(t)' : x = Frame(t).old
        /\ \/ Len(calls[t]) = 1 /\ Frame(t) = calls[t][1]
              /\ calls'[t] = <<>> /\ Len(calls'[t]) = 0
           \/ Len(calls[t]) = 2 /\ Frame(t) = calls[t][2]
              /\ Len(calls'[t]) = 1 /\ calls'[t][1] = calls[t][1]
    <3>1. Nested(t)
      BY <2>1 DEF Sound
    <3>. QED
      BY <1>1, <1>2, <3>1, Outer, Zenon
  <2>3. Touched(t)' = Olds(t)' /\ Touched(t)' \subseteq Touched(t) /\ Touched(t) = Olds(t) \cup {a}
    BY <1>0, <1>2, <1>4, <2>2 DEF Touched
  <2>4. a \in DOMAIN heap /\ \A x \in Olds(t) : Forgotten(x)
    BY <1>1, <2>1, <2>3 DEF Sound, Owned, Probing
  <2>5. Owned(t)' /\ Given(t)' /\ Counting(t)'
    BY <1>1, <1>4, <2>1, <2>3 DEF Sound, Owned, Given, Counting, InCall, Before
  <2>6. Nested(t)' /\ Noted(t)'
    BY <1>1, <1>4, <2>1, <2>2 DEF Sound, Nested, Noted, InCall, Before
  <2>7. Probing(t)'
    BY <1>1, <1>4, <2>2, <2>4 DEF Probing, Forgotten
  <2>8. Sound(t)'
    BY <2>5, <2>6, <2>7 DEF Sound
  <2>9. ASSUME NEW x \in Addresses \cap Touched(t) PROVE Listed(x)' /\ Kept(x)'
    <3>1. CASE x = a
      <4>1. Listed(x)'
        BY <1>0, <1>1, <2>1, <2>4, <3>1 DEF Sound, Probing, Listed
      <4>2. Kept(x)'
        BY <1>0, <1>1, <2>1, <3>1 DEF Sound, Counting, Kept, Wanted, Remembered
      <4>. QED
        BY <4>1, <4>2
    <3>2. CASE x \in Olds(t)
      <4>1. Listed(x)'
        BY <1>1, <2>4, <3>2 DEF Listed, Forgotten
      <4>2. CASE x \in Olds(t)'
        BY <2>3, <4>1, <4>2 DEF Kept
      <4>3. CASE x \notin Olds(t)'
        <5>1. x = Frame(t).old /\ x # Null
          BY <2>2, <3>2, <4>3, NullAssumption
        <5>2. ~heap[x].plain
          BY <1>1, <2>1, <5>1 DEF Sound, Nested, InCall
        <5>. QED
          BY <1>1, <4>1, <5>2 DEF Kept, Wanted
      <4>. QED
        BY <4>1, <4>2, <4>3
    <3>. QED
      BY <2>3, <3>1, <3>2
  <2>10. \A u \in Threads \ {t} : Touched(u) \cap Touched(t) = {}
    BY <2>1 DEF Told, Apart
  <2>11. SizesOfOthers(t) /\ \A b : Same(b)
    BY <1>1, SameAll DEF SizesOfOthers
  <2>. QED
    BY <1>1, <1>4, <1>5, <2>1, <2>3, <2>8, <2>9, <2>10, <2>11, FrameRule
<1>. QED
  BY <1>5, <1>6 DEF IInv

LEMMA MissedFreeIInv ==
  ASSUME IInv, MissedFree
  PROVE  IInv'
<1>1. PICK a \in Freeable :
        /\ heap' = Without(a)
        /\ missed' = missed \cup (IF Recorded(a) = {} THEN {} ELSE {a})
  BY DEF MissedFree
<1>2. Shape /\ UNCHANGED <<options, calls, step, job, sizes, memptrs, entry, linked, combined, anomaly>>
  BY DEF IInv, MissedFree
<1>3. a \in DOMAIN heap /\ a \in Addresses /\ \A u \in Threads : a \notin Touched(u)
  BY <1>2, FreeableIsFree
<1>4. DOMAIN heap' = DOMAIN heap \ {a} /\ \A b \in DOMAIN heap' : heap'[b] = heap[b]
  BY <1>1, Cut DEF Without
<1>5. Shape'
  BY <1>1, <1>2, <1>3, <1>4
     DEF Shape, TypeOK, Elements, Finite, Position, Before, InCall, Idle
<1>6. Truth'
  <2>. SUFFICES ASSUME Exact' PROVE Truth'
    BY Vacuous
  <2>1. Told
    BY <1>2, Knowing DEF IInv
  <2>2. \A b \in Addresses \ {a} : Same(b)
    BY <1>1, <1>2, <1>4 DEF Same
  <2>3. ASSUME NEW u \in Threads PROVE Sound(u)' /\ Touched(u)' = Touched(u)
    <3>1. Touched(u) \subseteq Addresses
      BY <1>2, <2>1 DEF Told, Sound, Owned, Shape, TypeOK
    <3>2. \A b \in Touched(u) : Same(b)
      BY <1>3, <2>2, <3>1
    <3>. QED
      BY <1>2, <1>5, <2>1, <3>2, OtherThread
  <2>4. Apart'
    BY <2>1, <2>3 DEF Told, Apart
  <2>5. Listed(a)' /\ Kept(a)'
    BY <1>1, <1>2, <1>3, <1>4 DEF Listed, Kept, Recorded
  <2>6. ASSUME NEW b \in Addresses \ {a} PROVE Listed(b)' /\ Kept(b)'
    <3>1. Listed(b) /\ Kept(b) /\ Same(b)
      BY <2>1, <2>2 DEF Told
    <3>2. Listed(b)'
      BY <1>2, <3>1 DEF Listed, Same, InProbe, Idle
    <3>3. Kept(b)'
      BY <1>2, <2>3, <3>1 DEF Kept, Same, Wanted, Remembered
    <3>. QED
      BY <3>2, <3>3
  <2>. QED
    BY <2>3, <2>4, <2>5, <2>6 DEF Truth
<1>. QED
  BY <1>5, <1>6 DEF IInv

LEMMA KernelAllocIInv ==
  ASSUME IInv, NEW t \in Threads, KernelAlloc(t)
  PROVE  IInv'
<1>1. PICK kind \in {"slab", "page"}, a \in Addresses \ DOMAIN heap, n \in Sizes, s \in Stacks :
        /\ Pushes(t, kind, n, s, Null, FALSE)
        /\ heap' = With(heap, a, [NewBlock(Frame(t)') EXCEPT !.plain = TRUE])
        /\ IF kind = "slab" /\ options.wa
           THEN LooksUp(t, a, "enter") /\ missed' = missed \ {a}
           ELSE LooksUpNot(t, a, "enter") /\ UNCHANGED missed
  BY DEF KernelAlloc
<1>2. Shape /\ options.kernel /\ Idle(t) /\ calls[t] = <<>>
      /\ UNCHANGED <<options, sizes, memptrs, entry, linked, combined, anomaly>>
  BY DEF IInv, KernelAlloc
<1>3. a # Null /\ a \in Addresses /\ a \notin DOMAIN heap
  BY NullAssumption
<1>4. Asked(kind, n, s, Null, FALSE)
  BY DEF Asked
<1>5. PICK f : f = calls'[t][1]
  OBVIOUS
<1>6. /\ calls' \in [Threads -> Seq(Frames)]
      /\ \A u \in Threads \ {t} : calls'[u] = calls[u]
      /\ Len(calls'[t]) = 1 /\ DOMAIN calls'[t] = 1 .. 1 /\ calls'[t] # <<>>
      /\ Frame(t)' = f /\ Asks(f, n, s, Null, FALSE) /\ f.plain /\ Olds(t)' = {Null} \ {Null}
  BY <1>1, <1>2, <1>4, <1>5, FirstCall, Zenon
<1>7. ~f.traced
  BY <1>6, Zenon DEF Asks
<1>8. f \in Frames
  <2>1. \A q \in Seq(Frames) : Len(q) = 1 => q[1] \in Frames
    OBVIOUS
  <2>2. calls'[t] \in Seq(Frames)
    BY <1>6
  <2>. QED
    BY <1>5, <1>6, <2>1, <2>2, Zenon
<1>9. [NewBlock(f) EXCEPT !.plain = TRUE] = NewBlock(f) /\ NewBlock(f) \in Blocks
  <2>1. f.plain = TRUE
    BY <1>6, <1>8, Zenon DEF Frames
  <2>2. [NewBlock(f) EXCEPT !.plain = TRUE] = NewBlock(f)
    <3>1. \A b \in Blocks : b.plain = TRUE => [b EXCEPT !.plain = TRUE] = b
      BY Zenon DEF Blocks
    <3>2. NewBlock(f) \in Blocks
      BY <1>8, DroppedFrame
    <3>3. NewBlock(f).plain = TRUE
      BY <2>1 DEF NewBlock
    <3>. QED
      BY <3>1, <3>2, <3>3, Zenon
  <2>. QED
    BY <1>8, <2>2, DroppedFrame
<1>10. heap' = With(heap, a, NewBlock(f))
  <2>1. Frame(t)' = f
    BY <1>6, Zenon
  <2>. QED
    BY <1>1, <1>9, <2>1, Zenon
<1>11. DOMAIN heap' = {a} \cup DOMAIN heap /\ heap'[a] = NewBlock(f)
       /\ \A b \in DOMAIN heap : b # a => heap'[b] = heap[b]
  BY <1>10, Zenon DEF With
<1>12. /\ Moves(t) /\ step'[t] \in {"enter", "delete"}
       /\ job'[t].addr = a /\ job'[t].then = "enter"
       /\ step'[t] = "delete" => job'[t].slot \in linked /\ entry[job'[t].slot].addr = a
       /\ step'[t] = "enter" => missed' = missed \/ \A k \in linked : entry[k].addr # a
       /\ missed' \subseteq missed /\ missed \subseteq missed' \cup {a}
  <2>1. CASE LooksUp(t, a, "enter") /\ missed' = missed \ {a}
    BY <1>2, <1>3, <2>1, LooksUpMoves DEF Shape
  <2>2. CASE LooksUpNot(t, a, "enter") /\ missed' = missed
    BY <1>2, <1>3, <2>2, LooksUpNotMoves DEF Shape
  <2>. QED
    BY <1>1, <2>1, <2>2
<1>13. OnlyThread(t)
  BY <1>6, <1>12 DEF Moves, OnlyThread
<1>14. Position(t)'
  BY <1>2, <1>3, <1>6, <1>12 DEF Shape, TypeOK, Elements, Position, Before, InCall, Idle
<1>15. HeapOK'
  BY <1>2, <1>3, <1>9, <1>11, <1>12 DEF Shape, TypeOK, HeapOK
<1>16. Shape'
  <2>1. SizesOK' /\ MemptrsOK' /\ EntryOK' /\ CombinedOK' /\ Rest'
        /\ \A k \in Slots : entry[k] \in Records => entry'[k] \in Records
    BY <1>2, Unchanged
  <2>2. Len(calls'[t]) <= 2
    BY <1>6
  <2>. QED
    BY <1>2, <1>6, <1>12, <1>13, <1>14, <1>15, <2>1, <2>2, ShapeOf, Zenon
<1>17. Truth'
  <2>. SUFFICES ASSUME Exact' PROVE Truth'
    BY Vacuous
  <2>1. Told /\ Sound(t)
    BY <1>2, Knowing DEF IInv, Told
  <2>2. Touched(t) = {} /\ Olds(t)' = {}
    BY <1>2, <1>6, Untouched
  <2>3. Touched(t)' = {a}
    BY <1>3, <1>12, <2>2 DEF Touched
  <2>4. step'[t] = "enter" => Forgotten(a)'
    <3>1. missed' = missed => Forgotten(a)'
      BY <1>2, <1>3, <2>1 DEF Told, Listed, Forgotten
    <3>2. (\A k \in linked : entry[k].addr # a) => Forgotten(a)'
      BY <1>2 DEF Forgotten
    <3>. QED
      BY <1>12, <3>1, <3>2
  <2>5. Owned(t)' /\ Nested(t)'
    BY <1>2, <1>5, <1>6, <1>7, <1>11, <1>12, <2>2, <2>3
       DEF Owned, Nested, InCall, Before, User
  <2>6. Noted(t)'
    BY <1>2, <1>5, <1>6, <1>7, <1>12, <2>1 DEF Sound, Noted
  <2>7. Given(t)'
    <3>1. NewBlock(Frame(t))' = NewBlock(f)
      BY <1>6 DEF NewBlock
    <3>. QED
      BY <1>11, <1>12, <3>1 DEF Given
  <2>8. Sound(t)'
    <3>1. Probing(t)' /\ Counting(t)'
      BY <1>12, <2>2, <2>4 DEF Probing, Counting, Forgotten
    <3>. QED
      BY <2>5, <2>6, <2>7, <3>1 DEF Sound
  <2>9. Listed(a)' /\ Kept(a)'
    BY <1>3, <1>11, <1>12, Probed
  <2>10. \A u \in Threads \ {t} : Touched(u) \cap {a} = {}
    BY <1>3, <2>1, NewIsFree
  <2>11. SizesOfOthers(t) /\ \A b \in Addresses \ {a} : Same(b)
    BY <1>2, <1>11, <1>12 DEF Same, SizesOfOthers
  <2>. QED
    BY <1>2, <1>13, <1>16, <2>1, <2>2, <2>3, <2>8, <2>9, <2>10, <2>11, FrameRule
<1>. QED
  BY <1>16, <1>17 DEF IInv

-----------------------------------------------------------------------------
(* The invariant, and what it says *)

LEMMA InitIInv == Init => IInv
<1>. SUFFICES ASSUME Init PROVE IInv
  OBVIOUS
<1>1. /\ options \in [kernel : BOOLEAN, wa : BOOLEAN]
      /\ heap = NoMap /\ missed = {} /\ calls = [t \in Threads |-> <<>>]
      /\ step = [t \in Threads |-> "idle"] /\ job = [t \in Threads |-> NoJob]
      /\ sizes = NoMap /\ memptrs = {} /\ entry = [k \in Slots |-> Null] /\ linked = {}
      /\ combined = NoMap /\ anomaly = {}
  BY DEF Init
<1>2. DOMAIN NoMap = {}
  BY DEF NoMap
<1>3. IsFiniteSet({}) /\ Cardinality({}) = 0
  BY FS_EmptySet
<1>4. \A q : q = <<>> => q \in Seq(Frames) /\ Len(q) = 0 /\ DOMAIN q = {} /\ Len(q) <= 2
  OBVIOUS
<1>5. \A t \in Threads : calls[t] = <<>> /\ step[t] = "idle" /\ job[t] = NoJob
  BY <1>1
<1>6. TypeOK
  <2>1. calls \in [Threads -> Seq(Frames)] /\ \A t \in Threads : Len(calls[t]) <= 2
    BY <1>1, <1>4, <1>5
  <2>2. step \in [Threads -> Steps] /\ job \in [Threads -> Jobs]
    BY <1>1, NoJobIsOne DEF Steps
  <2>3. 0 <= MaxThreads /\ 0 <= MaxCombined
    BY LimitsAssumption
  <2>. QED
    BY <1>1, <1>2, <1>3, <2>1, <2>2, <2>3 DEF TypeOK
<1>7. Elements /\ Finite
  BY <1>1, <1>2, <1>3 DEF Elements, Finite
<1>8. \A t \in Threads : Position(t)
  BY <1>5, NoJobIsOne DEF Position, Before, InCall, Idle
<1>9. \A t \in Threads : Olds(t) = {} /\ Touched(t) = {}
  BY <1>4, <1>5, NoJobIsOne DEF Olds, Touched
<1>10. \A t \in Threads : Sound(t)
  BY <1>1, <1>2, <1>4, <1>5, <1>9, NoJobIsOne
     DEF Sound, Owned, Nested, Noted, Given, Probing, Counting, InCall, Before
<1>11. \A a \in Addresses : Listed(a) /\ Kept(a)
  BY <1>1, <1>2 DEF Listed, Kept
<1>. QED
  BY <1>6, <1>7, <1>8, <1>9, <1>10, <1>11 DEF IInv, Shape, Truth, Apart

LEMMA StutterIInv == IInv /\ UNCHANGED vars => IInv'
<1>. SUFFICES ASSUME IInv, UNCHANGED vars PROVE IInv'
  OBVIOUS
<1>1. Shape'
  BY DEF vars, IInv, Shape, TypeOK, Elements, Finite, Position, Idle, Before, InCall
<1>2. ASSUME NEW t \in Threads, Sound(t) PROVE Sound(t)'
  <2>1. Owned(t)' /\ Nested(t)' /\ Noted(t)' /\ Counting(t)'
    BY <1>2 DEF vars, Sound, Owned, Nested, Noted, Counting, InCall, Before, Touched, Olds,
                Frame, User, Wanted, Remembered
  <2>2. Given(t)' /\ Probing(t)'
    BY <1>2 DEF vars, Sound, Given, Probing, InCall, Before, Olds, Frame, NewBlock, Forgotten
  <2>. QED
    BY <2>1, <2>2 DEF Sound
<1>3. ASSUME NEW a \in Addresses, Listed(a) /\ Kept(a) PROVE Listed(a)' /\ Kept(a)'
  BY <1>3 DEF vars, Listed, Kept, InProbe, Idle, Touched, Olds, Wanted, Remembered
<1>4. Apart => Apart'
  BY DEF vars, Apart, Touched, Olds
<1>. QED
  BY <1>1, <1>2, <1>3, <1>4 DEF vars, IInv, Truth, Exact

LEMMA NextIInv == IInv /\ [Next]_vars => IInv'
<1>. SUFFICES ASSUME IInv, [Next]_vars PROVE IInv'
  OBVIOUS
<1>1. CASE UNCHANGED vars
  BY <1>1, StutterIInv
<1>2. CASE MissedFree
  BY <1>2, MissedFreeIInv
<1>3. ASSUME NEW t \in Threads,
             \/ AllocEnter(t) \/ ReallocEnter(t) \/ Enter(t) \/ FreeEnter(t)
             \/ Delete(t) \/ Uncount(t) \/ Freed(t)
             \/ Return(t) \/ ReturnFailure(t)
             \/ AllocExit(t) \/ MemalignExit(t) \/ MemalignExitEarly(t)
             \/ Record(t) \/ Count(t)
             \/ KernelAlloc(t)
      PROVE  IInv'
  <2>1. CASE AllocEnter(t)
    BY <2>1, AllocEnterIInv
  <2>2. CASE ReallocEnter(t)
    BY <2>2, ReallocEnterIInv
  <2>3. CASE Enter(t)
    BY <2>3, EnterIInv
  <2>4. CASE FreeEnter(t)
    BY <2>4, FreeEnterIInv
  <2>5. CASE Delete(t)
    BY <2>5, DeleteIInv
  <2>6. CASE Uncount(t)
    BY <2>6, UncountIInv
  <2>7. CASE Freed(t)
    BY <2>7, FreedIInv
  <2>8. CASE Return(t)
    BY <2>8, ReturnIInv
  <2>9. CASE ReturnFailure(t)
    BY <2>9, ReturnFailureIInv
  <2>10. CASE AllocExit(t)
    BY <2>10, AllocExitIInv
  <2>11. CASE MemalignExit(t)
    BY <2>11, MemalignExitIInv
  <2>12. CASE MemalignExitEarly(t)
    BY <2>12, MemalignExitEarlyIInv
  <2>13. CASE Record(t)
    BY <2>13, RecordIInv
  <2>14. CASE Count(t)
    BY <2>14, CountIInv
  <2>15. CASE KernelAlloc(t)
    BY <2>15, KernelAllocIInv
  <2>. QED
    BY <1>3, <2>1, <2>2, <2>3, <2>4, <2>5, <2>6, <2>7, <2>8, <2>9, <2>10, <2>11,
       <2>12, <2>13, <2>14, <2>15
<1>. QED
  BY <1>1, <1>2, <1>3, Zenon DEF Next

LEMMA AlwaysIInv == Spec => []IInv
BY InitIInv, NextIInv, PTL DEF Spec

(* TypeOK: the maps hold what they are declared to hold and no more        *)
(* elements than they are declared with, whatever the probes meet.         *)
THEOREM TypeCorrect == Spec => []TypeOK
<1>1. IInv => TypeOK
  BY DEF IInv, Shape
<1>. QED
  BY <1>1, AlwaysIInv, PTL

(* RecordsAreTrue: no record of allocs outlives its block or tells of the  *)
(* wrong one, however the probes of gen_alloc_enter, gen_alloc_exit2 and   *)
(* gen_free_enter interleave.                                              *)
THEOREM RecordsCorrect == Spec => []RecordsAreTrue
<1>1. ASSUME IInv PROVE RecordsAreTrue
  <2>. SUFFICES ASSUME Exact, NEW k \in linked
                PROVE  LET r == entry[k]
                       IN  /\ Cardinality(Recorded(r.addr)) = 1
                           /\ r.addr \in DOMAIN heap \cup missed
                           /\ r.addr \notin missed /\ ~InProbe(r.addr) =>
                                LET b == heap[r.addr]
                                IN  r.stack = b.stack /\ (b.plain => b.traced /\ r.size = b.size)
    BY DEF RecordsAreTrue, Exact
  <2>1. entry[k] \in Records /\ \A j \in linked : entry[j].addr = entry[k].addr => j = k
    BY <1>1 DEF IInv, Shape, Elements
  <2>2. entry[k].addr \in Addresses
    BY <2>1 DEF Records
  <2>3. Listed(entry[k].addr)
    BY <1>1, <2>2 DEF IInv, Truth
  <2>4. Recorded(entry[k].addr) = {k}
    BY <2>1 DEF Recorded
  <2>5. Cardinality(Recorded(entry[k].addr)) = 1
    BY <2>4, FS_Singleton
  <2>. QED
    BY <2>3, <2>5 DEF Listed, Good
<1>. QED
  BY <1>1, AlwaysIInv, PTL

(* LiveBlocksAreRecorded: a block gen_alloc_exit2 was to record is in      *)
(* allocs for as long as it is allocated, unless the map was full.         *)
THEOREM LiveCorrect == Spec => []LiveBlocksAreRecorded
<1>1. ASSUME IInv PROVE LiveBlocksAreRecorded
  <2>. SUFFICES ASSUME Exact, "map full" \notin anomaly, NEW a \in DOMAIN heap,
                       heap[a].plain, heap[a].traced, ~InProbe(a),
                       \A t \in Threads : \A i \in DOMAIN calls[t] : calls[t][i].old # a
                PROVE  Recorded(a) # {}
    BY DEF LiveBlocksAreRecorded, Exact
  <2>1. a \in Addresses /\ a # Null
    BY <1>1, NullAssumption DEF IInv, Shape, TypeOK
  <2>2. ASSUME NEW t \in Threads PROVE a \notin Touched(t)
    <3>1. job[t].addr # a
      BY <1>1, <2>1 DEF IInv, Shape, Position, InProbe
    <3>. QED
      BY <3>1 DEF Touched, Olds
  <2>3. Kept(a)
    BY <1>1, <2>1 DEF IInv, Truth
  <2>4. Remembered(a)
    BY <2>2, <2>3 DEF Kept, Wanted
  <2>. QED
    BY <2>4 DEF Remembered, Recorded
<1>. QED
  BY <1>1, AlwaysIInv, PTL

-----------------------------------------------------------------------------
(* Sums over map elements *)

(* Among subsets of a finite set there is one that has none of the others. *)
LEMMA LeastSubset ==
  ASSUME NEW S, IsFiniteSet(S), NEW F \in SUBSET (SUBSET S), F # {}
  PROVE  \E T \in F : \A U \in F : U \subseteq T => U = T
<1>1. IsWellFoundedOn(StrictSubsetOrdering(S), SUBSET S)
  BY FS_StrictSubsetOrderingWellFounded, FS_FiniteSubsetsOfFinite
<1>2. PICK T \in F : \A U \in F : ~(<<U, T>> \in StrictSubsetOrdering(S))
  BY <1>1, WFMin
<1>. QED
  BY <1>2 DEF StrictSubsetOrdering

(* g has the sums of w over the subsets of S, in whatever order.           *)
SumsUp(g, w, S) ==
  /\ g \in [SUBSET S -> Nat] /\ g[{}] = 0
  /\ \A T \in SUBSET S : \A y \in T : g[T] = w[y] + g[T \ {y}]

(* There are such sums.                                                    *)
LEMMA SumsExist ==
  ASSUME NEW S, IsFiniteSet(S), NEW w \in [S -> Nat]
  PROVE  \E g : SumsUp(g, w, S)
<1>. DEFINE F == {T \in SUBSET S : ~(\E g : SumsUp(g, w, T))}
<1>. SUFFICES ASSUME F # {} PROVE FALSE
  BY Zenon
<1>1. PICK T \in F : \A U \in F : U \subseteq T => U = T
  <2>1. F \in SUBSET (SUBSET S)
    OBVIOUS
  <2>. HIDE DEF F
  <2>. QED
    BY <2>1, LeastSubset
<1>2. T # {}
  <2>. SUFFICES ASSUME T = {} PROVE FALSE
    OBVIOUS
  <2>. DEFINE z == [U \in SUBSET {} |-> 0]
  <2>1. SumsUp(z, w, {})
    BY DEF SumsUp
  <2>. QED
    BY <2>1
<1>3. PICK x : x \in T
  BY <1>2
<1>. DEFINE R == T \ {x}
<1>4. PICK g : SumsUp(g, w, R)
  BY <1>1, <1>3
<1>5. /\ g \in [SUBSET R -> Nat] /\ g[{}] = 0
      /\ \A U \in SUBSET R : \A y \in U : g[U] = w[y] + g[U \ {y}]
  BY <1>4 DEF SumsUp
<1>6. T \in SUBSET S /\ x \in S /\ w[x] \in Nat /\ x \notin R
  BY <1>3
<1>. DEFINE h == [U \in SUBSET T |-> IF x \in U THEN w[x] + g[U \ {x}] ELSE g[U]]
<1>7. \A U \in SUBSET T : U \ {x} \in SUBSET R /\ (x \notin U => U \in SUBSET R)
  OBVIOUS
<1>8. \A U \in SUBSET T : h[U] \in Nat
  <2>1. \A U \in SUBSET R : g[U] \in Nat
    BY <1>5
  <2>. HIDE DEF R
  <2>. QED
    BY <1>6, <1>7, <2>1
<1>9. \A U \in SUBSET T : \A y \in U : h[U] = w[y] + h[U \ {y}]
  <2>. SUFFICES ASSUME NEW U \in SUBSET T, NEW y \in U PROVE h[U] = w[y] + h[U \ {y}]
    OBVIOUS
  <2>1. U \ {y} \in SUBSET T /\ w[y] \in Nat
    BY <1>6
  <2>2. CASE x \notin U
    <3>1. h[U] = g[U] /\ h[U \ {y}] = g[U \ {y}] /\ U \in SUBSET R
      BY <2>1, <2>2, <1>7
    <3>. QED
      BY <3>1, <1>5
  <2>3. CASE x = y
    <3>1. h[U] = w[x] + g[U \ {x}] /\ h[U \ {x}] = g[U \ {x}]
      BY <2>1, <2>3
    <3>. QED
      BY <3>1, <2>3
  <2>4. CASE x \in U /\ x # y
    <3>1. h[U] = w[x] + g[U \ {x}] /\ h[U \ {y}] = w[x] + g[(U \ {y}) \ {x}]
      BY <2>1, <2>4
    <3>2. /\ U \ {x} \in SUBSET R /\ y \in U \ {x}
          /\ (U \ {y}) \ {x} = (U \ {x}) \ {y} /\ (U \ {x}) \ {y} \in SUBSET R
      BY <2>4, <1>7
    <3>3. g[U \ {x}] = w[y] + g[(U \ {x}) \ {y}] /\ g[(U \ {x}) \ {y}] \in Nat
      BY <3>2, <1>5
    <3>. DEFINE n == g[(U \ {x}) \ {y}]
    <3>4. h[U] = w[x] + (w[y] + n) /\ h[U \ {y}] = w[x] + n
      BY <3>1, <3>2, <3>3, Zenon
    <3>5. n \in Nat
      BY <3>3
    <3>. HIDE DEF h, R, n
    <3>. QED
      BY <3>4, <3>5, <2>1, <1>6
  <2>. QED
    BY <2>2, <2>3, <2>4
<1>10. h[{}] = 0
  BY <1>5
<1>11. SumsUp(h, w, T)
  <2>1. h \in [SUBSET T -> Nat]
    BY <1>8
  <2>. HIDE DEF h
  <2>. QED
    BY <2>1, <1>9, <1>10 DEF SumsUp
<1>. HIDE DEF h
<1>. QED
  BY <1>1, <1>11

Totals(w) == CHOOSE g : SumsUp(g, w, Slots)

(* The sum of w over the slots S.                                          *)
Total(w, S) == Totals(w)[S]

Weights == [Slots -> Nat]

(* Zero for no slot, and what a slot adds.                                 *)
LEMMA TotalAdds ==
  ASSUME NEW w \in Weights
  PROVE  /\ Total(w, {}) = 0
         /\ \A S \in SUBSET Slots : Total(w, S) \in Nat
         /\ \A S \in SUBSET Slots : \A y \in S : Total(w, S) = w[y] + Total(w, S \ {y})
<1>1. SumsUp(Totals(w), w, Slots)
  BY SumsExist, SlotsAssumption, Zenon DEF Totals, Weights
<1>. QED
  BY <1>1 DEF SumsUp, Total

(* A sum with one slot more.                                               *)
LEMMA TotalGains ==
  ASSUME NEW w \in Weights, NEW S \in SUBSET Slots, NEW y \in Slots, y \notin S
  PROVE  Total(w, S \cup {y}) = w[y] + Total(w, S)
<1>1. (S \cup {y}) \ {y} = S /\ S \cup {y} \in SUBSET Slots /\ y \in S \cup {y}
  OBVIOUS
<1>. QED
  BY <1>1, TotalAdds

(* What is true of no slots, and of a set of them if it is true of it      *)
(* without one of its slots, is true of every set.                         *)
LEMMA SlotInduction ==
  ASSUME NEW S \in SUBSET Slots, NEW G,
         {} \in G, \A T \in SUBSET S : \A y \in T : T \ {y} \in G => T \in G
  PROVE  S \in G
<1>. DEFINE F == {T \in SUBSET S : T \notin G}
<1>. SUFFICES ASSUME F # {} PROVE FALSE
  OBVIOUS
<1>1. PICK T \in F : \A U \in F : U \subseteq T => U = T
  <2>1. F \in SUBSET (SUBSET S)
    OBVIOUS
  <2>2. IsFiniteSet(S)
    BY SlotsAssumption, FS_Subset
  <2>. HIDE DEF F
  <2>. QED
    BY <2>1, <2>2, LeastSubset
<1>2. T # {}
  OBVIOUS
<1>3. PICK y : y \in T
  BY <1>2
<1>4. T \ {y} \notin G /\ T \ {y} \in SUBSET S
  BY <1>1, <1>3
<1>. QED
  BY <1>1, <1>3, <1>4

(* A sum depends on the slots summed only.                                 *)
LEMMA TotalAgrees ==
  ASSUME NEW w \in Weights, NEW v \in Weights, NEW S \in SUBSET Slots,
         \A k \in S : w[k] = v[k]
  PROVE  Total(w, S) = Total(v, S)
<1>. DEFINE G == {T \in SUBSET S : Total(w, T) = Total(v, T)}
<1>1. {} \in G
  BY TotalAdds
<1>2. ASSUME NEW T \in SUBSET S, NEW y \in T, T \ {y} \in G PROVE T \in G
  <2>1. Total(w, T \ {y}) = Total(v, T \ {y}) /\ w[y] = v[y] /\ T \in SUBSET Slots
    BY <1>2
  <2>2. Total(w, T) = w[y] + Total(w, T \ {y}) /\ Total(v, T) = v[y] + Total(v, T \ {y})
    BY <2>1, TotalAdds
  <2>. QED
    BY <2>1, <2>2
<1>. HIDE DEF G
<1>3. S \in G
  BY <1>1, <1>2, SlotInduction
<1>. QED
  BY <1>3 DEF G

(* A slot's weight is part of the sum.                                     *)
LEMMA PartOfTotal ==
  ASSUME NEW w \in Weights, NEW S \in SUBSET Slots, NEW y \in S
  PROVE  w[y] <= Total(w, S)
<1>1. w[y] \in Nat /\ S \ {y} \in SUBSET Slots
  BY DEF Weights
<1>2. Total(w, S) = w[y] + Total(w, S \ {y}) /\ Total(w, S \ {y}) \in Nat
  BY <1>1, TotalAdds
<1>. QED
  BY <1>1, <1>2

(* A constant more for each slot is that many times as much for all.       *)
LEMMA TotalShifts ==
  ASSUME NEW w \in Weights, NEW v \in Weights, NEW S \in SUBSET Slots, NEW c \in Nat,
         \A k \in S : v[k] = w[k] + c
  PROVE  Total(v, S) = Total(w, S) + c * Cardinality(S) /\ Cardinality(S) \in Nat
<1>. DEFINE G == {T \in SUBSET S : Total(v, T) = Total(w, T) + c * Cardinality(T)}
<1>1. {} \in G
  BY TotalAdds, FS_EmptySet
<1>2. ASSUME NEW T \in SUBSET S, NEW y \in T, T \ {y} \in G PROVE T \in G
  <2>. DEFINE U == T \ {y}
  <2>1. Total(v, U) = Total(w, U) + c * Cardinality(U) /\ v[y] = w[y] + c
    BY <1>2
  <2>2. T \in SUBSET Slots /\ U \in SUBSET Slots /\ IsFiniteSet(T) /\ IsFiniteSet(U)
    BY SlotsAssumption, FS_Subset
  <2>3. /\ Total(w, T) = w[y] + Total(w, U) /\ Total(v, T) = v[y] + Total(v, U)
        /\ Total(w, U) \in Nat /\ w[y] \in Nat
    BY <2>2, TotalAdds DEF Weights
  <2>4. Cardinality(U) = Cardinality(T) - 1 /\ Cardinality(U) \in Nat /\ Cardinality(T) \in Nat
    BY <2>2, FS_RemoveElement, FS_CardinalityType
  <2>. HIDE DEF U
  <2>5. c * Cardinality(T) = c * Cardinality(U) + c
    <3>1. \A a, n \in Int : a * n = a * (n - 1) + a
      OBVIOUS
    <3>. QED
      BY <2>4, <3>1
  <2>6. c * Cardinality(U) \in Int
    BY <2>4
  <2>7. Total(v, T) = Total(w, T) + c * Cardinality(T)
    BY <2>1, <2>3, <2>5, <2>6
  <2>. QED
    BY <2>7
<1>. HIDE DEF G
<1>3. S \in G
  BY <1>1, <1>2, SlotInduction
<1>4. Cardinality(S) \in Nat
  BY SlotsAssumption, FS_Subset, FS_CardinalityType
<1>. QED
  BY <1>3, <1>4 DEF G

(* The sum that the property speaks of is this one.                        *)
LEMMA FoldIsTotal ==
  ASSUME NEW w \in Weights, NEW S \in SUBSET Slots, \A k \in S : w[k] = entry[k].size
  PROVE  LET size(k) == entry[k].size
         IN  MapThenSumSet(size, S) = Total(w, S)
<1>. DEFINE One(s) == CHOOSE x \in s : TRUE
            Next1(g) == [s \in SUBSET S |-> IF s = {} THEN 0 ELSE entry[One(s)].size + g[s \ {One(s)}]]
            o == CHOOSE g : g = Next1(g)
            t == [s \in SUBSET S |-> Total(w, s)]
<1>1. (LET size(k) == entry[k].size IN MapThenSumSet(size, S)) = o[S]
  BY Zenon DEF MapThenSumSet, MapThenFoldSet
<1>2. \A s \in SUBSET S : s # {} => One(s) \in s
  OBVIOUS
<1>. HIDE DEF One
<1>3. t = Next1(t)
  <2>1. ASSUME NEW s \in SUBSET S
        PROVE  t[s] = IF s = {} THEN 0 ELSE entry[One(s)].size + t[s \ {One(s)}]
    <3>1. CASE s = {}
      BY <3>1, TotalAdds
    <3>2. CASE s # {}
      <4>1. One(s) \in s /\ s \in SUBSET Slots /\ s \ {One(s)} \in SUBSET S
        BY <1>2, <3>2
      <4>2. Total(w, s) = w[One(s)] + Total(w, s \ {One(s)})
        BY <4>1, TotalAdds
      <4>. QED
        BY <3>2, <4>1, <4>2
    <3>. QED
      BY <3>1, <3>2
  <2>2. t = [s \in SUBSET S |-> t[s]]
    OBVIOUS
  <2>. HIDE DEF t
  <2>. QED
    BY <2>1, <2>2
<1>4. o = Next1(o)
  <2>. HIDE DEF Next1, t
  <2>. QED
    BY <1>3, Zenon
<1>5. \A s \in SUBSET S : o[s] = IF s = {} THEN 0 ELSE entry[One(s)].size + o[s \ {One(s)}]
  <2>. HIDE DEF o
  <2>1. \A s \in SUBSET S : Next1(o)[s] = IF s = {} THEN 0 ELSE entry[One(s)].size + o[s \ {One(s)}]
    OBVIOUS
  <2>. HIDE DEF Next1
  <2>. QED
    BY <1>4, <2>1, Zenon
<1>. HIDE DEF o
<1>. DEFINE F == {s \in SUBSET S : o[s] # Total(w, s)}
<1>6. F = {}
  <2>. SUFFICES ASSUME F # {} PROVE FALSE
    OBVIOUS
  <2>1. PICK T \in F : \A U \in F : U \subseteq T => U = T
    <3>1. F \in SUBSET (SUBSET S)
      OBVIOUS
    <3>2. IsFiniteSet(S)
      BY SlotsAssumption, FS_Subset
    <3>. HIDE DEF F
    <3>. QED
      BY <3>1, <3>2, LeastSubset
  <2>2. T # {}
    BY <1>5, TotalAdds
  <2>3. One(T) \in T /\ T \in SUBSET Slots /\ T \ {One(T)} \in SUBSET S /\ T \ {One(T)} # T
    BY <1>2, <2>2
  <2>4. o[T \ {One(T)}] = Total(w, T \ {One(T)})
    BY <2>1, <2>3
  <2>5. Total(w, T) = w[One(T)] + Total(w, T \ {One(T)})
    BY <2>3, TotalAdds
  <2>. QED
    BY <1>5, <2>2, <2>4, <2>5
<1>. QED
  BY <1>1, <1>6

-----------------------------------------------------------------------------
(* Whose address it is, whatever became of the sizes *)

(* How deep calls go, and whose old blocks there are.                      *)
Deep(t) ==
  /\ options.kernel => Olds(t) = {}
  /\ Len(calls[t]) = 2 => calls[t][2].old = Null

Owning == Apart /\ \A t \in Threads : Owned(t) /\ Deep(t)

(* A step of a thread that touches no address of another's and frees none. *)
LEMMA OwnsRule ==
  ASSUME NEW t \in Threads, Owning, OnlyThread(t), options' = options,
         Owned(t)', Deep(t)',
         \A u \in Threads \ {t} :
           Touched(u) \cap Touched(t)' = {} /\ Touched(u) \subseteq DOMAIN heap'
  PROVE  Owning'
<1>1. ASSUME NEW u \in Threads, u # t
      PROVE  Touched(u)' = Touched(u) /\ Owned(u)' /\ Deep(u)'
  <2>1. step'[u] = step[u] /\ job'[u] = job[u] /\ calls'[u] = calls[u]
    BY <1>1 DEF OnlyThread
  <2>2. Olds(u)' = Olds(u) /\ Touched(u)' = Touched(u)
    BY <2>1 DEF Olds, Touched
  <2>3. Owned(u) /\ Deep(u)
    BY DEF Owning
  <2>4. Touched(u) \subseteq DOMAIN heap'
    BY <1>1
  <2>5. Owned(u)'
    BY <2>1, <2>2, <2>3, <2>4 DEF Owned, InCall
  <2>6. Deep(u)'
    BY <2>1, <2>2, <2>3 DEF Deep
  <2>. QED
    BY <2>2, <2>5, <2>6
<1>2. ASSUME NEW u \in Threads, NEW v \in Threads, u # v
      PROVE  Touched(u)' \cap Touched(v)' = {}
  <2>1. CASE u = t
    BY <1>1, <1>2, <2>1
  <2>2. CASE v = t
    BY <1>1, <1>2, <2>2
  <2>3. CASE u # t /\ v # t
    BY <1>1, <1>2, <2>3 DEF Owning, Apart
  <2>. QED
    BY <2>1, <2>2, <2>3
<1>. QED
  BY <1>1, <1>2 DEF Owning, Apart

(* Steps that leave the records and the statistics alone.                  *)
Quiet(t) ==
  /\ OnlyThread(t) /\ UNCHANGED <<options, entry, linked, combined>>
  /\ step[t] \notin {"delete", "uncount", "count"} /\ step'[t] \notin {"uncount", "count"}
  /\ step'[t] = "delete" =>
       job'[t].slot \in linked /\ entry[job'[t].slot].addr = job'[t].addr

LEMMA NoDepth ==
  ASSUME Shape, NEW t \in Threads, calls[t] = <<>>
  PROVE  Len(calls[t]) = 0 /\ Olds(t) = {}
BY Calls DEF Shape, Olds

(* Every action of a thread keeps what Owning says; most are quiet.        *)
LEMMA FreeEnterOwns ==
  ASSUME Shape, Owning, NEW t \in Threads, FreeEnter(t)
  PROVE  Owning' /\ Quiet(t)
<1>1. PICK a \in Freeable : LooksUp(t, a, "free")
  BY DEF FreeEnter
<1>2. Idle(t) /\ calls[t] = <<>> /\ UNCHANGED <<options, heap, calls, entry, linked, combined>>
  BY DEF FreeEnter
<1>3. a \in DOMAIN heap /\ a \in Addresses /\ \A u \in Threads : a \notin Touched(u)
  BY FreeableIsFree
<1>4. /\ Moves(t) /\ step'[t] \in {"free", "delete"} /\ job'[t].addr = a
      /\ step'[t] = "delete" => job'[t].slot \in linked /\ entry[job'[t].slot].addr = a
  BY <1>1, <1>3, LooksUpMoves DEF Shape
<1>5. OnlyThread(t) /\ Quiet(t)
  BY <1>2, <1>4 DEF Moves, OnlyThread, Quiet, Idle
<1>6. Olds(t)' = {} /\ Touched(t)' = {a}
  BY <1>2, <1>3, <1>4, NoDepth, NullAssumption DEF Olds, Touched
<1>7. Owned(t)' /\ Deep(t)'
  BY <1>2, <1>3, <1>6, NoDepth DEF Owned, Deep
<1>8. \A u \in Threads : Touched(u) \subseteq DOMAIN heap'
  BY <1>2 DEF Owning, Owned
<1>. QED
  BY <1>2, <1>3, <1>5, <1>6, <1>7, <1>8, OwnsRule

LEMMA ReallocEnterOwns ==
  ASSUME Shape, Owning, NEW t \in Threads, ReallocEnter(t)
  PROVE  Owning' /\ Quiet(t)
<1>1. PICK a \in Freeable, n \in Sizes, s \in Stacks :
         Pushes(t, "realloc", n, s, a, FALSE) /\ LooksUp(t, a, "enter")
  BY DEF ReallocEnter
<1>2. User /\ Idle(t) /\ calls[t] = <<>> /\ UNCHANGED <<options, heap, entry, linked, combined>>
  BY DEF ReallocEnter
<1>3. a \in DOMAIN heap /\ a \in Addresses /\ a # Null /\ \A u \in Threads : a \notin Touched(u)
  BY FreeableIsFree, NullAssumption
<1>4. /\ Moves(t) /\ step'[t] \in {"enter", "delete"} /\ job'[t].addr = a
      /\ step'[t] = "delete" => job'[t].slot \in linked /\ entry[job'[t].slot].addr = a
  BY <1>1, <1>3, LooksUpMoves DEF Shape
<1>5. /\ \A u \in Threads \ {t} : calls'[u] = calls[u]
      /\ Len(calls'[t]) = 1 /\ Olds(t)' = {a} \ {Null}
  <2>1. Asked("realloc", n, s, a, FALSE)
    BY <1>3 DEF Asked
  <2>. QED
    BY <1>1, <1>2, <2>1, FirstCall, Zenon
<1>6. OnlyThread(t) /\ Quiet(t)
  BY <1>2, <1>4, <1>5 DEF Moves, OnlyThread, Quiet, Idle
<1>7. Touched(t)' = {a}
  BY <1>3, <1>4, <1>5 DEF Touched
<1>8. Owned(t)' /\ Deep(t)'
  BY <1>2, <1>3, <1>4, <1>5, <1>7 DEF Owned, Deep, InCall, User
<1>9. \A u \in Threads : Touched(u) \subseteq DOMAIN heap'
  BY <1>2 DEF Owning, Owned
<1>. QED
  BY <1>2, <1>3, <1>6, <1>7, <1>8, <1>9, OwnsRule

LEMMA AllocEnterOwns ==
  ASSUME Shape, Owning, NEW t \in Threads, AllocEnter(t)
  PROVE  Owning' /\ Quiet(t)
<1>1. PICK kind \in {"malloc", "memalign"}, n \in Sizes, s \in Stacks, traced \in BOOLEAN :
         Pushes(t, kind, n, s, Null, traced)
  BY DEF AllocEnter
<1>2. Idle(t) /\ UNCHANGED <<options, heap, step, job, entry, linked, combined>>
  BY DEF AllocEnter
<1>3. Len(calls[t]) <= 1
  BY Calls DEF AllocEnter, Shape
<1>4. Asked(kind, n, s, Null, traced)
  BY DEF Asked
<1>5. /\ \A u \in Threads \ {t} : calls'[u] = calls[u]
      /\ Olds(t)' = Olds(t) /\ (Len(calls'[t]) = 2 => calls'[t][2].old = Null)
  BY <1>1, <1>3, <1>4, AnyCall, Zenon
<1>6. OnlyThread(t) /\ Quiet(t)
  BY <1>2, <1>5 DEF OnlyThread, Quiet, Idle
<1>7. Touched(t)' = Touched(t)
  BY <1>2, <1>5 DEF Touched
<1>8. Owned(t)' /\ Deep(t)'
  BY <1>2, <1>5, <1>7 DEF Owning, Owned, Deep, InCall
<1>9. \A u \in Threads \ {t} : Touched(u) \cap Touched(t) = {} /\ Touched(u) \subseteq DOMAIN heap'
  BY <1>2 DEF Owning, Owned, Apart
<1>. QED
  BY <1>2, <1>6, <1>7, <1>8, <1>9, OwnsRule

LEMMA EnterOwns ==
  ASSUME Shape, Owning, NEW t \in Threads, Enter(t)
  PROVE  Owning' /\ Quiet(t)
<1>0. PICK a : a = job[t].addr
  OBVIOUS
<1>1. PICK traced \in BOOLEAN :
        /\ calls' = [calls EXCEPT ![t][Len(calls[t])].traced = traced]
        /\ IF options.kernel
           THEN /\ heap' = [heap EXCEPT ![a].traced = traced]
                /\ step' = [step EXCEPT ![t] = "exit"]
                /\ job' = [job EXCEPT ![t] = [NoJob EXCEPT !.addr = a]]
           ELSE Done(t) /\ UNCHANGED heap
  BY <1>0 DEF Enter
<1>2. step[t] = "enter" /\ Before(t, "enter") /\ UNCHANGED <<options, entry, linked, combined>>
  BY DEF Enter, Before
<1>3. Len(calls[t]) = 1 /\ a \in Addresses /\ a # Null
  BY <1>0, <1>2, NullAssumption DEF Shape, Position
<1>4. calls[t] # <<>> /\ Frame(t) \in Frames /\ Frame(t) = calls[t][1] /\ DOMAIN calls[t] = 1 .. 1
  BY <1>3, Calls DEF Shape, Frame
<1>5. PICK g \in Frames : /\ g = Seen(Frame(t), traced)
                          /\ Asks(g, Frame(t).size, Frame(t).stack, Frame(t).old, traced)
  BY <1>4, SeenFrame, Zenon
<1>6. calls' = [calls EXCEPT ![t][Len(calls[t])] = g]
  BY <1>1, <1>5 DEF Seen, Frame
<1>7. /\ \A u \in Threads \ {t} : calls'[u] = calls[u]
      /\ Len(calls'[t]) = Len(calls[t]) /\ DOMAIN calls'[t] = DOMAIN calls[t] /\ Frame(t)' = g
  BY <1>4, <1>6, FrameChanged, Zenon
<1>8. calls'[t][1] = g /\ g.old = calls[t][1].old
  BY <1>3, <1>4, <1>5, <1>7, Zenon DEF Asks, Frame
<1>9. Olds(t)' = Olds(t)
  BY <1>4, <1>7, <1>8 DEF Olds
<1>10. PICK j \in Jobs : j.addr = (IF options.kernel THEN a ELSE Null) /\ job' = [job EXCEPT ![t] = j]
  <2>1. [NoJob EXCEPT !.addr = a] \in Jobs /\ [NoJob EXCEPT !.addr = a].addr = a
    BY <1>3, NoJobIsOne, SizesAssumption DEF NoJob, Jobs, Steps
  <2>. QED
    BY <1>1, <2>1, NoJobIsOne DEF Done
<1>11. step' = [step EXCEPT ![t] = IF options.kernel THEN "exit" ELSE "idle"]
  BY <1>1 DEF Done
<1>12. /\ OnlyThread(t)
       /\ step'[t] = (IF options.kernel THEN "exit" ELSE "idle")
       /\ job'[t].addr = (IF options.kernel THEN a ELSE Null)
  BY <1>7, <1>10, <1>11 DEF Shape, TypeOK, OnlyThread
<1>13. DOMAIN heap' = DOMAIN heap
  BY <1>1
<1>14. Touched(t)' \subseteq Touched(t)
  BY <1>0, <1>9, <1>12 DEF Touched
<1>15. Owned(t)' /\ Deep(t)'
  BY <1>2, <1>3, <1>7, <1>9, <1>12, <1>13, <1>14 DEF Owning, Owned, Deep, InCall
<1>16. \A u \in Threads \ {t} : Touched(u) \cap Touched(t) = {} /\ Touched(u) \subseteq DOMAIN heap'
  BY <1>13 DEF Owning, Owned, Apart
<1>17. Quiet(t)
  BY <1>2, <1>12 DEF Quiet
<1>. QED
  BY <1>2, <1>12, <1>14, <1>15, <1>16, <1>17, OwnsRule

(* A step of a thread that touches nothing it did not touch before, and    *)
(* makes or frees no block.                                                *)
LEMMA TouchesNoMore ==
  ASSUME NEW t \in Threads, Owning, OnlyThread(t), options' = options,
         DOMAIN heap' = DOMAIN heap, Touched(t)' \subseteq Touched(t),
         InCall(t)' => job'[t].addr \notin Olds(t)', Deep(t)'
  PROVE  Owning'
<1>1. Owned(t)'
  BY DEF Owning, Owned
<1>2. \A u \in Threads \ {t} : Touched(u) \cap Touched(t) = {} /\ Touched(u) \subseteq DOMAIN heap'
  BY DEF Owning, Owned, Apart
<1>. QED
  BY <1>1, <1>2, OwnsRule

(* The steps of a free that came first, and of the call or free after it.  *)
LEMMA DeleteOwns ==
  ASSUME Shape, Owning, NEW t \in Threads, Delete(t)
  PROVE  Owning' /\ OnlyThread(t) /\ step'[t] = "uncount"
<1>1. step' = [step EXCEPT ![t] = "uncount"] /\ UNCHANGED <<options, heap, calls, job>>
  BY DEF Delete
<1>2. OnlyThread(t) /\ step'[t] = "uncount"
  BY <1>1 DEF Shape, TypeOK, OnlyThread
<1>3. Olds(t)' = Olds(t) /\ Touched(t)' = Touched(t)
  BY <1>1 DEF Olds, Touched
<1>4. Deep(t)' /\ ~InCall(t)'
  BY <1>1, <1>2, <1>3 DEF Owning, Deep, InCall
<1>. QED
  BY <1>1, <1>2, <1>3, <1>4, TouchesNoMore

LEMMA UncountOwns ==
  ASSUME Shape, Owning, NEW t \in Threads, Uncount(t)
  PROVE  Owning' /\ OnlyThread(t) /\ step'[t] \in {"enter", "free"}
<1>1. /\ step[t] = "uncount" /\ step' = [step EXCEPT ![t] = job[t].then]
      /\ UNCHANGED <<options, heap, calls, job>>
  BY DEF Uncount
<1>2. OnlyThread(t) /\ step'[t] \in {"enter", "free"}
  BY <1>1 DEF Shape, TypeOK, Position, OnlyThread
<1>3. Olds(t)' = Olds(t) /\ Touched(t)' = Touched(t)
  BY <1>1 DEF Olds, Touched
<1>4. Deep(t)' /\ ~InCall(t)'
  BY <1>1, <1>2, <1>3 DEF Owning, Deep, InCall
<1>. QED
  BY <1>1, <1>2, <1>3, <1>4, TouchesNoMore

LEMMA FreedOwns ==
  ASSUME Shape, Owning, NEW t \in Threads, Freed(t)
  PROVE  Owning' /\ Quiet(t)
<1>0. PICK a : a = job[t].addr
  OBVIOUS
<1>1. /\ step[t] = "free" /\ Done(t)
      /\ heap' = Without(a) \/ heap' = [heap EXCEPT ![a].plain = FALSE]
      /\ UNCHANGED <<options, calls, entry, linked, combined>>
  BY <1>0 DEF Freed
<1>2. Moves(t) /\ step'[t] = "idle" /\ job'[t].addr = Null
  BY <1>1, DoneMoves, NoJobIsOne DEF Shape
<1>3. OnlyThread(t) /\ Quiet(t)
  BY <1>1, <1>2 DEF Moves, OnlyThread, Quiet
<1>4. calls[t] = <<>> /\ a \in Touched(t)
  BY <1>0, <1>1, NullAssumption DEF Shape, Position, Before, Touched
<1>5. Olds(t)' = {} /\ Touched(t)' = {}
  BY <1>1, <1>2, <1>4, NoDepth DEF Olds, Touched
<1>6. Owned(t)' /\ Deep(t)'
  BY <1>1, <1>4, <1>5, NoDepth DEF Owned, Deep
<1>7. \A x \in DOMAIN heap : x # a => x \in DOMAIN heap'
  BY <1>1, Cut DEF Without
<1>8. \A u \in Threads \ {t} : Touched(u) \subseteq DOMAIN heap'
  BY <1>4, <1>7 DEF Owning, Owned, Apart
<1>. QED
  BY <1>1, <1>3, <1>5, <1>6, <1>8, OwnsRule

(* A call that returns: its old block is gone, its new one was nobody's.   *)
LEMMA ReturnOwns ==
  ASSUME Shape, Owning, NEW t \in Threads, Return(t)
  PROVE  Owning' /\ Quiet(t)
<1>0. PICK f : f = Frame(t)
  OBVIOUS
<1>1. PICK a \in (Addresses \ DOMAIN heap) \cup ({f.old} \ {Null}) :
        /\ heap' = With(Without(f.old), a, NewBlock(f))
        /\ job' = [job EXCEPT ![t] = [NoJob EXCEPT !.addr = a]]
  BY <1>0, Zenon DEF Return
<1>2. User /\ Idle(t) /\ calls[t] # <<>>
      /\ step' = [step EXCEPT ![t] = "exit"]
      /\ calls' = [calls EXCEPT ![t][Len(calls[t])].old = Null]
      /\ UNCHANGED <<options, entry, linked, combined>>
  BY DEF Return
<1>3. f \in Frames
  BY <1>0, <1>2, Calls DEF Shape
<1>4. PICK g \in Frames : g = Dropped(f) /\ g.old = Null
  BY <1>3, DroppedFrame, Zenon
<1>5. calls' = [calls EXCEPT ![t][Len(calls[t])] = g]
  BY <1>0, <1>2, <1>4 DEF Dropped, Frame
<1>6. /\ \A u \in Threads \ {t} : calls'[u] = calls[u]
      /\ Len(calls'[t]) = Len(calls[t]) /\ DOMAIN calls'[t] = DOMAIN calls[t]
      /\ Frame(t)' = g
      /\ \A i \in 1 .. Len(calls[t]) - 1 : calls'[t][i] = calls[t][i]
  BY <1>2, <1>5, FrameChanged, Zenon
<1>7. a \in Addresses /\ a # Null
  BY <1>3, NullAssumption DEF Frames
<1>8. [NoJob EXCEPT !.addr = a] \in Jobs /\ [NoJob EXCEPT !.addr = a].addr = a
  BY <1>7, NoJobIsOne, SizesAssumption DEF NoJob, Jobs, Steps
<1>9. OnlyThread(t) /\ step'[t] = "exit" /\ job'[t].addr = a
  <2>. DEFINE j == [NoJob EXCEPT !.addr = a]
  <2>. HIDE DEF j
  <2>1. j.addr = a /\ job' = [job EXCEPT ![t] = j]
    BY <1>1, <1>8 DEF j
  <2>. QED
    BY <1>2, <1>6, <2>1 DEF Shape, TypeOK, OnlyThread
<1>10. Quiet(t)
  BY <1>2, <1>9 DEF Quiet, Idle
<1>11. DOMAIN heap' = {a} \cup (DOMAIN heap \ {f.old})
  <2>1. DOMAIN Without(f.old) = DOMAIN heap \ {f.old}
    BY Cut DEF Without
  <2>. QED
    BY <1>1, <2>1 DEF With
<1>12. f.old # Null => f.old \in Olds(t)
  BY <1>0, <1>2, InnermostIsOld
<1>13. /\ Len(calls[t]) \in 1 .. 2 /\ DOMAIN calls[t] = 1 .. Len(calls[t])
  BY <1>2, Calls DEF Shape
<1>14. Olds(t)' \subseteq Olds(t) \ {f.old} /\ Deep(t)'
  <2>1. CASE Len(calls[t]) = 1
    <3>1. DOMAIN calls'[t] = {1} /\ calls'[t][1] = g
      BY <1>6, <1>13, <2>1 DEF Frame
    <3>2. Olds(t)' = {}
      BY <1>4, <3>1 DEF Olds
    <3>. QED
      BY <1>6, <2>1, <3>2 DEF Deep
  <2>2. CASE Len(calls[t]) = 2
    <3>1. f.old = Null
      BY <1>0, <2>2 DEF Owning, Deep, Frame
    <3>2. DOMAIN calls'[t] = {1, 2} /\ DOMAIN calls[t] = {1, 2}
          /\ calls'[t][1] = calls[t][1] /\ calls'[t][2] = g
      BY <1>6, <1>13, <2>2 DEF Frame
    <3>3. Olds(t)' \subseteq Olds(t) /\ Null \notin Olds(t)
      BY <1>4, <3>2 DEF Olds
    <3>. QED
      BY <1>2, <1>4, <3>1, <3>2, <3>3 DEF Deep, Owning
  <2>. QED
    BY <1>13, <2>1, <2>2
<1>15. Touched(t) = Olds(t) /\ Olds(t) \subseteq DOMAIN heap
  BY <1>2 DEF Owning, Owned, Touched, Shape, Position, Idle
<1>16. Touched(t)' = Olds(t)' \cup {a}
  BY <1>7, <1>9 DEF Touched
<1>17. a \notin Olds(t)'
  BY <1>14, <1>15
<1>18. Owned(t)'
  BY <1>9, <1>11, <1>14, <1>15, <1>16, <1>17 DEF Owned
<1>19. ASSUME NEW u \in Threads \ {t}
       PROVE  Touched(u) \cap Touched(t)' = {} /\ Touched(u) \subseteq DOMAIN heap'
  <2>1. Touched(u) \cap Olds(t) = {} /\ Touched(u) \subseteq DOMAIN heap /\ Null \notin Touched(u)
    BY <1>15 DEF Owning, Owned, Apart, Touched, Olds
  <2>2. f.old \notin Touched(u)
    BY <1>12, <2>1
  <2>3. a \notin Touched(u)
    BY <2>1, <2>2
  <2>. QED
    BY <1>11, <1>14, <1>16, <2>1, <2>2, <2>3
<1>. QED
  BY <1>2, <1>9, <1>10, <1>14, <1>18, <1>19, OwnsRule

(* One that fails holds no address, unless it is posix_memalign's.         *)
LEMMA ReturnFailureOwns ==
  ASSUME Shape, Owning, NEW t \in Threads, ReturnFailure(t), "failed memalign" \notin anomaly'
  PROVE  Owning' /\ Quiet(t)
<1>0. PICK f : f = Frame(t)
  OBVIOUS
<1>1. PICK a \in {Null} \cup (IF f.kind = "memalign" THEN Addresses ELSE {}) :
        /\ heap' = IF f.old = Null THEN heap ELSE [heap EXCEPT ![f.old].plain = FALSE]
        /\ job' = [job EXCEPT ![t] = [NoJob EXCEPT !.addr = a]]
        /\ anomaly' = IF a = Null THEN anomaly ELSE anomaly \cup {"failed memalign"}
  BY <1>0, Zenon DEF ReturnFailure
<1>2. Idle(t) /\ step' = [step EXCEPT ![t] = "exit"]
      /\ UNCHANGED <<options, calls, entry, linked, combined>>
  BY DEF ReturnFailure
<1>3. a = Null
  BY <1>1
<1>4. OnlyThread(t) /\ step'[t] = "exit" /\ job'[t].addr = Null
  <2>. DEFINE j == [NoJob EXCEPT !.addr = a]
  <2>1. j.addr = a
    BY DEF NoJob
  <2>. HIDE DEF j
  <2>2. job' = [job EXCEPT ![t] = j]
    BY <1>1 DEF j
  <2>. QED
    BY <1>2, <1>3, <2>1, <2>2 DEF Shape, TypeOK, OnlyThread
<1>5. Quiet(t)
  BY <1>2, <1>4 DEF Quiet, Idle
<1>6. DOMAIN heap' = DOMAIN heap
  BY <1>1
<1>7. Olds(t)' = Olds(t) /\ Touched(t)' \subseteq Touched(t) /\ Null \notin Olds(t)'
  BY <1>2, <1>4 DEF Olds, Touched
<1>8. Deep(t)'
  BY <1>2, <1>7 DEF Owning, Deep
<1>. QED
  BY <1>2, <1>4, <1>5, <1>6, <1>7, <1>8, TouchesNoMore

(* A call that is through, with its probe.                                 *)
LEMMA EndOwns ==
  ASSUME Shape, Owning, NEW t \in Threads, calls[t] # <<>>, Pop(t), Done(t),
         UNCHANGED <<options, heap>>
  PROVE  Owning' /\ OnlyThread(t) /\ step'[t] = "idle" /\ job'[t].addr = Null
<1>1. OnlyThread(t) /\ step'[t] = "idle" /\ job'[t].addr = Null
  BY Ends, Zenon
<1>2. /\ Len(calls[t]) \in 1 .. 2 /\ DOMAIN calls[t] = 1 .. Len(calls[t])
  BY Calls DEF Shape
<1>3. /\ calls' \in [Threads -> Seq(Frames)]
      /\ Len(calls'[t]) = Len(calls[t]) - 1
      /\ \A i \in 1 .. Len(calls[t]) - 1 : calls'[t][i] = calls[t][i]
  BY Popped DEF Shape
<1>4. DOMAIN calls'[t] = 1 .. Len(calls'[t])
  <2>1. calls'[t] \in Seq(Frames)
    BY <1>3
  <2>. QED
    BY <2>1
<1>5. Olds(t)' \subseteq Olds(t) /\ Len(calls'[t]) # 2
  <2>1. \A n \in 1 .. 2 : n - 1 # 2 /\ 1 .. n - 1 \subseteq 1 .. n
    OBVIOUS
  <2>2. Len(calls'[t]) # 2
    BY <1>2, <1>3, <2>1, Zenon
  <2>3. DOMAIN calls'[t] = 1 .. Len(calls[t]) - 1
    BY <1>3, <1>4, Zenon
  <2>4. \A i \in DOMAIN calls'[t] : i \in DOMAIN calls[t] /\ calls'[t][i] = calls[t][i]
    BY <1>2, <1>3, <2>1, <2>3, Zenon
  <2>5. ASSUME NEW x \in Olds(t)' PROVE x \in Olds(t)
    BY <2>4, <2>5 DEF Olds
  <2>. QED
    BY <2>2, <2>5
<1>6. Deep(t)'
  BY <1>5 DEF Owning, Deep
<1>7. Touched(t)' \subseteq Touched(t) /\ ~InCall(t)'
  BY <1>1, <1>5 DEF Touched, InCall
<1>. QED
  BY <1>1, <1>6, <1>7, TouchesNoMore

(* The return probes: the address stays held until it is recorded.         *)
LEMMA ExitOwns ==
  ASSUME Shape, Owning, NEW t \in Threads, step[t] = "exit", TakesSize(t, job[t].addr),
         UNCHANGED <<options, heap, entry, linked, combined>>
  PROVE  Owning' /\ Quiet(t)
<1>0. PICK a : a = job[t].addr
  OBVIOUS
<1>1. CASE Holds(t, a)
  <2>1. step' = [step EXCEPT ![t] = "record"] /\ calls' = calls
    BY <1>1 DEF Holds
  <2>2. job'[t].addr = a /\ \A u \in Threads \ {t} : job'[u] = job[u]
    <3>1. job' = [job EXCEPT ![t] = [[[job[t] EXCEPT !.addr = a] EXCEPT !.size = sizes[t]]
                                                            EXCEPT !.stack = Frame(t).stack]]
      BY <1>1 DEF Holds, Shape, TypeOK
    <3>2. job[t] \in Jobs
      BY DEF Shape, TypeOK
    <3>3. [[[job[t] EXCEPT !.addr = a] EXCEPT !.size = sizes[t]]
                                      EXCEPT !.stack = Frame(t).stack].addr = a
      BY <3>2 DEF Jobs
    <3>. QED
      BY <3>1, <3>3 DEF Shape, TypeOK
  <2>3. OnlyThread(t) /\ step'[t] = "record"
    BY <2>1, <2>2 DEF Shape, TypeOK, OnlyThread
  <2>4. Olds(t)' = Olds(t) /\ Touched(t)' = Touched(t)
    BY <1>0, <2>1, <2>2 DEF Olds, Touched
  <2>5. Deep(t)' /\ job'[t].addr \notin Olds(t)'
    BY <1>0, <2>1, <2>2, <2>4 DEF Owning, Owned, Deep, InCall
  <2>6. Quiet(t)
    BY <2>3 DEF Quiet
  <2>. QED
    BY <2>3, <2>4, <2>5, <2>6, TouchesNoMore
<1>2. CASE Pop(t) /\ Done(t)
  <2>1. calls[t] # <<>>
    BY DEF Shape, Position, InCall
  <2>2. Owning' /\ OnlyThread(t) /\ step'[t] = "idle"
    BY <1>2, <2>1, EndOwns
  <2>. QED
    BY <2>2 DEF Quiet
<1>. QED
  BY <1>0, <1>1, <1>2 DEF TakesSize

LEMMA MemalignExitEarlyOwns ==
  ASSUME Shape, Owning, NEW t \in Threads, MemalignExitEarly(t)
  PROVE  Owning' /\ Quiet(t)
<1>1. /\ step[t] = "exit" /\ Pop(t) /\ Done(t)
      /\ UNCHANGED <<options, heap, entry, linked, combined>>
  BY DEF MemalignExitEarly
<1>2. calls[t] # <<>>
  BY <1>1 DEF Shape, Position, InCall
<1>3. Owning' /\ OnlyThread(t) /\ step'[t] = "idle"
  BY <1>1, <1>2, EndOwns
<1>. QED
  BY <1>1, <1>3 DEF Quiet

LEMMA RecordOwns ==
  ASSUME Shape, Owning, NEW t \in Threads, Record(t)
  PROVE  Owning' /\ OnlyThread(t) /\ step'[t] = "count" /\ job'[t] = job[t]
<1>1. /\ step[t] = "record" /\ step' = [step EXCEPT ![t] = "count"]
      /\ UNCHANGED <<options, heap, calls, job>>
  BY DEF Record
<1>2. OnlyThread(t) /\ step'[t] = "count" /\ job'[t] = job[t]
  BY <1>1 DEF Shape, TypeOK, OnlyThread
<1>3. Olds(t)' = Olds(t) /\ Touched(t)' = Touched(t)
  BY <1>1 DEF Olds, Touched
<1>4. Deep(t)' /\ job'[t].addr \notin Olds(t)'
  BY <1>1, <1>3 DEF Owning, Owned, Deep, InCall
<1>. QED
  BY <1>1, <1>2, <1>3, <1>4, TouchesNoMore

LEMMA CountOwns ==
  ASSUME Shape, Owning, NEW t \in Threads, Count(t)
  PROVE  Owning' /\ OnlyThread(t) /\ step'[t] = "idle"
<1>1. step[t] = "count" /\ Pop(t) /\ Done(t) /\ UNCHANGED <<options, heap>>
  BY DEF Count
<1>2. calls[t] # <<>>
  BY <1>1 DEF Shape, Position, InCall
<1>. QED
  BY <1>1, <1>2, EndOwns

(* The kernel's allocators, and a free no probe sees.                      *)
LEMMA KernelAllocOwns ==
  ASSUME Shape, Owning, NEW t \in Threads, KernelAlloc(t)
  PROVE  Owning' /\ Quiet(t)
<1>1. PICK kind \in {"slab", "page"}, a \in Addresses \ DOMAIN heap, n \in Sizes, s \in Stacks :
        /\ Pushes(t, kind, n, s, Null, FALSE)
        /\ heap' = With(heap, a, [NewBlock(Frame(t)') EXCEPT !.plain = TRUE])
        /\ IF kind = "slab" /\ options.wa
           THEN LooksUp(t, a, "enter") /\ missed' = missed \ {a}
           ELSE LooksUpNot(t, a, "enter") /\ UNCHANGED missed
  BY DEF KernelAlloc
<1>2. Idle(t) /\ calls[t] = <<>> /\ UNCHANGED <<options, entry, linked, combined>>
  BY DEF KernelAlloc
<1>3. a # Null /\ a \in Addresses /\ a \notin DOMAIN heap
  BY NullAssumption
<1>4. Asked(kind, n, s, Null, FALSE)
  BY DEF Asked
<1>5. /\ \A u \in Threads \ {t} : calls'[u] = calls[u]
      /\ Len(calls'[t]) = 1 /\ Olds(t)' = {Null} \ {Null}
  BY <1>1, <1>2, <1>4, FirstCall, Zenon
<1>6. DOMAIN heap' = {a} \cup DOMAIN heap
  BY <1>1, Zenon DEF With
<1>7. /\ Moves(t) /\ step'[t] \in {"enter", "delete"} /\ job'[t].addr = a
      /\ step'[t] = "delete" => job'[t].slot \in linked /\ entry[job'[t].slot].addr = a
  <2>1. CASE LooksUp(t, a, "enter")
    BY <1>3, <2>1, LooksUpMoves DEF Shape
  <2>2. CASE LooksUpNot(t, a, "enter")
    BY <1>3, <2>2, LooksUpNotMoves DEF Shape
  <2>. QED
    BY <1>1, <2>1, <2>2
<1>8. OnlyThread(t) /\ Quiet(t)
  BY <1>2, <1>5, <1>7 DEF Moves, OnlyThread, Quiet, Idle
<1>9. Olds(t)' = {} /\ Touched(t)' = {a}
  BY <1>3, <1>5, <1>7 DEF Touched
<1>10. Owned(t)' /\ Deep(t)'
  BY <1>5, <1>6, <1>9 DEF Owned, Deep
<1>11. \A u \in Threads : a \notin Touched(u) /\ Touched(u) \subseteq DOMAIN heap'
  BY <1>3, <1>6 DEF Owning, Owned
<1>. QED
  BY <1>2, <1>8, <1>9, <1>10, <1>11, OwnsRule

LEMMA MissedFreeOwns ==
  ASSUME Shape, Owning, MissedFree
  PROVE  Owning'
<1>1. PICK a \in Freeable : heap' = Without(a)
  BY DEF MissedFree
<1>2. UNCHANGED <<options, calls, step, job>>
  BY DEF MissedFree
<1>3. \A u \in Threads : a \notin Touched(u)
  BY FreeableIsFree
<1>4. DOMAIN heap' = DOMAIN heap \ {a}
  BY <1>1, Cut DEF Without
<1>5. ASSUME NEW u \in Threads
      PROVE  Touched(u)' = Touched(u) /\ Owned(u)' /\ Deep(u)'
  <2>1. Olds(u)' = Olds(u) /\ Touched(u)' = Touched(u)
    BY <1>2 DEF Olds, Touched
  <2>2. Owned(u) /\ Deep(u)
    BY DEF Owning
  <2>. QED
    BY <1>2, <1>3, <1>4, <2>1, <2>2 DEF Owned, Deep, InCall
<1>. QED
  BY <1>5 DEF Owning, Apart

-----------------------------------------------------------------------------
(* Both fields in one word *)

(* What the division of a number by a positive one leaves.                 *)
LEMMA ModIsUnique ==
  ASSUME NEW w \in Nat \ {0}, NEW a \in Int, NEW q \in Int, NEW r \in 0 .. w - 1,
         a = w * q + r
  PROVE  a % w = r /\ a \div w = q
<1>1. /\ a \div w \in Int /\ a % w \in 0 .. w - 1
      /\ a = w * (a \div w) + (a % w)
  OBVIOUS
<1>. DEFINE d == (a \div w) - q
<1>2. w * d = r - (a % w)
  BY <1>1
<1>3. d \in Int /\ r - (a % w) < w /\ r - (a % w) > -w
  BY <1>1
<1>. HIDE DEF d
<1>4. ~(d >= 1)
  BY <1>2, <1>3
<1>5. ~(d <= -1)
  BY <1>2, <1>3
<1>6. d = 0
  BY <1>3, <1>4, <1>5
<1>7. a % w = r
  BY <1>1, <1>2, <1>6
<1>8. a \div w = q
  BY <1>1, <1>6 DEF d
<1>. QED
  BY <1>7, <1>8

(* Adding to a word that was cut is adding before the cut.                 *)
LEMMA AddsToWord ==
  ASSUME NEW b \in Int, NEW a \in Int
  PROVE  Word(Word(b) + a) = Word(b + a)
<1>. DEFINE w == TotalLimit * CountLimit
            c == (b % w) + a
<1>1. w \in Nat \ {0}
  <2>1. TotalLimit \in Nat \ {0} /\ CountLimit \in Nat \ {0}
    BY LimitsAssumption
  <2>. QED
    BY <2>1, SMT
<1>. HIDE DEF w
<1>2. /\ b \div w \in Int /\ b % w \in 0 .. w - 1
      /\ b = w * (b \div w) + (b % w)
  BY <1>1
<1>3. /\ c \div w \in Int /\ c % w \in 0 .. w - 1
      /\ c = w * (c \div w) + (c % w)
  BY <1>1, <1>2
<1>4. b + a = w * ((b \div w) + (c \div w)) + (c % w)
  BY <1>1, <1>2, <1>3
<1>5. (b + a) % w = c % w
  <2>. DEFINE q == (b \div w) + (c \div w)
  <2>1. b + a \in Int /\ q \in Int
    BY <1>2, <1>3
  <2>. HIDE DEF q, c
  <2>2. b + a = w * q + (c % w)
    BY <1>4 DEF q
  <2>. QED
    BY <1>1, <1>3, <2>1, <2>2, ModIsUnique
<1>. QED
  BY <1>5 DEF Word, w

(* What fits both fields is read back from them.                           *)
LEMMA FieldsRead ==
  ASSUME NEW n \in Nat, NEW c \in Nat, n < TotalLimit, c < CountLimit
  PROVE  /\ TotalSize(Word(n + TotalLimit * c)) = n
         /\ NumberOfAllocs(Word(n + TotalLimit * c)) = c
<1>. DEFINE z == n + TotalLimit * c
            w == TotalLimit * CountLimit
<1>1. TotalLimit \in Nat \ {0} /\ CountLimit \in Nat \ {0}
  BY LimitsAssumption
<1>2. TotalLimit * c \in Nat /\ TotalLimit * c + TotalLimit <= w /\ w \in Nat \ {0}
  <2>1. \A l, m, k \in Nat : k < m => l * k \in Nat /\ l * k + l <= l * m
    <3>. SUFFICES ASSUME NEW l \in Nat, NEW m \in Nat, NEW k \in Nat, k < m
                  PROVE  l * k \in Nat /\ l * k + l <= l * m
      OBVIOUS
    <3>1. m - k - 1 \in Nat /\ l * (m - k - 1) \in Nat
      BY SMT
    <3>2. l * m = l * k + l + l * (m - k - 1)
      BY SMT
    <3>. QED
      BY <3>1, <3>2, SMT
  <2>2. \A l, m \in Nat \ {0} : l * m \in Nat \ {0}
    BY SMT
  <2>. QED
    BY <1>1, <2>1, <2>2
<1>3. z \in 0 .. w - 1
  <2>. HIDE DEF w
  <2>. QED
    BY <1>1, <1>2
<1>4. z % w = z
  <2>. HIDE DEF w, z
  <2>. QED
    BY <1>2, <1>3
<1>5. z % TotalLimit = n /\ z \div TotalLimit = c
  <2>1. z \in Int /\ z = TotalLimit * c + n /\ n \in 0 .. TotalLimit - 1 /\ c \in Int
    BY <1>1, <1>2
  <2>. HIDE DEF z
  <2>. QED
    BY <1>1, <2>1, ModIsUnique
<1>. QED
  BY <1>4, <1>5 DEF TotalSize, NumberOfAllocs, Word

-----------------------------------------------------------------------------
(* The statistics *)

(* None of what unbalances the statistics for good has happened.           *)
Clean == anomaly \cap {"torn read", "map full", "overwritten", "failed memalign"} = {}

(* What a probe between a record and its statistics can rely on.           *)
Knows(t) ==
  /\ step[t] = "delete" => job[t].slot \in linked /\ entry[job[t].slot].addr = job[t].addr
  /\ step[t] = "uncount" => Recorded(job[t].addr) = {}
  /\ step[t] = "count" =>
       \E k \in Recorded(job[t].addr) :
         entry[k].size = job[t].size /\ entry[k].stack = job[t].stack

(* No deleted element that is still to be read has been filled again.      *)
Unspoilt == \A t \in Threads : step[t] = "uncount" => entry[job[t].slot].addr = job[t].addr

(* The slots whose records the statistics stand for.                       *)
Stands ==
  {k \in linked : \A t \in Threads : ~(step[t] = "count" /\ job[t].addr = entry[k].addr)}
    \cup {job[t].slot : t \in {u \in Threads : step[u] = "uncount"}}

Standing(s) == {k \in Stands : entry[k].stack = s}

WeightIn(e) == [k \in Slots |-> IF e[k] \in Records THEN Increment(e[k].size) ELSE 0]

Weight == WeightIn(entry)

Tally(s) == Total(Weight, Standing(s))

(* A stack that is not in the map has no record, or found no room.         *)
Balanced(s) ==
  /\ s \in DOMAIN combined => combined[s] = Word(Tally(s))
  /\ s \notin DOMAIN combined =>
       Standing(s) = {} \/ Cardinality(DOMAIN combined \cup {s}) > MaxCombined

(* The inductive invariant: unless something went wrong, every probe can   *)
(* rely on what it knows, and, while no deleted element has been filled    *)
(* again, every stack's word is that of the records it stands for.         *)
Statistics ==
  Clean => /\ Owning
           /\ \A t \in Threads : Knows(t)
           /\ Unspoilt => \A s \in Stacks : Balanced(s)

(* The slots are of the map, and hold records.                             *)
LEMMA StandsOf ==
  ASSUME Shape
  PROVE  Stands \subseteq Slots /\ \A k \in Stands : entry[k] \in Records
BY DEF Shape, TypeOK, Elements, Position, Stands

LEMMA WeightIsOne ==
  ASSUME NEW e
  PROVE  /\ WeightIn(e) \in Weights
         /\ \A k \in Slots : e[k] \in Records => WeightIn(e)[k] = Increment(e[k].size)
<1>1. TotalLimit \in Nat \ {0}
  BY LimitsAssumption
<1>2. \A n \in Nat : Increment(n) \in Nat
  BY <1>1 DEF Increment
<1>3. \A r \in Records : r.size \in Nat
  BY SizesAssumption DEF Records
<1>. QED
  BY <1>2, <1>3 DEF WeightIn, Weights

(* What went wrong stays so.                                               *)
LEMMA CleanBefore ==
  ASSUME anomaly \subseteq anomaly', Clean'
  PROVE  Clean
BY DEF Clean

(* A step that leaves the statistics, and the records they stand for.      *)
LEMMA BalanceKept ==
  ASSUME Shape, combined' = combined, NEW s \in Stacks, Balanced(s),
         Stands' = Stands, \A k \in Stands : entry'[k] = entry[k]
  PROVE  Balanced(s)'
<1>1. Stands \subseteq Slots /\ \A k \in Stands : entry[k] \in Records
  BY StandsOf
<1>2. Standing(s)' = Standing(s)
  BY DEF Standing
<1>3. WeightIn(entry) \in Weights /\ WeightIn(entry') \in Weights
  BY WeightIsOne
<1>4. /\ Standing(s) \in SUBSET Slots
      /\ \A k \in Standing(s) : WeightIn(entry)[k] = WeightIn(entry')[k]
  BY <1>1 DEF Standing, WeightIn
<1>5. Total(WeightIn(entry), Standing(s)) = Total(WeightIn(entry'), Standing(s))
  BY <1>3, <1>4, TotalAgrees
<1>6. Tally(s)' = Tally(s)
  BY <1>2, <1>5 DEF Tally, Weight, WeightIn, Total, Totals
<1>. QED
  BY <1>2, <1>6 DEF Balanced

-----------------------------------------------------------------------------
(* What a step does to the statistics *)

(* A probe about to record, or with a record in hand, holds its address.   *)
AtRecord == {"delete", "uncount", "record", "count"}

(* It touches that address, and no other thread does.                      *)
LEMMA HoldsAddress ==
  ASSUME Shape, NEW t \in Threads, step[t] \in AtRecord
  PROVE  job[t].addr \in Addresses /\ job[t].addr \in Touched(t)
<1>1. job[t].addr \in Addresses
  BY DEF Shape, Position, Before, AtRecord
<1>. QED
  BY <1>1, NullAssumption DEF Touched

LEMMA HeldApart ==
  ASSUME Shape, Owning, NEW t \in Threads, NEW u \in Threads, t # u,
         step[t] \in AtRecord, step[u] \in AtRecord
  PROVE  job[t].addr # job[u].addr
BY HoldsAddress DEF Owning, Apart

StillRecorded(a) == Recorded(a)' = Recorded(a) /\ \A k \in Recorded(a) : entry'[k] = entry[k]

(* What a thread relies on is kept while the record it is about is.        *)
LEMMA KnowsKept ==
  ASSUME NEW t \in Threads, OnlyThread(t), NEW u \in Threads, u # t, Knows(u),
         step[u] \in AtRecord => StillRecorded(job[u].addr)
  PROVE  Knows(u)'
<1>1. step'[u] = step[u] /\ job'[u] = job[u]
  BY DEF OnlyThread
<1>2. PICK a : a = job[u].addr
  OBVIOUS
<1>3. PICK R : R = Recorded(a)
  OBVIOUS
<1>4. job'[u].addr = a
  BY <1>1, <1>2
<1>5. Recorded(job[u].addr) = R
  BY <1>2, <1>3
<1>6. step[u] \in AtRecord => Recorded(job[u].addr)' = R /\ \A k \in R : entry'[k] = entry[k]
  BY <1>1, <1>2, <1>3, <1>4 DEF StillRecorded, Recorded
<1>7. CASE step[u] = "delete"
  <2>1. job[u].slot \in R
    BY <1>2, <1>5, <1>7 DEF Knows, Recorded
  <2>2. job[u].slot \in Recorded(job[u].addr)'
    BY <1>6, <1>7, <2>1 DEF AtRecord
  <2>. QED
    BY <1>1, <1>7, <2>2 DEF Knows, Recorded
<1>8. CASE step[u] = "uncount"
  BY <1>1, <1>5, <1>6, <1>8 DEF Knows, AtRecord
<1>9. CASE step[u] = "count"
  BY <1>1, <1>5, <1>6, <1>9 DEF Knows, AtRecord
<1>10. CASE step[u] \notin {"delete", "uncount", "count"}
  BY <1>1, <1>10 DEF Knows
<1>. QED
  BY <1>7, <1>8, <1>9, <1>10

(* A slot the statistics stand for, one way or the other.                  *)
LEMMA Standings ==
  \A k : k \in Stands <=>
    \/ k \in linked /\ \A t \in Threads : ~(step[t] = "count" /\ job[t].addr = entry[k].addr)
    \/ \E t \in Threads : step[t] = "uncount" /\ job[t].slot = k
BY DEF Stands

(* A quiet step leaves the statistics what they were.                      *)
LEMMA QuietStatistics ==
  ASSUME Shape, Statistics, anomaly \subseteq anomaly', NEW t \in Threads,
         Clean' /\ Owning => Owning' /\ Quiet(t)
  PROVE  Statistics'
<1>. SUFFICES ASSUME Clean'
              PROVE  /\ Owning' /\ \A u \in Threads : Knows(u)'
                     /\ Unspoilt' => \A s \in Stacks : Balanced(s)'
  BY DEF Statistics
<1>1. /\ Owning /\ \A u \in Threads : Knows(u)
      /\ Unspoilt => \A s \in Stacks : Balanced(s)
  BY CleanBefore DEF Statistics
<1>2. Owning' /\ Quiet(t)
  BY <1>1
<1>3. /\ OnlyThread(t) /\ UNCHANGED <<entry, linked, combined>>
      /\ step[t] \notin {"delete", "uncount", "count"} /\ step'[t] \notin {"uncount", "count"}
      /\ step'[t] = "delete" =>
           job'[t].slot \in linked /\ entry[job'[t].slot].addr = job'[t].addr
  BY <1>2 DEF Quiet
<1>4. \A u \in Threads \ {t} : step'[u] = step[u] /\ job'[u] = job[u]
  BY <1>3 DEF OnlyThread
<1>5. ASSUME NEW u \in Threads PROVE Knows(u)'
  <2>1. CASE u = t
    BY <1>3, <2>1 DEF Knows
  <2>2. CASE u # t
    <3>1. StillRecorded(job[u].addr)
      BY <1>3, <1>4, <2>2 DEF StillRecorded, Recorded
    <3>. QED
      BY <1>1, <1>3, <2>2, <3>1, KnowsKept
  <2>. QED
    BY <2>1, <2>2
<1>6. Stands' = Stands
  BY <1>3, <1>4 DEF Stands
<1>7. Unspoilt' => Unspoilt
  BY <1>3, <1>4 DEF Unspoilt
<1>. QED
  BY <1>1, <1>2, <1>3, <1>5, <1>6, <1>7, BalanceKept

(* A deleted record counts until its size has been subtracted.             *)
LEMMA DeleteStatistics ==
  ASSUME Shape, Statistics, NEW t \in Threads, Delete(t)
  PROVE  Statistics'
<1>. SUFFICES ASSUME Clean'
              PROVE  /\ Owning' /\ \A u \in Threads : Knows(u)'
                     /\ Unspoilt' => \A s \in Stacks : Balanced(s)'
  BY DEF Statistics
<1>1. /\ step[t] = "delete" /\ linked' = linked \ Recorded(job[t].addr)
      /\ UNCHANGED <<job, entry, combined, anomaly>>
  BY DEF Delete
<1>2. /\ Owning /\ \A u \in Threads : Knows(u)
      /\ Unspoilt => \A s \in Stacks : Balanced(s)
  BY <1>1, CleanBefore DEF Statistics
<1>3. Owning' /\ OnlyThread(t) /\ step'[t] = "uncount"
  BY <1>2, DeleteOwns
<1>4. \A u \in Threads \ {t} : step'[u] = step[u] /\ job'[u] = job[u]
  BY <1>3 DEF OnlyThread
<1>5. PICK d \in Recorded(job[t].addr) : job[t].slot = d
  BY <1>1, <1>2 DEF Knows, Recorded
<1>6. Recorded(job[t].addr) = {d} /\ entry[d].addr = job[t].addr /\ d \in linked
  BY <1>5 DEF Shape, Elements, Recorded
<1>7. ASSUME NEW u \in Threads PROVE Knows(u)'
  <2>1. CASE u = t
    BY <1>1, <1>3, <2>1 DEF Knows, Recorded
  <2>2. CASE u # t
    <3>1. step[u] \in AtRecord => job[u].addr # job[t].addr
      BY <1>1, <1>2, <2>2, HeldApart DEF AtRecord
    <3>2. step[u] \in AtRecord => StillRecorded(job[u].addr)
      BY <1>1, <2>2, <3>1 DEF StillRecorded, Recorded
    <3>. QED
      BY <1>2, <1>3, <2>2, <3>2, KnowsKept
  <2>. QED
    BY <2>1, <2>2
<1>8. \A u \in Threads : step[u] = "count" => job[u].addr # entry[d].addr
  BY <1>1, <1>2, <1>6, HeldApart DEF AtRecord
<1>9. Stands' = Stands
  <2>1. ASSUME NEW k \in Stands PROVE k \in Stands'
    <3>1. CASE k \in linked /\ k # d /\ \A u \in Threads : ~(step[u] = "count" /\ job[u].addr = entry[k].addr)
      BY <1>1, <1>3, <1>4, <1>6, <3>1 DEF Stands
    <3>2. CASE k = d
      BY <1>1, <1>3, <1>5, <3>2 DEF Stands
    <3>3. CASE \E u \in Threads : step[u] = "uncount" /\ job[u].slot = k
      BY <1>1, <1>3, <1>4, <3>3 DEF Stands
    <3>. QED
      BY <3>1, <3>2, <3>3, Standings
  <2>2. ASSUME NEW k \in Stands' PROVE k \in Stands
    <3>1. CASE k \in linked' /\ \A u \in Threads : ~(step'[u] = "count" /\ job'[u].addr = entry'[k].addr)
      BY <1>1, <1>3, <1>4, <3>1 DEF Stands
    <3>2. CASE \E u \in Threads : step'[u] = "uncount" /\ job'[u].slot = k
      <4>1. PICK u \in Threads : step'[u] = "uncount" /\ job'[u].slot = k
        BY <3>2
      <4>2. CASE u = t
        BY <1>1, <1>5, <1>6, <1>8, <4>1, <4>2 DEF Stands
      <4>3. CASE u # t
        BY <1>4, <4>1, <4>3 DEF Stands
      <4>. QED
        BY <4>2, <4>3
    <3>. QED
      BY <3>1, <3>2 DEF Stands
  <2>. QED
    BY <2>1, <2>2
<1>10. Unspoilt' => Unspoilt
  BY <1>1, <1>4 DEF Unspoilt
<1>. QED
  BY <1>1, <1>2, <1>3, <1>7, <1>9, <1>10, BalanceKept

(* The subtraction takes away the one slot that was deleted.               *)
LEMMA UncountStatistics ==
  ASSUME Shape, Statistics, NEW t \in Threads, Uncount(t)
  PROVE  Statistics'
<1>. SUFFICES ASSUME Clean'
              PROVE  /\ Owning' /\ \A u \in Threads : Knows(u)'
                     /\ Unspoilt' => \A s \in Stacks : Balanced(s)'
  BY DEF Statistics
<1>0. PICK d : d = job[t].slot
  OBVIOUS
<1>1. /\ step[t] = "uncount"
      /\ combined' = IF entry[d].stack \in DOMAIN combined
                     THEN [combined EXCEPT ![entry[d].stack] = Word(@ - Increment(entry[d].size))]
                     ELSE combined
      /\ anomaly' = IF entry[d].addr = job[t].addr /\ d \notin linked
                    THEN anomaly ELSE anomaly \cup {"torn read"}
      /\ UNCHANGED <<job, entry, linked>>
  BY <1>0 DEF Uncount
<1>2. entry[d].addr = job[t].addr /\ d \notin linked /\ anomaly' = anomaly
  BY <1>1 DEF Clean
<1>3. /\ Owning /\ \A u \in Threads : Knows(u)
      /\ Unspoilt => \A s \in Stacks : Balanced(s)
  BY <1>2, CleanBefore DEF Statistics
<1>4. Owning' /\ OnlyThread(t) /\ step'[t] \in {"enter", "free"}
  BY <1>3, UncountOwns
<1>5. \A u \in Threads \ {t} : step'[u] = step[u] /\ job'[u] = job[u]
  BY <1>4 DEF OnlyThread
<1>6. ASSUME NEW u \in Threads PROVE Knows(u)'
  <2>1. CASE u = t
    BY <1>4, <2>1 DEF Knows
  <2>2. CASE u # t
    <3>1. StillRecorded(job[u].addr)
      BY <1>1, <2>2 DEF StillRecorded, Recorded
    <3>. QED
      BY <1>3, <1>4, <2>2, <3>1, KnowsKept
  <2>. QED
    BY <2>1, <2>2
<1>7. Unspoilt' => Unspoilt
  BY <1>0, <1>1, <1>2, <1>5 DEF Unspoilt
<1>8. ASSUME Unspoilt PROVE d \in Stands /\ Stands' = Stands \ {d}
  <2>1. \A u \in Threads \ {t} : step[u] = "uncount" => job[u].slot # d
    BY <1>1, <1>2, <1>3, <1>8, HeldApart DEF Unspoilt, AtRecord
  <2>2. d \in Stands
    BY <1>0, <1>1 DEF Stands
  <2>3. d \notin Stands'
    BY <1>1, <1>2, <1>4, <1>5, <2>1 DEF Stands
  <2>4. ASSUME NEW k \in Stands, k # d PROVE k \in Stands'
    <3>1. CASE k \in linked /\ \A u \in Threads : ~(step[u] = "count" /\ job[u].addr = entry[k].addr)
      BY <1>1, <1>4, <1>5, <3>1 DEF Stands
    <3>2. CASE \E u \in Threads : step[u] = "uncount" /\ job[u].slot = k
      <4>1. PICK u \in Threads : step[u] = "uncount" /\ job[u].slot = k
        BY <3>2
      <4>2. u # t
        BY <1>0, <2>4, <4>1
      <4>3. step'[u] = "uncount" /\ job'[u].slot = k
        BY <1>5, <4>1, <4>2
      <4>. QED
        BY <4>3 DEF Stands
    <3>. QED
      BY <3>1, <3>2, Standings
  <2>5. ASSUME NEW k \in Stands' PROVE k \in Stands
    <3>1. CASE k \in linked' /\ \A u \in Threads : ~(step'[u] = "count" /\ job'[u].addr = entry'[k].addr)
      BY <1>1, <1>4, <1>5, <3>1 DEF Stands
    <3>2. CASE \E u \in Threads : step'[u] = "uncount" /\ job'[u].slot = k
      BY <1>1, <1>4, <1>5, <3>2 DEF Stands
    <3>. QED
      BY <3>1, <3>2 DEF Stands
  <2>. QED
    BY <2>2, <2>3, <2>4, <2>5
<1>9. ASSUME Unspoilt, NEW s \in Stacks, Balanced(s) PROVE Balanced(s)'
  <2>1. d \in Stands /\ Stands' = Stands \ {d} /\ DOMAIN combined' = DOMAIN combined
    BY <1>1, <1>8, <1>9
  <2>2. PICK w \in Weights : w = Weight
    BY WeightIsOne DEF Weight
  <2>3. Weight' = w /\ Tally(s) = Total(w, Standing(s)) /\ Tally(s)' = Total(w, Standing(s)')
    BY <1>1, <2>2 DEF Weight, Tally, Total, Totals
  <2>4. Stands \subseteq Slots /\ entry[d] \in Records
    BY <2>1, StandsOf
  <2>5. CASE entry[d].stack # s
    <3>1. Standing(s)' = Standing(s)
      BY <1>1, <2>1, <2>5 DEF Standing
    <3>2. s \in DOMAIN combined => combined'[s] = combined[s]
      BY <1>1, <2>5
    <3>. QED
      BY <1>9, <2>1, <2>3, <3>1, <3>2 DEF Balanced
  <2>6. CASE entry[d].stack = s
    <3>1. /\ d \in Standing(s) /\ Standing(s)' = Standing(s) \ {d}
          /\ Standing(s) \in SUBSET Slots /\ Standing(s) \ {d} \in SUBSET Slots
      BY <1>1, <2>1, <2>4, <2>6 DEF Standing
    <3>2. w[d] = Increment(entry[d].size)
      BY <2>1, <2>2, <2>4, WeightIsOne DEF Weight
    <3>3. /\ Tally(s) = w[d] + Tally(s)' /\ Tally(s) \in Nat /\ Tally(s)' \in Nat
      BY <2>3, <3>1, TotalAdds
    <3>4. w[d] \in Nat
      BY <2>1, <2>4 DEF Weights
    <3>5. CASE s \in DOMAIN combined
      <4>1. combined'[s] = Word(Word(Tally(s)) - w[d])
        BY <1>1, <1>9, <2>6, <3>2, <3>5 DEF Balanced
      <4>2. Word(Word(Tally(s)) - w[d]) = Word(Tally(s)')
        <5>1. PICK x \in Nat, y \in Nat, z \in Nat :
                x = Tally(s) /\ y = Tally(s)' /\ z = w[d] /\ x = z + y
          BY <3>3, <3>4
        <5>2. Word(x) \in Int
          BY WordsAreWords DEF Words
        <5>3. Word(x) - z = Word(x) + (-z) /\ x + (-z) = y /\ -z \in Int /\ x \in Int
          BY <5>1, <5>2
        <5>4. Word(Word(x) + (-z)) = Word(x + (-z))
          BY <5>3, AddsToWord
        <5>. QED
          BY <5>1, <5>3, <5>4
      <4>. QED
        BY <2>1, <3>5, <4>1, <4>2 DEF Balanced
    <3>6. CASE s \notin DOMAIN combined
      BY <1>9, <2>1, <3>1, <3>6 DEF Balanced
    <3>. QED
      BY <3>5, <3>6
  <2>. QED
    BY <2>5, <2>6
<1>. QED
  BY <1>3, <1>4, <1>6, <1>7, <1>9

(* A new record does not count yet, and fills no slot that does.           *)
LEMMA RecordStatistics ==
  ASSUME Shape, Statistics, NEW t \in Threads, Record(t)
  PROVE  Statistics'
<1>. SUFFICES ASSUME Clean'
              PROVE  /\ Owning' /\ \A u \in Threads : Knows(u)'
                     /\ Unspoilt' => \A s \in Stacks : Balanced(s)'
  BY DEF Statistics
<1>0. PICK a : a = job[t].addr
  OBVIOUS
<1>1. /\ step[t] = "record" /\ UNCHANGED <<job, combined>>
      /\ IF Slots = linked /\ Recorded(a) = {}
         THEN UNCHANGED <<entry, linked>> /\ anomaly' = anomaly \cup {"map full"}
         ELSE \E k \in IF Slots = linked THEN Recorded(a) ELSE Slots \ linked :
                /\ entry' = [entry EXCEPT ![k] = [addr |-> a, size |-> job[t].size,
                                                  stack |-> job[t].stack]]
                /\ linked' = (linked \ Recorded(a)) \cup {k}
                /\ anomaly' = IF Recorded(a) = {} THEN anomaly ELSE anomaly \cup {"overwritten"}
  BY <1>0, Zenon DEF Record
<1>2. "map full" \notin anomaly' /\ "overwritten" \notin anomaly'
  BY DEF Clean
<1>3. ~(Slots = linked /\ Recorded(a) = {})
  BY <1>1, <1>2
<1>4. PICK k \in IF Slots = linked THEN Recorded(a) ELSE Slots \ linked :
        /\ entry' = [entry EXCEPT ![k] = [addr |-> a, size |-> job[t].size,
                                          stack |-> job[t].stack]]
        /\ linked' = (linked \ Recorded(a)) \cup {k}
        /\ anomaly' = IF Recorded(a) = {} THEN anomaly ELSE anomaly \cup {"overwritten"}
  BY <1>1, <1>3, Zenon
<1>5. Recorded(a) = {} /\ anomaly' = anomaly /\ k \in Slots \ linked /\ linked' = linked \cup {k}
  BY <1>2, <1>3, <1>4
<1>6. /\ entry'[k].addr = a /\ entry'[k].size = job[t].size /\ entry'[k].stack = job[t].stack
      /\ \A j \in Slots \ {k} : entry'[j] = entry[j]
  BY <1>4, <1>5 DEF Shape, TypeOK
<1>7. /\ Owning /\ \A u \in Threads : Knows(u)
      /\ Unspoilt => \A s \in Stacks : Balanced(s)
  BY <1>5, CleanBefore DEF Statistics
<1>8. Owning' /\ OnlyThread(t) /\ step'[t] = "count" /\ job'[t] = job[t]
  BY <1>7, RecordOwns
<1>9. \A u \in Threads \ {t} : step'[u] = step[u] /\ job'[u] = job[u]
  BY <1>8 DEF OnlyThread
<1>10. \A u \in Threads \ {t} : step[u] \in AtRecord => job[u].addr # a
  BY <1>0, <1>1, <1>7, HeldApart DEF AtRecord
<1>11. linked \subseteq Slots
  BY DEF Shape, TypeOK
<1>12. ASSUME NEW u \in Threads PROVE Knows(u)'
  <2>1. CASE u = t
    BY <1>0, <1>5, <1>6, <1>8, <2>1 DEF Knows, Recorded
  <2>2. CASE u # t
    <3>1. ASSUME step[u] \in AtRecord PROVE StillRecorded(job[u].addr)
      <4>1. job[u].addr # a /\ job'[u] = job[u]
        BY <1>1, <1>10, <2>2, <3>1
      <4>2. \A j \in linked : j # k /\ entry'[j] = entry[j]
        BY <1>5, <1>6, <1>11
      <4>3. \A j : j \in linked' <=> j \in linked \/ j = k
        BY <1>5
      <4>4. ASSUME NEW j
            PROVE  j \in linked' /\ entry'[j].addr = job[u].addr
                     <=> j \in linked /\ entry[j].addr = job[u].addr
        BY <1>6, <4>1, <4>2, <4>3
      <4>. QED
        BY <4>1, <4>2, <4>4 DEF StillRecorded, Recorded
    <3>. QED
      BY <1>7, <1>8, <2>2, <3>1, KnowsKept
  <2>. QED
    BY <2>1, <2>2
<1>13. ASSUME Unspoilt', NEW u \in Threads, step[u] = "uncount"
       PROVE  job[u].slot \in Slots \ {k} /\ entry[job[u].slot].addr = job[u].addr
  <2>1. u # t /\ job[u].slot \in Slots /\ job[u].addr # a
    BY <1>1, <1>10, <1>13 DEF Shape, Position, AtRecord
  <2>2. entry'[job[u].slot].addr = job[u].addr
    BY <1>9, <1>13, <2>1 DEF Unspoilt
  <2>. QED
    BY <1>6, <2>1, <2>2
<1>14. Unspoilt' => Unspoilt
  BY <1>13 DEF Unspoilt
<1>15. ASSUME Unspoilt' PROVE Stands' = Stands /\ \A j \in Stands : entry'[j] = entry[j]
  <2>1. k \notin Stands /\ k \notin Stands'
    <3>1. \A u \in Threads : step[u] = "uncount" => job[u].slot # k
      BY <1>13, <1>15
    <3>2. \A u \in Threads : step'[u] = "uncount" => job'[u].slot # k
      BY <1>8, <1>9, <3>1
    <3>. QED
      BY <1>0, <1>5, <1>6, <1>8, <3>1, <3>2 DEF Stands
  <2>2. Stands \subseteq Slots
    BY StandsOf
  <2>3. \A j \in Stands : entry'[j] = entry[j]
    BY <1>6, <2>1, <2>2
  <2>4. \A j \in linked : entry[j].addr # a
    BY <1>5 DEF Recorded
  <2>5. ASSUME NEW j \in Stands PROVE j \in Stands'
    <3>1. CASE j \in linked /\ \A u \in Threads : ~(step[u] = "count" /\ job[u].addr = entry[j].addr)
      <4>1. ASSUME NEW u \in Threads PROVE ~(step'[u] = "count" /\ job'[u].addr = entry'[j].addr)
        BY <1>0, <1>8, <1>9, <2>3, <2>4, <2>5, <3>1
      <4>. QED
        BY <1>5, <3>1, <4>1 DEF Stands
    <3>2. CASE \E u \in Threads : step[u] = "uncount" /\ job[u].slot = j
      BY <1>1, <1>9, <3>2 DEF Stands
    <3>. QED
      BY <3>1, <3>2, Standings
  <2>6. ASSUME NEW j \in Stands' PROVE j \in Stands
    <3>1. CASE j \in linked' /\ \A u \in Threads : ~(step'[u] = "count" /\ job'[u].addr = entry'[j].addr)
      <4>1. j \in linked /\ entry'[j] = entry[j]
        BY <1>5, <1>6, <1>11, <2>1, <2>6, <3>1
      <4>2. ASSUME NEW u \in Threads PROVE ~(step[u] = "count" /\ job[u].addr = entry[j].addr)
        BY <1>1, <1>9, <3>1, <4>1
      <4>. QED
        BY <4>1, <4>2 DEF Stands
    <3>2. CASE \E u \in Threads : step'[u] = "uncount" /\ job'[u].slot = j
      BY <1>8, <1>9, <3>2 DEF Stands
    <3>. QED
      BY <3>1, <3>2 DEF Stands
  <2>. QED
    BY <2>3, <2>5, <2>6
<1>. QED
  BY <1>1, <1>7, <1>8, <1>12, <1>14, <1>15, BalanceKept

(* The addition counts the slot just filled, if its stack has room.        *)
LEMMA CountStatistics ==
  ASSUME Shape, Statistics, NEW t \in Threads, Count(t)
  PROVE  Statistics'
<1>. SUFFICES ASSUME Clean'
              PROVE  /\ Owning' /\ \A u \in Threads : Knows(u)'
                     /\ Unspoilt' => \A s \in Stacks : Balanced(s)'
  BY DEF Statistics
<1>0. PICK a, z, n, D : /\ a = job[t].addr /\ z = job[t].stack /\ n = job[t].size
                        /\ D = DOMAIN combined
  OBVIOUS
<1>1. /\ step[t] = "count"
      /\ combined' = IF Cardinality(D \cup {z}) <= MaxCombined
                     THEN With(combined, z,
                               Word((IF z \in D THEN combined[z] ELSE 0) + Increment(n)))
                     ELSE combined
      /\ UNCHANGED <<entry, linked, anomaly>>
  BY <1>0, Zenon DEF Count
<1>2. /\ Owning /\ \A u \in Threads : Knows(u)
      /\ Unspoilt => \A s \in Stacks : Balanced(s)
  BY <1>1, CleanBefore DEF Statistics
<1>3. Owning' /\ OnlyThread(t) /\ step'[t] = "idle"
  BY <1>2, CountOwns
<1>4. \A u \in Threads \ {t} : step'[u] = step[u] /\ job'[u] = job[u]
  BY <1>3 DEF OnlyThread
<1>5. PICK k \in Recorded(a) : entry[k].size = n /\ entry[k].stack = z
  BY <1>0, <1>1, <1>2 DEF Knows
<1>6. /\ k \in linked /\ entry[k].addr = a
      /\ \A j \in linked : entry[j].addr = a => j = k
  BY <1>5 DEF Shape, Elements, Recorded
<1>7. \A u \in Threads \ {t} : step[u] \in AtRecord => job[u].addr # a
  BY <1>0, <1>1, <1>2, HeldApart DEF AtRecord
<1>8. ASSUME NEW u \in Threads PROVE Knows(u)'
  <2>1. CASE u = t
    BY <1>3, <2>1 DEF Knows
  <2>2. CASE u # t
    <3>1. StillRecorded(job[u].addr)
      BY <1>1, <1>4, <2>2 DEF StillRecorded, Recorded
    <3>. QED
      BY <1>2, <1>3, <2>2, <3>1, KnowsKept
  <2>. QED
    BY <2>1, <2>2
<1>9. Unspoilt' => Unspoilt
  BY <1>1, <1>4 DEF Unspoilt
<1>10. ASSUME Unspoilt PROVE k \notin Stands /\ Stands' = Stands \cup {k}
  <2>1. \A u \in Threads : step[u] = "uncount" => job[u].slot # k
    BY <1>1, <1>6, <1>7, <1>10 DEF Unspoilt, AtRecord
  <2>2. k \notin Stands
    BY <1>0, <1>1, <1>6, <2>1 DEF Stands
  <2>3. k \in Stands'
    BY <1>1, <1>3, <1>4, <1>6, <1>7 DEF Stands, AtRecord
  <2>4. ASSUME NEW j \in Stands PROVE j \in Stands'
    <3>1. CASE j \in linked /\ \A u \in Threads : ~(step[u] = "count" /\ job[u].addr = entry[j].addr)
      BY <1>1, <1>3, <1>4, <3>1 DEF Stands
    <3>2. CASE \E u \in Threads : step[u] = "uncount" /\ job[u].slot = j
      <4>1. PICK u \in Threads : step[u] = "uncount" /\ job[u].slot = j
        BY <3>2
      <4>2. step'[u] = "uncount" /\ job'[u].slot = j
        BY <1>1, <1>4, <4>1
      <4>. QED
        BY <4>2 DEF Stands
    <3>. QED
      BY <3>1, <3>2, Standings
  <2>5. ASSUME NEW j \in Stands', j # k PROVE j \in Stands
    <3>1. CASE j \in linked' /\ \A u \in Threads : ~(step'[u] = "count" /\ job'[u].addr = entry'[j].addr)
      <4>1. j \in linked /\ entry[j].addr # a
        BY <1>1, <1>6, <2>5, <3>1
      <4>2. ASSUME NEW u \in Threads PROVE ~(step[u] = "count" /\ job[u].addr = entry[j].addr)
        BY <1>0, <1>1, <1>4, <3>1, <4>1
      <4>. QED
        BY <4>1, <4>2 DEF Stands
    <3>2. CASE \E u \in Threads : step'[u] = "uncount" /\ job'[u].slot = j
      BY <1>3, <1>4, <3>2 DEF Stands
    <3>. QED
      BY <3>1, <3>2 DEF Stands
  <2>. QED
    BY <2>2, <2>3, <2>4, <2>5
<1>11. MaxCombined \in Nat /\ IsFiniteSet(D) /\ Cardinality(D) <= MaxCombined
  BY <1>0, LimitsAssumption DEF Shape, TypeOK, Finite
<1>12. CASE Cardinality(D \cup {z}) <= MaxCombined
  <2>1. DOMAIN combined' = D \cup {z} /\ \A s \in D : s # z => combined'[s] = combined[s]
    BY <1>0, <1>1, <1>12 DEF With
  <2>2. combined'[z] = Word((IF z \in D THEN combined[z] ELSE 0) + Increment(n))
    BY <1>1, <1>12 DEF With
  <2>3. ASSUME Unspoilt, NEW s \in Stacks, Balanced(s) PROVE Balanced(s)'
    <3>1. k \notin Stands /\ Stands' = Stands \cup {k}
      BY <1>10, <2>3
    <3>2. PICK w \in Weights : w = Weight
      BY WeightIsOne DEF Weight
    <3>3. Tally(s) = Total(w, Standing(s)) /\ Tally(s)' = Total(w, Standing(s)')
      BY <1>1, <3>2 DEF Weight, Tally, Total, Totals
    <3>4. CASE s # z
      <4>1. Standing(s)' = Standing(s)
        BY <1>1, <1>5, <3>1, <3>4 DEF Standing
      <4>2. s \notin D /\ Cardinality(D \cup {s}) > MaxCombined
              => Cardinality((D \cup {z}) \cup {s}) > MaxCombined
        <5>1. IsFiniteSet((D \cup {z}) \cup {s}) /\ D \cup {s} \subseteq (D \cup {z}) \cup {s}
          BY <1>11, FS_AddElement
        <5>2. IsFiniteSet(D \cup {s})
          BY <1>11, FS_AddElement
        <5>3. Cardinality(D \cup {s}) <= Cardinality((D \cup {z}) \cup {s})
          BY <5>1, FS_Subset
        <5>4. Cardinality(D \cup {s}) \in Nat /\ Cardinality((D \cup {z}) \cup {s}) \in Nat
          BY <5>1, <5>2, FS_CardinalityType
        <5>. QED
          BY <1>11, <5>3, <5>4
      <4>3. s \in DOMAIN combined' <=> s \in D
        BY <2>1, <3>4
      <4>. QED
        BY <1>0, <2>1, <2>3, <3>3, <3>4, <4>1, <4>2, <4>3 DEF Balanced
    <3>5. CASE s = z
      <4>1. Stands \subseteq Slots /\ k \in Slots /\ entry[k] \in Records
        BY <1>6, StandsOf DEF Shape, TypeOK, Elements
      <4>2. /\ Standing(s)' = Standing(s) \cup {k} /\ k \notin Standing(s)
            /\ Standing(s) \in SUBSET Slots
        BY <1>1, <1>5, <3>1, <3>5, <4>1 DEF Standing
      <4>3. w[k] = Increment(n)
        BY <1>5, <3>2, <4>1, WeightIsOne DEF Weight
      <4>4. Tally(s)' = w[k] + Tally(s) /\ Tally(s) \in Nat /\ w[k] \in Nat
        BY <3>3, <4>1, <4>2, TotalGains, TotalAdds DEF Weights
      <4>5. combined'[s] = Word(Tally(s)')
        <5>1. PICK x \in Nat, y \in Nat : x = Tally(s) /\ y = w[k] /\ Tally(s)' = y + x
          BY <4>4
        <5>2. CASE s \in D
          <6>1. combined'[s] = Word(Word(x) + y)
            BY <1>0, <2>2, <2>3, <3>5, <4>3, <5>1, <5>2 DEF Balanced
          <6>2. x \in Int /\ y \in Int /\ x + y = y + x
            BY <5>1
          <6>3. Word(Word(x) + y) = Word(x + y)
            BY <6>2, AddsToWord
          <6>. QED
            BY <5>1, <6>1, <6>2, <6>3
        <5>3. CASE s \notin D
          <6>1. Standing(s) = {}
            <7>1. Cardinality(D \cup {s}) \in Nat
              BY <1>11, FS_AddElement, FS_CardinalityType
            <7>. QED
              BY <1>0, <1>11, <1>12, <2>3, <3>5, <5>3, <7>1 DEF Balanced
          <6>2. x = 0
            BY <3>3, <5>1, <6>1, TotalAdds
          <6>3. combined'[s] = Word(0 + y)
            BY <2>2, <3>5, <4>3, <5>1, <5>3
          <6>. QED
            BY <5>1, <6>2, <6>3
        <5>. QED
          BY <5>2, <5>3
      <4>. QED
        BY <2>1, <3>5, <4>5 DEF Balanced
    <3>. QED
      BY <3>4, <3>5
  <2>. QED
    BY <1>2, <1>3, <1>8, <1>9, <2>3
<1>13. CASE ~(Cardinality(D \cup {z}) <= MaxCombined)
  <2>1. combined' = combined /\ z \notin D
    <3>1. z \in D => D \cup {z} = D
      OBVIOUS
    <3>. QED
      BY <1>1, <1>11, <1>13, <3>1
  <2>2. Cardinality(D \cup {z}) > MaxCombined
    <3>1. Cardinality(D \cup {z}) \in Nat
      BY <1>11, FS_AddElement, FS_CardinalityType
    <3>. QED
      BY <1>11, <1>13, <3>1
  <2>3. ASSUME Unspoilt, NEW s \in Stacks, Balanced(s) PROVE Balanced(s)'
    <3>1. CASE s = z
      BY <1>0, <2>1, <2>2, <3>1 DEF Balanced
    <3>2. CASE s # z
      <4>1. Standing(s)' = Standing(s)
        BY <1>1, <1>5, <1>10, <2>3, <3>2 DEF Standing
      <4>2. Tally(s)' = Tally(s)
        BY <1>1, <4>1 DEF Weight, Tally, Total, Totals
      <4>. QED
        BY <2>1, <2>3, <4>1, <4>2 DEF Balanced
    <3>. QED
      BY <3>1, <3>2
  <2>. QED
    BY <1>2, <1>3, <1>8, <1>9, <2>3
<1>. QED
  BY <1>12, <1>13

(* What no probe does.                                                     *)
LEMMA StillStatistics ==
  ASSUME Statistics, UNCHANGED <<step, job, entry, linked, combined, anomaly>>,
         Owning => Owning'
  PROVE  Statistics'
<1>1. Stands' = Stands /\ Weight' = Weight /\ (Clean' <=> Clean) /\ (Unspoilt' <=> Unspoilt)
  BY DEF Stands, Weight, WeightIn, Clean, Unspoilt
<1>2. \A u \in Threads : Knows(u)' <=> Knows(u)
  BY DEF Knows, Recorded
<1>3. \A s : Standing(s)' = Standing(s)
  BY <1>1 DEF Standing
<1>4. \A s : Tally(s)' = Tally(s)
  BY <1>1, <1>3 DEF Tally, Total, Totals
<1>5. \A s \in Stacks : Balanced(s)' <=> Balanced(s)
  BY <1>3, <1>4 DEF Balanced
<1>. QED
  BY <1>1, <1>2, <1>5 DEF Statistics

(* Nothing is recorded or counted at first.                                *)
LEMMA InitStatistics == Init => Statistics
<1>. SUFFICES ASSUME Init PROVE Statistics
  OBVIOUS
<1>1. \A t \in Threads : step[t] = "idle" /\ job[t].addr = Null /\ calls[t] = <<>>
  BY NoJobIsOne DEF Init
<1>2. ASSUME NEW t \in Threads PROVE Len(calls[t]) = 0 /\ Olds(t) = {} /\ Touched(t) = {}
  <2>1. DOMAIN calls[t] = {} /\ Len(calls[t]) = 0
    BY <1>1
  <2>. QED
    BY <1>1, <2>1 DEF Olds, Touched
<1>3. Owning
  BY <1>1, <1>2 DEF Owning, Apart, Owned, Deep, InCall
<1>4. \A t \in Threads : Knows(t)
  BY <1>1 DEF Knows
<1>5. Stands = {} /\ linked = {}
  BY <1>1 DEF Init, Stands
<1>6. DOMAIN combined = {}
  BY DEF Init, NoMap
<1>7. \A s \in Stacks : Balanced(s)
  BY <1>5, <1>6 DEF Balanced, Standing
<1>. QED
  BY <1>3, <1>4, <1>7 DEF Statistics

(* Every step keeps the statistics those of the records they stand for.    *)
LEMMA NextStatistics == Shape /\ Statistics /\ [Next]_vars => Statistics'
<1>. SUFFICES ASSUME Shape, Statistics, [Next]_vars PROVE Statistics'
  OBVIOUS
<1>1. CASE UNCHANGED vars
  <2>1. UNCHANGED <<options, heap, calls, step, job, entry, linked, combined, anomaly>>
    BY <1>1 DEF vars
  <2>2. Owning => Owning'
    <3>1. \A u \in Threads : Olds(u)' = Olds(u) /\ Touched(u)' = Touched(u)
      BY <2>1 DEF Touched, Olds
    <3>2. \A u \in Threads : (Owned(u) => Owned(u)') /\ (Deep(u) => Deep(u)')
      BY <2>1, <3>1 DEF Owned, Deep, InCall
    <3>. QED
      BY <3>1, <3>2 DEF Owning, Apart
  <2>. QED
    BY <2>1, <2>2, StillStatistics
<1>2. CASE MissedFree
  <2>1. UNCHANGED <<step, job, entry, linked, combined, anomaly>>
    BY <1>2 DEF MissedFree
  <2>. QED
    BY <1>2, <2>1, MissedFreeOwns, StillStatistics
<1>3. ASSUME NEW t \in Threads,
             \/ AllocEnter(t) \/ ReallocEnter(t) \/ Enter(t) \/ FreeEnter(t)
             \/ Freed(t) \/ Return(t) \/ ReturnFailure(t)
             \/ AllocExit(t) \/ MemalignExit(t) \/ MemalignExitEarly(t)
             \/ KernelAlloc(t)
      PROVE  Statistics'
  <2>1. anomaly \subseteq anomaly'
    BY <1>3 DEF AllocEnter, ReallocEnter, Enter, FreeEnter, Freed, Return, ReturnFailure,
       AllocExit, MemalignExit, MemalignExitEarly, KernelAlloc
  <2>2. CASE ReturnFailure(t)
    BY <2>1, <2>2, ReturnFailureOwns, QuietStatistics DEF Clean
  <2>3. CASE AllocExit(t) \/ MemalignExit(t)
    <3>1. /\ step[t] = "exit" /\ TakesSize(t, job[t].addr)
          /\ UNCHANGED <<options, heap, entry, linked, combined>>
      BY <2>3 DEF AllocExit, MemalignExit
    <3>. QED
      BY <2>1, <3>1, ExitOwns, QuietStatistics
  <2>4. CASE AllocEnter(t) \/ ReallocEnter(t) \/ Enter(t) \/ FreeEnter(t)
    BY <2>1, <2>4, AllocEnterOwns, ReallocEnterOwns, EnterOwns, FreeEnterOwns, QuietStatistics
  <2>5. CASE Freed(t) \/ Return(t) \/ MemalignExitEarly(t) \/ KernelAlloc(t)
    BY <2>1, <2>5, FreedOwns, ReturnOwns, MemalignExitEarlyOwns, KernelAllocOwns, QuietStatistics
  <2>. QED
    BY <1>3, <2>2, <2>3, <2>4, <2>5
<1>4. ASSUME NEW t \in Threads, Delete(t) \/ Uncount(t) \/ Record(t) \/ Count(t)
      PROVE  Statistics'
  BY <1>4, DeleteStatistics, UncountStatistics, RecordStatistics, CountStatistics
<1>. QED
  BY <1>1, <1>2, <1>3, <1>4, Zenon DEF Next

-----------------------------------------------------------------------------
(* The statistics are right *)

(* The two fields of a word that did not overflow are the sum of the sizes *)
(* and the number of the records.                                          *)
LEMMA StatisticsFit == Shape /\ Statistics => StatisticsMatch
<1>. SUFFICES ASSUME Shape, Statistics, Clean,
                     \A t \in Threads : step[t] = "uncount" =>
                       job[t].slot \notin linked /\ entry[job[t].slot].addr = job[t].addr,
                     NEW s \in DOMAIN combined
              PROVE  LET S == CountedSlots(s) \cup UncountedSlots(s)
                         size(k) == entry[k].size
                         total == MapThenSumSet(size, S)
                     IN  total < TotalLimit /\ Cardinality(S) < CountLimit =>
                           /\ TotalSize(combined[s]) = total
                           /\ NumberOfAllocs(combined[s]) = Cardinality(S)
  BY Zenon DEF StatisticsMatch, Clean
<1>1. combined[s] = Word(Tally(s))
  BY DEF Statistics, Unspoilt, Balanced, Shape, TypeOK
<1>2. CountedSlots(s) \cup UncountedSlots(s) = Standing(s)
  BY DEF CountedSlots, UncountedSlots, Standing, Stands
<1>3. Standing(s) \in SUBSET Slots /\ \A k \in Standing(s) : entry[k] \in Records
  BY StandsOf DEF Standing
<1>. DEFINE w == [k \in Slots |-> IF entry[k] \in Records THEN entry[k].size ELSE 0]
<1>4. w \in Weights /\ \A k \in Standing(s) : w[k] = entry[k].size /\ w[k] \in Nat
  BY <1>3, SizesAssumption DEF Weights, Records
<1>. HIDE DEF w
<1>5. (LET size(k) == entry[k].size IN MapThenSumSet(size, Standing(s))) = Total(w, Standing(s))
  BY <1>3, <1>4, FoldIsTotal, Zenon
<1>6. ASSUME Total(w, Standing(s)) < TotalLimit, Cardinality(Standing(s)) < CountLimit
      PROVE  /\ TotalSize(combined[s]) = Total(w, Standing(s))
             /\ NumberOfAllocs(combined[s]) = Cardinality(Standing(s))
  <2>1. TotalLimit \in Nat /\ Total(w, Standing(s)) \in Nat
    BY <1>3, <1>4, LimitsAssumption, TotalAdds
  <2>2. WeightIn(entry) \in Weights
        /\ \A k \in Standing(s) : WeightIn(entry)[k] = Increment(w[k])
    BY <1>3, <1>4, WeightIsOne
  <2>3. \A k \in Standing(s) : WeightIn(entry)[k] = w[k] + TotalLimit
    <3>1. ASSUME NEW k \in Standing(s) PROVE w[k] % TotalLimit = w[k]
      <4>1. w[k] <= Total(w, Standing(s)) /\ w[k] \in Nat
        BY <1>3, <1>4, PartOfTotal
      <4>. QED
        BY <1>6, <2>1, <4>1
    <3>. QED
      BY <2>2, <3>1 DEF Increment
  <2>4. /\ Tally(s) = Total(w, Standing(s)) + TotalLimit * Cardinality(Standing(s))
        /\ Cardinality(Standing(s)) \in Nat
    BY <1>3, <1>4, <2>1, <2>2, <2>3, TotalShifts DEF Tally, Weight
  <2>. QED
    BY <1>1, <1>6, <2>1, <2>4, FieldsRead
<1>. QED
  BY <1>2, <1>5, <1>6, Zenon

(* StatisticsMatch: what update_statistics_add and update_statistics_del   *)
(* leave in combined_alloc_info is, at every moment, the total size and    *)
(* number of a stack's records, those deleted but not yet subtracted       *)
(* included, for maps of any size and any widths of the two fields.        *)
THEOREM StatisticsCorrect == Spec => []StatisticsMatch
<1>1. IInv => Shape
  BY DEF IInv
<1>2. Init => Statistics
  BY InitStatistics
<1>3. IInv /\ Statistics /\ [Next]_vars => Statistics'
  BY <1>1, NextStatistics
<1>4. IInv /\ Statistics => StatisticsMatch
  BY <1>1, StatisticsFit
<1>. QED
  BY <1>2, <1>3, <1>4, AlwaysIInv, PTL DEF Spec

=============================================================================
