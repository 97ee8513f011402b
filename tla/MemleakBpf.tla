------------------------------ MODULE MemleakBpf ------------------------------
(***************************************************************************)
(* The maps of examples/memleak_bcc_dwunw/memleak_dwunw.bpf.c, kept by     *)
(* probes on the allocation functions of a traced program, or by           *)
(* tracepoints of the kernel's allocators.  Every thread runs the probes   *)
(* of its own calls; the maps are shared, and a step is what one BPF       *)
(* helper does to them.                                                    *)
(*                                                                         *)
(* A deleted element of a preallocated hash map goes to a free list and    *)
(* may be filled again while a program still reads it: entry keeps the     *)
(* contents of a slot, linked says which slots the hash map holds.         *)
(***************************************************************************)
EXTENDS Integers, Sequences, FiniteSetsExt, Functions

CONSTANTS
  Threads, Addresses, Stacks,
  Sizes,          \* what is asked for
  TracedSizes,    \* those between min_size and max_size
  Sampling,       \* sample_rate > 1
  MaxNested,      \* bound: threads inside a nested call at a time
  Slots,          \* of allocs, ALLOCS_MAX_ENTRIES
  MaxCombined,    \* COMBINED_ALLOCS_MAX_ENTRIES
  MaxThreads,     \* max_entries of sizes and memptrs
  TotalLimit,     \* 2^40, total_size's width
  CountLimit,     \* 2^24, number_of_allocs's width
  Null            \* no address: NULL or MAP_FAILED

ASSUME SizesAssumption == Sizes \subseteq Nat /\ Sizes # {} /\ TracedSizes \subseteq Sizes
ASSUME LimitsAssumption ==
  /\ {TotalLimit, CountLimit} \subseteq Nat \ {0}
  /\ {MaxCombined, MaxThreads, MaxNested} \subseteq Nat
ASSUME NullAssumption == Null \notin Addresses
ASSUME SamplingAssumption == Sampling \in BOOLEAN
ASSUME SlotsAssumption == IsFiniteSet(Slots)

VARIABLES
  options,    \* kernel_trace and wa_missing_free
  heap,       \* the traced program's blocks, by address
  missed,     \* addresses whose record is of a block freed without a probe
  calls,      \* a thread's calls of allocation functions, innermost last
  step, job,  \* where a thread's probe is, and what it holds
  sizes, memptrs, entry, linked, combined,   \* the maps
  anomaly     \* history: what went wrong so far

vars == <<options, heap, missed, calls, step, job, sizes, memptrs, entry,
          linked, combined, anomaly>>

Records == [addr : Addresses, size : Sizes, stack : Stacks]

(* Of a block: plain if the call that made it was not nested and no free   *)
(* of it failed, traced if that call's size was noted.                     *)
Blocks == [size : Sizes, stack : Stacks, plain : BOOLEAN, traced : BOOLEAN]

Frames == [kind : {"malloc", "realloc", "memalign", "slab", "page"},
           size : Sizes, stack : Stacks, old : Addresses \cup {Null},
           plain : BOOLEAN, traced : BOOLEAN]

Steps == {"idle", "delete", "uncount", "enter", "free", "exit", "record", "count"}

Jobs == [addr : Addresses \cup {Null}, slot : Slots \cup {Null}, then : Steps,
         size : Sizes, stack : Stacks \cup {Null}]

Words == 0 .. TotalLimit * CountLimit - 1

Anomalies == {"stale size", "failed memalign", "torn read", "map full", "overwritten"}

TypeOK ==
  /\ options \in [kernel : BOOLEAN, wa : BOOLEAN]
  /\ DOMAIN heap \subseteq Addresses /\ \A a \in DOMAIN heap : heap[a] \in Blocks
  /\ missed \subseteq Addresses
  /\ calls \in [Threads -> Seq(Frames)] /\ \A t \in Threads : Len(calls[t]) <= 2
  /\ step \in [Threads -> Steps] /\ job \in [Threads -> Jobs]
  /\ DOMAIN sizes \subseteq Threads /\ \A t \in DOMAIN sizes : sizes[t] \in TracedSizes
  /\ Cardinality(DOMAIN sizes) <= MaxThreads
  /\ memptrs \subseteq Threads /\ Cardinality(memptrs) <= MaxThreads
  /\ linked \subseteq Slots /\ entry \in [Slots -> Records \cup {Null}]
  /\ DOMAIN combined \subseteq Stacks /\ \A s \in DOMAIN combined : combined[s] \in Words
  /\ Cardinality(DOMAIN combined) <= MaxCombined
  /\ anomaly \subseteq Anomalies

NoMap == [x \in {} |-> 0]

(* bpf_map_update_elem: f with y at x.                                     *)
With(f, x, y) == [z \in {x} \cup DOMAIN f |-> IF z = x THEN y ELSE f[z]]

NoJob == [addr |-> Null, slot |-> Null, then |-> "idle",
          size |-> CHOOSE n \in Sizes : TRUE, stack |-> Null]

Init ==
  /\ options \in {o \in [kernel : BOOLEAN, wa : BOOLEAN] : o.wa => o.kernel}
  /\ heap = NoMap /\ missed = {}
  /\ calls = [t \in Threads |-> <<>>]
  /\ step = [t \in Threads |-> "idle"] /\ job = [t \in Threads |-> NoJob]
  /\ sizes = NoMap /\ memptrs = {}
  /\ entry = [k \in Slots |-> Null] /\ linked = {}
  /\ combined = NoMap
  /\ anomaly = {}

-----------------------------------------------------------------------------
(* combined_alloc_info: both fields in one word, added to as one.          *)

Word(n) == n % (TotalLimit * CountLimit)

IncrementOfSize(n) == n % TotalLimit

Increment(n) == (n % TotalLimit) + TotalLimit

TotalSize(bits) == bits % TotalLimit

NumberOfAllocs(bits) == bits \div TotalLimit

-----------------------------------------------------------------------------
(* What the probes share *)

Idle(t) == step[t] = "idle"

Done(t) ==
  step' = [step EXCEPT ![t] = "idle"] /\ job' = [job EXCEPT ![t] = NoJob]

Frame(t) == calls[t][Len(calls[t])]

(* The program frees what it was given: a block whose address a probe      *)
(* still holds has not been returned yet, or is already being freed.       *)
Freeable ==
  {a \in DOMAIN heap :
     \A t \in Threads : /\ Idle(t) \/ job[t].addr # a
                        /\ \A i \in DOMAIN calls[t] : calls[t][i].old # a}

(* gen_alloc_enter: the size is noted under the thread's id, when it is in *)
(* range, sampled, and the map has room.                                   *)
Notes(t, n) ==
  n \in TracedSizes /\ Cardinality(DOMAIN sizes \cup {t}) <= MaxThreads

NotesSize(t, n, traced) ==
  /\ traced => Notes(t, n)
  /\ ~traced => Sampling \/ ~Notes(t, n)
  /\ sizes' = IF traced THEN With(sizes, t, n) ELSE sizes

Recorded(a) == {k \in linked : entry[k].addr = a}

(* gen_free_enter, its lookup: on to the deletion, or to what follows.     *)
LooksUp(t, a, then) ==
  LET found == Recorded(a)
  IN  \E k \in IF found = {} THEN {Null} ELSE found :
        /\ step' = [step EXCEPT ![t] = IF found = {} THEN then ELSE "delete"]
        /\ job' = [job EXCEPT ![t] = [NoJob EXCEPT !.addr = a, !.slot = k, !.then = then]]

LooksUpNot(t, a, then) ==
  /\ step' = [step EXCEPT ![t] = then]
  /\ job' = [job EXCEPT ![t] = [NoJob EXCEPT !.addr = a, !.then = then]]

(* The deletion, by key.                                                   *)
Delete(t) ==
  /\ step[t] = "delete"
  /\ linked' = linked \ Recorded(job[t].addr)
  /\ missed' = missed \ {job[t].addr}
  /\ step' = [step EXCEPT ![t] = "uncount"]
  /\ UNCHANGED <<options, heap, calls, job, sizes, memptrs, entry, combined, anomaly>>

(* update_statistics_del, with info still pointing into the deleted element.*)
Uncount(t) ==
  LET info == entry[job[t].slot]
  IN  /\ step[t] = "uncount"
      /\ combined' = IF info.stack \in DOMAIN combined
                     THEN [combined EXCEPT ![info.stack] = Word(@ - Increment(info.size))]
                     ELSE combined
      /\ anomaly' = IF info.addr = job[t].addr /\ job[t].slot \notin linked
                    THEN anomaly ELSE anomaly \cup {"torn read"}
      /\ step' = [step EXCEPT ![t] = job[t].then]
      /\ UNCHANGED <<options, heap, missed, calls, job, sizes, memptrs, entry, linked>>

Pop(t) == calls' = [calls EXCEPT ![t] = SubSeq(@, 1, Len(@) - 1)]

(* gen_alloc_exit2, its lookup and deletion of the size; a failed call's   *)
(* size is dropped.                                                        *)
Holds(t, a) ==
  /\ step' = [step EXCEPT ![t] = "record"]
  /\ job' = [job EXCEPT ![t].addr = a, ![t].size = sizes[t], ![t].stack = Frame(t).stack]
  /\ UNCHANGED calls

TakesSizeOfFailed(t, a) ==
  /\ sizes' = Restrict(sizes, DOMAIN sizes \ {t})
  /\ IF t \in DOMAIN sizes THEN Holds(t, a) ELSE Pop(t) /\ Done(t)

LeavesSize(t, a) ==
  /\ UNCHANGED sizes
  /\ IF t \in DOMAIN sizes /\ a # Null THEN Holds(t, a) ELSE Pop(t) /\ Done(t)

TakesSize(t, a) ==
  /\ sizes' = Restrict(sizes, DOMAIN sizes \ {t})
  /\ IF t \in DOMAIN sizes /\ a # Null THEN Holds(t, a) ELSE Pop(t) /\ Done(t)

(* The record: any free element is filled, and one with the same key is    *)
(* replaced.  A full map keeps nothing, which the code does not notice.    *)
Record(t) ==
  LET a == job[t].addr
      same == Recorded(a)
  IN  /\ step[t] = "record"
      /\ IF Slots = linked /\ same = {}
         THEN UNCHANGED <<entry, linked>> /\ anomaly' = anomaly \cup {"map full"}
         ELSE \E k \in IF Slots = linked THEN same ELSE Slots \ linked :
                /\ entry' = [entry EXCEPT ![k] = [addr |-> a, size |-> job[t].size,
                                                  stack |-> job[t].stack]]
                /\ linked' = (linked \ same) \cup {k}
                /\ anomaly' = IF same = {} THEN anomaly ELSE anomaly \cup {"overwritten"}
      /\ missed' = missed \ {a}
      /\ step' = [step EXCEPT ![t] = "count"]
      /\ UNCHANGED <<options, heap, calls, job, sizes, memptrs, combined>>

(* update_statistics_add; a stack no room is left for is not counted.      *)
Count(t) ==
  LET s == job[t].stack
      now == IF s \in DOMAIN combined THEN combined[s] ELSE 0
  IN  /\ step[t] = "count"
      /\ combined' = IF Cardinality(DOMAIN combined \cup {s}) <= MaxCombined
                     THEN With(combined, s, Word(now + Increment(job[t].size)))
                     ELSE combined
      /\ Pop(t) /\ Done(t)
      /\ UNCHANGED <<options, heap, missed, sizes, memptrs, entry, linked, anomaly>>

-----------------------------------------------------------------------------
(* Probes on a program's functions *)

User == ~options.kernel

(* A call from inside an allocation function spoils the outer one's size.  *)
Pushes(t, kind, n, s, old, traced) ==
  LET outer == [i \in DOMAIN calls[t] |-> [calls[t][i] EXCEPT !.plain = FALSE]]
      inner == [kind |-> kind, size |-> n, stack |-> s, old |-> old,
                plain |-> outer = <<>>, traced |-> traced]
  IN  calls' = [calls EXCEPT ![t] = Append(outer, inner)]

(* malloc_enter, and the like of calloc, mmap, valloc ...; what is called  *)
(* from inside an allocation function is mmap.                             *)
AllocEnter(t) ==
  /\ User /\ Idle(t)
  /\ \/ calls[t] = <<>>
     \/ Len(calls[t]) = 1 /\ Cardinality({u \in Threads : Len(calls[u]) = 2}) < MaxNested
  /\ \E kind \in {"malloc", "memalign"}, n \in Sizes, s \in Stacks, traced \in BOOLEAN :
       /\ kind = "malloc" \/ calls[t] = <<>>
       /\ NotesSize(t, n, traced)
       /\ Pushes(t, kind, n, s, Null, traced)
       /\ memptrs' = IF kind = "memalign" /\ Cardinality(memptrs \cup {t}) <= MaxThreads
                     THEN memptrs \cup {t} ELSE memptrs
  /\ UNCHANGED <<options, heap, missed, step, job, entry, linked, combined, anomaly>>

(* realloc_enter and mremap_enter: a free and then an allocation.          *)
ReallocEnter(t) ==
  /\ User /\ Idle(t) /\ calls[t] = <<>>
  /\ \E a \in Freeable, n \in Sizes, s \in Stacks :
       Pushes(t, "realloc", n, s, a, FALSE) /\ LooksUp(t, a, "enter")
  /\ UNCHANGED <<options, heap, missed, sizes, memptrs, entry, linked, combined, anomaly>>

(* The second half, for realloc and for the kernel's tracepoints.          *)
Enter(t) ==
  /\ step[t] = "enter"
  /\ \E traced \in BOOLEAN :
       /\ NotesSize(t, Frame(t).size, traced)
       /\ calls' = [calls EXCEPT ![t][Len(calls[t])].traced = traced]
       /\ IF options.kernel
          THEN /\ heap' = [heap EXCEPT ![job[t].addr].traced = traced]
               /\ step' = [step EXCEPT ![t] = "exit"]
               /\ job' = [job EXCEPT ![t] = [NoJob EXCEPT !.addr = job[t].addr]]
          ELSE Done(t) /\ UNCHANGED heap
  /\ UNCHANGED <<options, missed, memptrs, entry, linked, combined, anomaly>>

NewBlock(f) == [size |-> f.size, stack |-> f.stack, plain |-> f.plain,
                traced |-> f.traced]

Without(a) == Restrict(heap, DOMAIN heap \ {a})

(* The function returns a block, and its return probe starts; the address  *)
(* of a block that moved may be given out again from now on.               *)
Return(t) ==
  /\ User /\ Idle(t) /\ calls[t] # <<>>
  /\ LET f == Frame(t)
     IN  \E a \in (Addresses \ DOMAIN heap) \cup ({f.old} \ {Null}) :
           /\ heap' = With(Without(f.old), a, NewBlock(f))
           /\ job' = [job EXCEPT ![t] = [NoJob EXCEPT !.addr = a]]
  /\ step' = [step EXCEPT ![t] = "exit"]
  /\ calls' = [calls EXCEPT ![t][Len(calls[t])].old = Null]
  /\ UNCHANGED <<options, missed, sizes, memptrs, entry, linked, combined, anomaly>>

(* It fails: the block realloc was given stays, and its record is gone.    *)
(* posix_memalign leaves its pointer alone, and that is what is read.      *)
ReturnFailure(t) ==
  /\ User /\ Idle(t) /\ calls[t] # <<>>
  /\ LET f == Frame(t)
     IN  \E a \in {Null} \cup (IF f.kind = "memalign" THEN Addresses ELSE {}) :
           /\ heap' = IF f.old = Null THEN heap ELSE [heap EXCEPT ![f.old].plain = FALSE]
           /\ job' = [job EXCEPT ![t] = [NoJob EXCEPT !.addr = a]]
           /\ anomaly' = IF a = Null THEN anomaly ELSE anomaly \cup {"failed memalign"}
  /\ step' = [step EXCEPT ![t] = "exit"]
  /\ UNCHANGED <<options, missed, calls, sizes, memptrs, entry, linked, combined>>

(* malloc_exit and the like.                                               *)
AllocExit(t) ==
  /\ step[t] = "exit" /\ Frame(t).kind # "memalign"
  /\ TakesSize(t, job[t].addr)
  /\ UNCHANGED <<options, heap, missed, memptrs, entry, linked, combined, anomaly>>

MemalignExitOnly(t) ==
  /\ step[t] = "exit" /\ Frame(t).kind = "memalign" /\ t \in memptrs
  /\ memptrs' = memptrs \ {t}
  /\ TakesSize(t, Null)
  /\ UNCHANGED <<options, heap, missed, entry, linked, combined, anomaly>>

(* posix_memalign_exit, which wants its memptr first.                      *)
MemalignExit(t) ==
  /\ step[t] = "exit" /\ Frame(t).kind = "memalign" /\ t \in memptrs
  /\ memptrs' = memptrs \ {t}
  /\ TakesSize(t, job[t].addr)
  /\ UNCHANGED <<options, heap, missed, entry, linked, combined, anomaly>>

(* No memptr was noted, or what it points to is not readable: the size     *)
(* stays behind.                                                           *)
MemalignExitEarly(t) ==
  /\ step[t] = "exit" /\ Frame(t).kind = "memalign"
  /\ memptrs' = memptrs \ {t}
  /\ anomaly' = anomaly \cup {"stale size"}
  /\ Pop(t) /\ Done(t)
  /\ UNCHANGED <<options, heap, missed, sizes, entry, linked, combined>>

(* free_enter and munmap_enter, or the kernel's tracepoints of a free.     *)
FreeEnter(t) ==
  /\ Idle(t) /\ calls[t] = <<>>
  /\ \E a \in Freeable : LooksUp(t, a, "free")
  /\ UNCHANGED <<options, heap, missed, calls, sizes, memptrs, entry, linked, combined, anomaly>>

(* Then the function frees the block; munmap may fail.                     *)
Freed(t) ==
  /\ step[t] = "free"
  /\ \/ heap' = Without(job[t].addr)
     \/ User /\ heap' = [heap EXCEPT ![job[t].addr].plain = FALSE]
  /\ Done(t)
  /\ UNCHANGED <<options, missed, calls, sizes, memptrs, entry, linked, combined, anomaly>>

-----------------------------------------------------------------------------
(* Tracepoints of the kernel's allocators *)

(* memleak__kmalloc and the like: with the workaround, a free of the same  *)
(* address first; pages and per-cpu memory go without.                     *)
KernelAlloc(t) ==
  /\ options.kernel /\ Idle(t) /\ calls[t] = <<>>
  /\ \E kind \in {"slab", "page"}, a \in Addresses \ DOMAIN heap, n \in Sizes, s \in Stacks :
       /\ Pushes(t, kind, n, s, Null, FALSE)
       /\ heap' = With(heap, a, [NewBlock(Frame(t)') EXCEPT !.plain = TRUE])
       /\ IF kind = "slab" /\ options.wa
          THEN LooksUp(t, a, "enter") /\ missed' = missed \ {a}
          ELSE LooksUpNot(t, a, "enter") /\ UNCHANGED missed
  /\ UNCHANGED <<options, sizes, memptrs, entry, linked, combined, anomaly>>

(* A free no tracepoint tells of.                                          *)
MissedFree ==
  /\ options.kernel
  /\ \E a \in Freeable : heap' = Without(a) /\ missed' = missed \cup (IF Recorded(a) = {} THEN {} ELSE {a})
  /\ UNCHANGED <<options, calls, step, job, sizes, memptrs, entry, linked, combined, anomaly>>

-----------------------------------------------------------------------------
Next ==
  \/ \E t \in Threads :
       \/ AllocEnter(t) \/ ReallocEnter(t) \/ Enter(t) \/ FreeEnter(t)
       \/ Delete(t) \/ Uncount(t) \/ Freed(t)
       \/ Return(t) \/ ReturnFailure(t)
       \/ AllocExit(t) \/ MemalignExit(t) \/ MemalignExitEarly(t)
       \/ Record(t) \/ Count(t)
       \/ KernelAlloc(t)
  \/ MissedFree

Spec == Init /\ [][Next]_vars

-----------------------------------------------------------------------------
(* Properties *)

InProbe(a) == \E t \in Threads : ~Idle(t) /\ job[t].addr = a

(* What memleak shows is outstanding: a record is of a block the program   *)
(* has not freed, with its stack, and with its size if the call was not    *)
(* nested.  Only a posix_memalign whose probe gave up or that failed, or a *)
(* free without a probe, leads to another record.                          *)
RecordsAreTrue ==
  anomaly \cap {"stale size", "failed memalign"} = {} =>
    \A k \in linked :
      LET r == entry[k]
      IN  /\ Cardinality(Recorded(r.addr)) = 1
          /\ r.addr \in DOMAIN heap \cup missed
          /\ r.addr \notin missed /\ ~InProbe(r.addr) =>
               LET b == heap[r.addr]
               IN  r.stack = b.stack /\ (b.plain => b.traced /\ r.size = b.size)

(* Every block that a call not nested in another was seen to allocate is   *)
(* outstanding until it is freed, unless the map was full.                 *)
LiveBlocksAreRecorded ==
  anomaly \cap {"stale size", "failed memalign", "map full"} = {} =>
    \A a \in DOMAIN heap :
      heap[a].plain /\ heap[a].traced /\ ~InProbe(a)
        /\ (\A t \in Threads : \A i \in DOMAIN calls[t] : calls[t][i].old # a)
        => Recorded(a) # {}

(* The records a stack's statistics stand for: those counted, and those    *)
(* deleted but not yet uncounted.                                          *)
CountedSlots(s) ==
  {k \in linked : entry[k].stack = s
     /\ \A t \in Threads : ~(step[t] = "count" /\ job[t].addr = entry[k].addr)}

UncountedSlots(s) ==
  {job[t].slot : t \in {u \in Threads : step[u] = "uncount" /\ entry[job[u].slot].stack = s}}

(* The combined statistics of a stack are those of its records, at every   *)
(* moment, whenever they fit their two fields: a total that outgrew its    *)
(* field is right again once it fits.  Four things unbalance them for good.*)
StatisticsMatch ==
  anomaly \cap {"torn read", "map full", "overwritten", "failed memalign"} = {}
    /\ (\A t \in Threads : step[t] = "uncount" =>
          job[t].slot \notin linked /\ entry[job[t].slot].addr = job[t].addr) =>
    \A s \in DOMAIN combined :
      LET S == CountedSlots(s) \cup UncountedSlots(s)
          size(k) == entry[k].size
          total == MapThenSumSet(size, S)
      IN  total < TotalLimit /\ Cardinality(S) < CountLimit =>
            /\ TotalSize(combined[s]) = total
            /\ NumberOfAllocs(combined[s]) = Cardinality(S)

=============================================================================
