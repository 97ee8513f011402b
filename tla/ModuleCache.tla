----------------------------- MODULE ModuleCache -----------------------------
(***************************************************************************)
(* The module cache of src/dwarf/module_cache.c: a fixed array of slots,   *)
(* each holding one opened ELF image together with its parsed DWARF        *)
(* tables.  dwunw_module_cache_acquire pins a slot, _release unpins it and *)
(* keeps the module WARM, and a miss with no unused slot evicts the WARM   *)
(* slot that was released longest ago.                                     *)
(*                                                                         *)
(* The cache takes no lock and every call runs to completion, so one call  *)
(* is one action.  Clients are the callers that pair an acquire with a     *)
(* release; each holds at most one handle, and several may hold the same.  *)
(***************************************************************************)
EXTENDS Integers, FiniteSets

CONSTANTS
  Capacity,  \* DWUNW_MODULE_CACHE_CAPACITY (16 in the code)
  Paths,     \* the file names callers ask for, and the prefixes stored
  Stored,    \* the name strncpy leaves in entry->path: a name of 512
             \* characters or more is cut to its first 511
  Clients,   \* callers that acquire and release handles
  Blocks,    \* heap blocks: ELF images and parsed CFI tables
  NoPath, NoBlock,
  MaxClock   \* bound: no handle is given out once warm_clock (a uint64_t)
             \* has reached it, until a flush resets it

ASSUME CapacityAssumption == Capacity \in Nat \ {0}

ASSUME StoredAssumption ==
  /\ Stored \in [Paths -> Paths]
  /\ \A p \in Paths : Stored[Stored[p]] = Stored[p]

ASSUME ClientsAssumption == IsFiniteSet(Clients)

ASSUME NullAssumption == NoPath \notin Paths /\ NoBlock \notin Blocks

ASSUME ClockAssumption == MaxClock \in Nat

VARIABLES
  state,      \* entry->state of each slot
  path,       \* entry->path, the stored name
  refcnt,     \* entry->refcnt
  warmSeq,    \* entry->warm_seq
  elf,        \* block behind entry->handle.elf.image
  cfi,        \* block behind entry->handle.index, NoBlock for empty tables
  file,       \* the file that handle was really parsed from
  warmClock,  \* cache->warm_clock
  heap,       \* blocks allocated and not yet freed
  hold,       \* slot each client's handle points into
  want,       \* path each client acquired its handle for
  status      \* what the last call returned

entryVars == <<state, path, refcnt, warmSeq, elf, cfi, file>>
clientVars == <<hold, want>>
vars == <<entryVars, warmClock, heap, clientVars, status>>

Slots == 0 .. Capacity - 1

NoSlot == Capacity

Holders(s) == {c \in Clients : hold[c] = s}

(* A path is ambiguous when it is the prefix another, longer path is       *)
(* stored under.                                                           *)
Ambiguous(p) == \E q \in Paths : q # p /\ Stored[q] = p

TypeOK ==
  /\ state \in [Slots -> {"UNUSED", "ACTIVE", "WARM"}]
  /\ path \in [Slots -> Paths \cup {NoPath}]
  /\ refcnt \in [Slots -> Nat]
  /\ warmSeq \in [Slots -> Nat]
  /\ elf \in [Slots -> Blocks \cup {NoBlock}]
  /\ cfi \in [Slots -> Blocks \cup {NoBlock}]
  /\ file \in [Slots -> Paths \cup {NoPath}]
  /\ warmClock \in Nat
  /\ heap \in SUBSET Blocks
  /\ hold \in [Clients -> Slots \cup {NoSlot}]
  /\ want \in [Clients -> Paths \cup {NoPath}]
  /\ status \in {"OK", "CACHE_FULL", "LOAD_ERROR", "INVALID_ARG"}

(* dwunw_module_cache_init zeroes the whole structure.                     *)
Init ==
  /\ state = [s \in Slots |-> "UNUSED"]
  /\ path = [s \in Slots |-> NoPath]
  /\ refcnt = [s \in Slots |-> 0]
  /\ warmSeq = [s \in Slots |-> 0]
  /\ elf = [s \in Slots |-> NoBlock]
  /\ cfi = [s \in Slots |-> NoBlock]
  /\ file = [s \in Slots |-> NoPath]
  /\ warmClock = 0
  /\ heap = {}
  /\ hold = [c \in Clients |-> NoSlot]
  /\ want = [c \in Clients |-> NoPath]
  /\ status = "OK"

-----------------------------------------------------------------------------
(* Looking up and choosing a slot *)

FindsByPrefix(p, s) ==
  /\ state[s] # "UNUSED" /\ path[s] = Stored[p]
  /\ \A t \in 0 .. s - 1 : state[t] = "UNUSED" \/ path[t] # Stored[p]

(* dwunw_module_cache_find: s is the first slot in use that stores p.      *)
Finds(p, s) ==
  /\ state[s] # "UNUSED" /\ path[s] = p
  /\ \A t \in 0 .. s - 1 : state[t] = "UNUSED" \/ path[t] # p

Missing(p) == \A s \in Slots : state[s] = "UNUSED" \/ path[s] # p

OldestOfAny(s) ==
  /\ state[s] # "UNUSED"
  /\ \A t \in Slots : state[t] # "UNUSED" => warmSeq[s] <= warmSeq[t]

NewestWarm(s) ==
  /\ state[s] = "WARM"
  /\ \A t \in Slots : state[t] = "WARM" => warmSeq[s] >= warmSeq[t]

(* The WARM slot with the least warm_seq, the first of several.            *)
OldestWarm(s) ==
  /\ state[s] = "WARM"
  /\ \A t \in Slots : state[t] = "WARM" =>
       \/ warmSeq[s] < warmSeq[t]
       \/ warmSeq[s] = warmSeq[t] /\ s <= t

AllocatesUnusedOnly(s) ==
  state[s] = "UNUSED" /\ \A t \in 0 .. s - 1 : state[t] # "UNUSED"

(* dwunw_module_cache_alloc: the first unused slot, else the oldest warm.  *)
Allocates(s) ==
  \/ state[s] = "UNUSED" /\ \A t \in 0 .. s - 1 : state[t] # "UNUSED"
  \/ (\A t \in Slots : state[t] # "UNUSED") /\ OldestWarm(s)

HeapWithoutImage(s) == heap \ {elf[s]}

(* Every block some slot points to.                                        *)
Owned ==
  ({elf[s] : s \in Slots} \cup {cfi[s] : s \in Slots}) \ {NoBlock}

(* The heap once dwunw_module_cache_entry_reset has freed what s owned.    *)
HeapWithout(s) == heap \ {elf[s], cfi[s]}

-----------------------------------------------------------------------------
(* dwunw_module_cache_acquire *)

Pins(c, s, p) ==
  /\ warmClock < MaxClock
  /\ hold' = [hold EXCEPT ![c] = s]
  /\ want' = [want EXCEPT ![c] = p]
  /\ status' = "OK"

AcquireActiveUncounted(c, p) ==
  \E s \in Slots :
    /\ hold[c] = NoSlot
    /\ Finds(p, s) /\ state[s] = "ACTIVE"
    /\ Pins(c, s, p)
    /\ UNCHANGED <<entryVars, warmClock, heap>>

AcquireActive(c, p) ==
  \E s \in Slots :
    /\ hold[c] = NoSlot
    /\ Finds(p, s) /\ state[s] = "ACTIVE"
    /\ refcnt' = [refcnt EXCEPT ![s] = @ + 1]
    /\ Pins(c, s, p)
    /\ UNCHANGED <<state, path, warmSeq, elf, cfi, file, warmClock, heap>>

AcquireWarm(c, p) ==
  \E s \in Slots :
    /\ hold[c] = NoSlot
    /\ Finds(p, s) /\ state[s] = "WARM"
    /\ refcnt' = [refcnt EXCEPT ![s] = 1]
    /\ state' = [state EXCEPT ![s] = "ACTIVE"]
    /\ warmSeq' = [warmSeq EXCEPT ![s] = 0]
    /\ Pins(c, s, p)
    /\ UNCHANGED <<path, elf, cfi, file, warmClock, heap>>

(* A miss that opens and indexes the file.  The index is empty when the    *)
(* file has no usable call frame information.                              *)
AcquireLoad(c, p) ==
  \E s \in Slots :
    /\ hold[c] = NoSlot
    /\ Missing(p) /\ Allocates(s)
    /\ \E b \in Blocks \ HeapWithout(s), d \in Blocks \cup {NoBlock} :
         /\ d \notin HeapWithout(s) \cup {b}
         /\ elf' = [elf EXCEPT ![s] = b]
         /\ cfi' = [cfi EXCEPT ![s] = d]
         /\ heap' = HeapWithout(s) \cup ({b, d} \ {NoBlock})
    /\ state' = [state EXCEPT ![s] = "ACTIVE"]
    /\ path' = [path EXCEPT ![s] = Stored[p]]
    /\ file' = [file EXCEPT ![s] = p]
    /\ refcnt' = [refcnt EXCEPT ![s] = 1]
    /\ warmSeq' = [warmSeq EXCEPT ![s] = 0]
    /\ Pins(c, s, p)
    /\ UNCHANGED warmClock

(* A miss whose dwunw_elf_open or dwunw_dwarf_index_init fails.  The       *)
(* failing call frees what it allocated, but the slot was chosen, and its  *)
(* warm module evicted, before the file was looked at.                     *)
AcquireFails(c, p) ==
  \E s \in Slots :
    /\ hold[c] = NoSlot
    /\ Missing(p) /\ Allocates(s)
    /\ elf' = [elf EXCEPT ![s] = NoBlock]
    /\ cfi' = [cfi EXCEPT ![s] = NoBlock]
    /\ heap' = HeapWithout(s)
    /\ state' = [state EXCEPT ![s] = "UNUSED"]
    /\ path' = [path EXCEPT ![s] = NoPath]
    /\ file' = [file EXCEPT ![s] = NoPath]
    /\ refcnt' = [refcnt EXCEPT ![s] = 0]
    /\ warmSeq' = [warmSeq EXCEPT ![s] = 0]
    /\ status' = "LOAD_ERROR"
    /\ UNCHANGED <<warmClock, clientVars>>

(* A miss with every slot ACTIVE.                                          *)
AcquireFull(c, p) ==
  /\ hold[c] = NoSlot
  /\ Missing(p) /\ \A s \in Slots : ~Allocates(s)
  /\ status' = "CACHE_FULL"
  /\ UNCHANGED <<entryVars, warmClock, heap, clientVars>>

-----------------------------------------------------------------------------
(* dwunw_module_cache_release *)

(* A client gives its handle back: the last one leaves the slot WARM.      *)
Release(c) ==
  \E s \in Slots :
    /\ hold[c] = s /\ state[s] # "UNUSED" /\ refcnt[s] > 0
    /\ refcnt' = [refcnt EXCEPT ![s] = @ - 1]
    /\ IF refcnt[s] = 1
       THEN /\ state' = [state EXCEPT ![s] = "WARM"]
            /\ warmSeq' = [warmSeq EXCEPT ![s] = warmClock + 1]
            /\ warmClock' = warmClock + 1
       ELSE UNCHANGED <<state, warmSeq, warmClock>>
    /\ hold' = [hold EXCEPT ![c] = NoSlot]
    /\ want' = [want EXCEPT ![c] = NoPath]
    /\ status' = "OK"
    /\ UNCHANGED <<path, elf, cfi, file, heap>>

(* A second release of a handle nobody holds any more is refused.          *)
ReleaseAgain(s) ==
  /\ state[s] = "UNUSED" \/ refcnt[s] = 0
  /\ status' = "INVALID_ARG"
  /\ UNCHANGED <<entryVars, warmClock, heap, clientVars>>

-----------------------------------------------------------------------------
(* dwunw_module_cache_flush, called by dwunw_shutdown once every capture   *)
(* has returned and so has given its handle back.                          *)
Flush ==
  /\ \A c \in Clients : hold[c] = NoSlot
  /\ state' = [s \in Slots |-> "UNUSED"]
  /\ path' = [s \in Slots |-> NoPath]
  /\ file' = [s \in Slots |-> NoPath]
  /\ refcnt' = [s \in Slots |-> 0]
  /\ warmSeq' = [s \in Slots |-> 0]
  /\ elf' = [s \in Slots |-> NoBlock]
  /\ cfi' = [s \in Slots |-> NoBlock]
  /\ heap' = heap \ Owned
  /\ warmClock' = 0
  /\ status' = "OK"
  /\ UNCHANGED clientVars

Next ==
  \/ \E c \in Clients, p \in Paths :
       \/ AcquireActive(c, p)
       \/ AcquireWarm(c, p)
       \/ AcquireLoad(c, p)
       \/ AcquireFails(c, p)
       \/ AcquireFull(c, p)
  \/ \E c \in Clients : Release(c)
  \/ \E s \in Slots : ReleaseAgain(s)
  \/ Flush

Spec == Init /\ [][Next]_vars

-----------------------------------------------------------------------------
(* Safety *)

(* The reference count of a slot is the number of handles to it that are   *)
(* still out, and the slot is ACTIVE exactly while there is one: no        *)
(* sequence of acquires, failed acquires, evictions and releases lets the  *)
(* two drift apart (module_cache.c:110-121 against 169-177).               *)
RefcountsMatchHolders ==
  \A s \in Slots :
    /\ refcnt[s] = Cardinality(Holders(s))
    /\ state[s] = "ACTIVE" <=> Holders(s) # {}

(* A handle leads to the module of the file it was acquired for, for as    *)
(* long as it is held, unless the name asked for is what a longer name was *)
(* cut to (strncpy at :142, strncmp at :29).                               *)
HolderHasItsModule ==
  \A c \in Clients : hold[c] # NoSlot =>
    Ambiguous(want[c]) \/ file[hold[c]] = want[c]

(* A file is parsed into one slot at a time: two slots in use never store  *)
(* the same name, unless it is the prefix of over-long names, which find   *)
(* never matches.                                                          *)
NoDuplicate ==
  \A s, t \in Slots :
    s # t /\ state[s] # "UNUSED" /\ state[t] # "UNUSED" /\ path[s] = path[t]
      => Ambiguous(path[s])

(* The heap holds exactly the images and tables the slots in use own, each *)
(* owned once: eviction, flush and the failure paths neither leak a block  *)
(* nor leave one to be freed twice (:6-15, :129-140).                      *)
HeapIsOwned ==
  /\ heap = Owned
  /\ \A s, t \in Slots :
       /\ elf[s] # cfi[t] \/ elf[s] = NoBlock
       /\ s # t => /\ elf[s] # elf[t] \/ elf[s] = NoBlock
                   /\ cfi[s] # cfi[t] \/ cfi[s] = NoBlock
  /\ \A s \in Slots : state[s] # "UNUSED" <=> elf[s] # NoBlock

(* An acquire is refused for lack of room only when every slot is pinned   *)
(* by some client (:123-126): warm slots always give way.                  *)
FullMeansPinned ==
  status = "CACHE_FULL" => \A s \in Slots : Holders(s) # {}

(* No call by anybody else frees, moves or replaces the image and tables   *)
(* of a module while a client holds its handle.                            *)
HeldModuleStays ==
  [][\A c \in Clients :
       hold[c] # NoSlot /\ hold'[c] = hold[c] =>
         /\ elf'[hold[c]] = elf[hold[c]] /\ elf'[hold[c]] \in heap'
         /\ cfi'[hold[c]] = cfi[hold[c]]]_vars

-----------------------------------------------------------------------------
(* The promise *)

(* The elements of a set, from the one with the least key on.              *)
InOrder(S, key) ==
  [i \in 1 .. Cardinality(S) |->
     CHOOSE s \in S : Cardinality({t \in S : key[t] <= key[s]}) = i]

(* The names in WARM slots, in the order of their warm_seq.                *)
WarmSlots == {s \in Slots : state[s] = "WARM"}

WarmQueue ==
  [i \in 1 .. Cardinality(WarmSlots) |-> path[InOrder(WarmSlots, warmSeq)[i]]]

Promise == INSTANCE ModuleCacheSpec WITH
  using <- want, warm <- WarmQueue, answer <- status

(* Every module loaded is of a file whose name was stored whole.           *)
NamesWhole == \A s \in Slots : path[s] = file[s]

(* Slots, counters and sequence numbers implement the queue of released    *)
(* modules: what is loaded, what is evicted and what each call answers is  *)
(* what the specification allows, over every sequence of calls, for as     *)
(* long as no over-long name is loaded (module_cache.c:38-63, 97-183).     *)
ImplementsPromise ==
  Promise!Init /\ [][NamesWhole /\ NamesWhole' => [Promise!Next]_Promise!absVars]_vars

=============================================================================
