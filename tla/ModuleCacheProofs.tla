-------------------------- MODULE ModuleCacheProofs --------------------------
(***************************************************************************)
(* Proofs about ModuleCache for every capacity, every set of paths and     *)
(* clients and every heap.                                                 *)
(***************************************************************************)
EXTENDS ModuleCache, Sequences, FiniteSetTheorems, WellFoundedInduction, TLAPS

(* A slot in use was parsed from a real file and stores that file's name,  *)
(* as far as it fits.                                                      *)
SlotsAreNamed ==
  \A s \in Slots : state[s] # "UNUSED" =>
    file[s] \in Paths /\ path[s] = Stored[file[s]]

IInv ==
  /\ TypeOK
  /\ RefcountsMatchHolders
  /\ SlotsAreNamed
  /\ NoDuplicate
  /\ HolderHasItsModule
  /\ HeapIsOwned
  /\ FullMeansPinned

-----------------------------------------------------------------------------
(* Lemmas about the operators *)

(* A set of naturals that has an element has a least one.                  *)
LEMMA NatMinimum ==
  ASSUME NEW S \in SUBSET Nat, S # {}
  PROVE  \E m \in S : \A n \in S : m <= n
<1>. DEFINE R == {ss \in Nat \X Nat : ss[1] < ss[2]}
<1>1. IsWellFoundedOn(R, Nat)
  BY NatLessThanWellFounded DEF OpToRel
<1>. HIDE DEF R
<1>2. PICK m \in S : \A n \in S : ~(<<n, m>> \in R)
  BY <1>1, WFMin
<1>3. \A n \in S : n < m => <<n, m>> \in R
  BY DEF R
<1>4. \A n \in S : ~(n < m)
  BY <1>2, <1>3, Zenon
<1>. QED
  BY <1>4

(* Slots are naturals and NoSlot is none of them.                          *)
LEMMA SlotsFacts ==
  /\ Slots \subseteq Nat
  /\ NoSlot \notin Slots
BY CapacityAssumption DEF Slots, NoSlot

(* As long as some slot is not ACTIVE, alloc finds a slot.                 *)
LEMMA IdleSlotAllocates ==
  ASSUME TypeOK, \E s \in Slots : state[s] # "ACTIVE"
  PROVE  \E s \in Slots : Allocates(s)
<1>1. CASE \E s \in Slots : state[s] = "UNUSED"
  <2>. DEFINE U == {s \in Slots : state[s] = "UNUSED"}
  <2>1. PICK s \in U : \A t \in U : s <= t
    BY <1>1, NatMinimum, SlotsFacts
  <2>2. \A t \in 0 .. s - 1 : t \in Slots /\ ~(s <= t)
    BY CapacityAssumption DEF Slots
  <2>. QED
    BY <2>1, <2>2 DEF Allocates
<1>2. CASE \A s \in Slots : state[s] # "UNUSED"
  <2>. DEFINE W == {s \in Slots : state[s] = "WARM"}
              Q == {warmSeq[s] : s \in W}
  <2>1. W # {} /\ Q # {} /\ Q \in SUBSET Nat
    BY <1>2 DEF TypeOK
  <2>2. PICK q \in Q : \A r \in Q : q <= r
    BY <2>1, NatMinimum
  <2>. DEFINE M == {s \in W : warmSeq[s] = q}
  <2>3. M # {} /\ M \in SUBSET Nat
    BY <2>2, SlotsFacts
  <2>4. PICK s \in M : \A t \in M : s <= t
    BY <2>3, NatMinimum
  <2>5. \A t \in W : q <= warmSeq[t] /\ q \in Nat /\ warmSeq[t] \in Nat
    BY <2>1, <2>2
  <2>6. OldestWarm(s)
    BY <2>4, <2>5 DEF OldestWarm
  <2>. QED
    BY <1>2, <2>4, <2>6 DEF Allocates
<1>. QED
  BY <1>1, <1>2

(* A slot that alloc picks is not ACTIVE.                                  *)
LEMMA AllocatedIsIdle ==
  ASSUME NEW s, Allocates(s)
  PROVE  state[s] # "ACTIVE"
BY DEF Allocates, OldestWarm

(* A slot has finitely many holders, and none when it has zero.            *)
LEMMA HoldersFinite ==
  ASSUME NEW s
  PROVE  /\ IsFiniteSet(Holders(s))
         /\ Cardinality(Holders(s)) \in Nat
         /\ Cardinality(Holders(s)) = 0 <=> Holders(s) = {}
<1>1. Holders(s) \in SUBSET Clients
  BY DEF Holders
<1>2. IsFiniteSet(Holders(s))
  BY <1>1, ClientsAssumption, FS_Subset
<1>. QED
  BY <1>2, FS_CardinalityType, FS_EmptySet

(* Handing a free client a slot adds it to that slot's holders only.       *)
LEMMA PinHolders ==
  ASSUME TypeOK, NEW c \in Clients, NEW s \in Slots, hold[c] = NoSlot,
         hold' = [hold EXCEPT ![c] = s]
  PROVE  \A t \in Slots :
           /\ Holders(t)' = IF t = s THEN Holders(t) \cup {c} ELSE Holders(t)
           /\ Cardinality(Holders(t)') =
                IF t = s THEN Cardinality(Holders(t)) + 1
                         ELSE Cardinality(Holders(t))
           /\ Cardinality(Holders(t)') = 0 <=> Holders(t)' = {}
<1>. TAKE t \in Slots
<1>1. Holders(t)' = IF t = s THEN Holders(t) \cup {c} ELSE Holders(t)
  BY SlotsFacts DEF TypeOK, Holders
<1>2. c \notin Holders(t)
  BY SlotsFacts DEF Holders
<1>3. IsFiniteSet(Holders(t)) /\ Cardinality(Holders(t)) \in Nat
  BY HoldersFinite
<1>4. Cardinality(Holders(t) \cup {c}) = Cardinality(Holders(t)) + 1
  BY <1>2, <1>3, FS_AddElement
<1>5. Cardinality(Holders(t)) = 0 <=> Holders(t) = {}
  BY HoldersFinite
<1>. QED
  BY <1>1, <1>3, <1>4, <1>5

(* Taking the slot back from a client removes it from that slot's holders. *)
LEMMA UnpinHolders ==
  ASSUME TypeOK, NEW c \in Clients, NEW s \in Slots, hold[c] = s,
         hold' = [hold EXCEPT ![c] = NoSlot]
  PROVE  \A t \in Slots :
           /\ Holders(t)' = IF t = s THEN Holders(t) \ {c} ELSE Holders(t)
           /\ Cardinality(Holders(t)') =
                IF t = s THEN Cardinality(Holders(t)) - 1
                         ELSE Cardinality(Holders(t))
           /\ Cardinality(Holders(t)') = 0 <=> Holders(t)' = {}
<1>. TAKE t \in Slots
<1>1. Holders(t)' = IF t = s THEN Holders(t) \ {c} ELSE Holders(t)
  BY SlotsFacts DEF TypeOK, Holders
<1>2. t = s => c \in Holders(t)
  BY DEF Holders
<1>3. IsFiniteSet(Holders(t)) /\ Cardinality(Holders(t)) \in Nat
  BY HoldersFinite
<1>4. t = s => Cardinality(Holders(t) \ {c}) = Cardinality(Holders(t)) - 1
  BY <1>2, <1>3, FS_RemoveElement
<1>5. Cardinality(Holders(t)) = 0 <=> Holders(t) = {}
  BY HoldersFinite
<1>6. Cardinality(Holders(t) \ {c}) = 0 <=> Holders(t) \ {c} = {}
  BY <1>3, FS_RemoveElement, FS_EmptySet
<1>. QED
  BY <1>1, <1>4, <1>5, <1>6

-----------------------------------------------------------------------------
(* Types *)

(* An initialised cache has its type.                                      *)
THEOREM InitTypeOK == Init => TypeOK
BY CapacityAssumption DEF Init, TypeOK, Slots, NoSlot

(* Every call keeps every field within its type.                           *)
THEOREM StepTypeOK == TypeOK /\ [Next]_vars => TypeOK'
<1>. SUFFICES ASSUME TypeOK, [Next]_vars PROVE TypeOK'
  OBVIOUS
<1>. USE SlotsFacts
<1>1. ASSUME NEW c \in Clients, NEW p \in Paths, AcquireActive(c, p)
      PROVE  TypeOK'
  BY <1>1 DEF TypeOK, AcquireActive, Pins
<1>2. ASSUME NEW c \in Clients, NEW p \in Paths, AcquireWarm(c, p)
      PROVE  TypeOK'
  BY <1>2 DEF TypeOK, AcquireWarm, Pins
<1>3. ASSUME NEW c \in Clients, NEW p \in Paths, AcquireLoad(c, p)
      PROVE  TypeOK'
  BY <1>3, StoredAssumption DEF TypeOK, AcquireLoad, Pins, HeapWithout
<1>4. ASSUME NEW c \in Clients, NEW p \in Paths, AcquireFails(c, p)
      PROVE  TypeOK'
  BY <1>4 DEF TypeOK, AcquireFails, HeapWithout, clientVars
<1>5. ASSUME NEW c \in Clients, NEW p \in Paths, AcquireFull(c, p)
      PROVE  TypeOK'
  BY <1>5 DEF TypeOK, AcquireFull, entryVars, clientVars
<1>6. ASSUME NEW c \in Clients, Release(c)
      PROVE  TypeOK'
  BY <1>6 DEF TypeOK, Release
<1>7. ASSUME NEW s \in Slots, ReleaseAgain(s)
      PROVE  TypeOK'
  BY <1>7 DEF TypeOK, ReleaseAgain, entryVars, clientVars
<1>8. CASE Flush
  BY <1>8 DEF TypeOK, Flush, clientVars
<1>9. CASE UNCHANGED vars
  BY <1>9 DEF TypeOK, vars, entryVars, clientVars
<1>. QED
  BY <1>1, <1>2, <1>3, <1>4, <1>5, <1>6, <1>7, <1>8, <1>9 DEF Next

(* The cache's fields never leave their types, whatever is acquired,       *)
(* evicted, released or flushed.                                           *)
THEOREM TypeCorrect == Spec => []TypeOK
BY InitTypeOK, StepTypeOK, PTL DEF Spec

-----------------------------------------------------------------------------
(* Reference counts *)

(* No call makes a reference count differ from the handles out.            *)
LEMMA StepRefcounts ==
  ASSUME TypeOK, RefcountsMatchHolders, [Next]_vars
  PROVE  RefcountsMatchHolders'
<1>. USE SlotsFacts
<1>0. \A s \in Slots : Cardinality(Holders(s)) \in Nat
                      /\ (Cardinality(Holders(s)) = 0 <=> Holders(s) = {})
  BY HoldersFinite
<1>1. ASSUME NEW c \in Clients, NEW p \in Paths, AcquireActive(c, p)
      PROVE  RefcountsMatchHolders'
  <2>1. PICK s \in Slots :
          /\ hold[c] = NoSlot /\ hold' = [hold EXCEPT ![c] = s]
          /\ state[s] = "ACTIVE" /\ state' = state
          /\ refcnt' = [refcnt EXCEPT ![s] = @ + 1]
    BY <1>1 DEF AcquireActive, Pins
  <2>. SUFFICES ASSUME NEW t \in Slots
                PROVE  /\ refcnt'[t] = Cardinality(Holders(t)')
                       /\ state'[t] = "ACTIVE" <=> Holders(t)' # {}
    BY DEF RefcountsMatchHolders
  <2>2. /\ refcnt[t] = Cardinality(Holders(t))
        /\ state[t] = "ACTIVE" <=> Holders(t) # {}
    BY DEF RefcountsMatchHolders
  <2>3. CASE t = s
    <3>1. Holders(t)' = Holders(t) \cup {c}
          /\ Cardinality(Holders(t)') = Cardinality(Holders(t)) + 1
      BY <2>1, <2>3, PinHolders
    <3>. QED
      BY <1>0, <2>1, <2>2, <2>3, <3>1 DEF TypeOK
  <2>4. CASE t # s
    <3>1. Holders(t)' = Holders(t)
      BY <2>1, <2>4, PinHolders
    <3>. QED
      BY <2>1, <2>2, <2>4, <3>1 DEF TypeOK
  <2>. QED
    BY <2>3, <2>4
<1>2. ASSUME NEW c \in Clients, NEW p \in Paths, AcquireWarm(c, p)
      PROVE  RefcountsMatchHolders'
  <2>1. PICK s \in Slots :
          /\ hold[c] = NoSlot /\ hold' = [hold EXCEPT ![c] = s]
          /\ state[s] = "WARM" /\ state' = [state EXCEPT ![s] = "ACTIVE"]
          /\ refcnt' = [refcnt EXCEPT ![s] = 1]
    BY <1>2 DEF AcquireWarm, Pins
  <2>. SUFFICES ASSUME NEW t \in Slots
                PROVE  /\ refcnt'[t] = Cardinality(Holders(t)')
                       /\ state'[t] = "ACTIVE" <=> Holders(t)' # {}
    BY DEF RefcountsMatchHolders
  <2>2. /\ refcnt[t] = Cardinality(Holders(t))
        /\ state[t] = "ACTIVE" <=> Holders(t) # {}
    BY DEF RefcountsMatchHolders
  <2>3. CASE t = s
    <3>1. Holders(t)' = Holders(t) \cup {c}
          /\ Cardinality(Holders(t)') = Cardinality(Holders(t)) + 1
      BY <2>1, <2>3, PinHolders
    <3>. QED
      BY <1>0, <2>1, <2>2, <2>3, <3>1 DEF TypeOK
  <2>4. CASE t # s
    <3>1. Holders(t)' = Holders(t)
      BY <2>1, <2>4, PinHolders
    <3>. QED
      BY <2>1, <2>2, <2>4, <3>1 DEF TypeOK
  <2>. QED
    BY <2>3, <2>4
<1>3. ASSUME NEW c \in Clients, NEW p \in Paths, AcquireLoad(c, p)
      PROVE  RefcountsMatchHolders'
  <2>1. PICK s \in Slots :
          /\ hold[c] = NoSlot /\ hold' = [hold EXCEPT ![c] = s]
          /\ state[s] # "ACTIVE" /\ state' = [state EXCEPT ![s] = "ACTIVE"]
          /\ refcnt' = [refcnt EXCEPT ![s] = 1]
    BY <1>3, AllocatedIsIdle DEF AcquireLoad, Pins
  <2>. SUFFICES ASSUME NEW t \in Slots
                PROVE  /\ refcnt'[t] = Cardinality(Holders(t)')
                       /\ state'[t] = "ACTIVE" <=> Holders(t)' # {}
    BY DEF RefcountsMatchHolders
  <2>2. /\ refcnt[t] = Cardinality(Holders(t))
        /\ state[t] = "ACTIVE" <=> Holders(t) # {}
    BY DEF RefcountsMatchHolders
  <2>3. CASE t = s
    <3>1. Holders(t)' = Holders(t) \cup {c}
          /\ Cardinality(Holders(t)') = Cardinality(Holders(t)) + 1
      BY <2>1, <2>3, PinHolders
    <3>. QED
      BY <1>0, <2>1, <2>2, <2>3, <3>1 DEF TypeOK
  <2>4. CASE t # s
    <3>1. Holders(t)' = Holders(t)
      BY <2>1, <2>4, PinHolders
    <3>. QED
      BY <2>1, <2>2, <2>4, <3>1 DEF TypeOK
  <2>. QED
    BY <2>3, <2>4
<1>4. ASSUME NEW c \in Clients, NEW p \in Paths, AcquireFails(c, p)
      PROVE  RefcountsMatchHolders'
  <2>1. PICK s \in Slots :
          /\ hold' = hold
          /\ state[s] # "ACTIVE" /\ state' = [state EXCEPT ![s] = "UNUSED"]
          /\ refcnt' = [refcnt EXCEPT ![s] = 0]
    BY <1>4, AllocatedIsIdle DEF AcquireFails, clientVars
  <2>2. \A t \in Slots : Holders(t)' = Holders(t)
    BY <2>1 DEF Holders
  <2>. QED
    BY <1>0, <2>1, <2>2 DEF RefcountsMatchHolders, TypeOK
<1>5. ASSUME NEW c \in Clients, Release(c)
      PROVE  RefcountsMatchHolders'
  <2>1. PICK s \in Slots :
          /\ hold[c] = s /\ hold' = [hold EXCEPT ![c] = NoSlot]
          /\ refcnt' = [refcnt EXCEPT ![s] = @ - 1]
          /\ IF refcnt[s] = 1 THEN state' = [state EXCEPT ![s] = "WARM"]
                              ELSE state' = state
    BY <1>5 DEF Release
  <2>. SUFFICES ASSUME NEW t \in Slots
                PROVE  /\ refcnt'[t] = Cardinality(Holders(t)')
                       /\ state'[t] = "ACTIVE" <=> Holders(t)' # {}
    BY DEF RefcountsMatchHolders
  <2>2. /\ refcnt[t] = Cardinality(Holders(t))
        /\ state[t] = "ACTIVE" <=> Holders(t) # {}
    BY DEF RefcountsMatchHolders
  <2>3. CASE t = s
    <3>1. /\ Cardinality(Holders(t)') = Cardinality(Holders(t)) - 1
          /\ Cardinality(Holders(t)') = 0 <=> Holders(t)' = {}
      BY <2>1, <2>3, UnpinHolders
    <3>2. state[t] = "ACTIVE"
      BY <2>1, <2>2, <2>3 DEF Holders
    <3>3. refcnt'[t] = Cardinality(Holders(t)')
      BY <2>1, <2>2, <2>3, <3>1 DEF TypeOK
    <3>4. refcnt[t] = 1 <=> Holders(t)' = {}
      BY <1>0, <2>2, <3>1
    <3>. QED
      BY <2>1, <2>3, <3>2, <3>3, <3>4 DEF TypeOK
  <2>4. CASE t # s
    <3>1. Holders(t)' = Holders(t)
      BY <2>1, <2>4, UnpinHolders
    <3>. QED
      BY <2>1, <2>2, <2>4, <3>1 DEF TypeOK
  <2>. QED
    BY <2>3, <2>4
<1>6. CASE Flush
  <2>1. \A t \in Slots : Holders(t)' = {}
    BY <1>6 DEF Flush, clientVars, Holders
  <2>. QED
    BY <1>6, <2>1, FS_EmptySet DEF Flush, RefcountsMatchHolders
<1>7. CASE UNCHANGED <<hold, state, refcnt>>
  <2>1. \A t \in Slots : Holders(t)' = Holders(t)
    BY <1>7 DEF Holders
  <2>. QED
    BY <1>7, <2>1 DEF RefcountsMatchHolders
<1>8. ASSUME NEW c \in Clients, NEW p \in Paths, AcquireFull(c, p)
      PROVE  UNCHANGED <<hold, state, refcnt>>
  BY <1>8 DEF AcquireFull, entryVars, clientVars
<1>9. ASSUME NEW s \in Slots, ReleaseAgain(s)
      PROVE  UNCHANGED <<hold, state, refcnt>>
  BY <1>9 DEF ReleaseAgain, entryVars, clientVars
<1>10. UNCHANGED vars => UNCHANGED <<hold, state, refcnt>>
  BY DEF vars, entryVars, clientVars
<1>. QED
  BY <1>1, <1>2, <1>3, <1>4, <1>5, <1>6, <1>7, <1>8, <1>9, <1>10 DEF Next

-----------------------------------------------------------------------------
(* Names *)

(* A hit leads to the file asked for, unless the name is ambiguous.        *)
LEMMA HitIsRight ==
  ASSUME SlotsAreNamed, NEW p, NEW s \in Slots, Finds(p, s)
  PROVE  Ambiguous(p) \/ file[s] = p
BY DEF SlotsAreNamed, Finds, Ambiguous

(* No call makes a handle lead to another file than was asked for, or      *)
(* gives a file a second slot.                                             *)
LEMMA StepNames ==
  ASSUME TypeOK, RefcountsMatchHolders, SlotsAreNamed, NoDuplicate,
         HolderHasItsModule, [Next]_vars
  PROVE  SlotsAreNamed' /\ NoDuplicate' /\ HolderHasItsModule'
<1>. USE SlotsFacts
<1>. DEFINE Goal == SlotsAreNamed' /\ NoDuplicate' /\ HolderHasItsModule'
<1>1. ASSUME NEW c \in Clients, NEW p \in Paths, NEW s \in Slots,
             Finds(p, s), hold[c] = NoSlot, Pins(c, s, p),
             UNCHANGED <<path, file>>,
             state' = [state EXCEPT ![s] = "ACTIVE"]
      PROVE  Goal
  <2>1. \A t \in Slots : state'[t] # "UNUSED" <=> state[t] # "UNUSED"
    BY <1>1 DEF Finds, TypeOK
  <2>2. SlotsAreNamed' /\ NoDuplicate'
    BY <1>1, <2>1 DEF SlotsAreNamed, NoDuplicate, Ambiguous
  <2>3. HolderHasItsModule'
    <3>1. Ambiguous(p) \/ file[s] = p
      BY <1>1, HitIsRight
    <3>. QED
      BY <1>1, <3>1 DEF HolderHasItsModule, Pins, TypeOK, Ambiguous
  <2>. QED
    BY <2>2, <2>3
<1>2. ASSUME NEW c \in Clients, NEW p \in Paths, AcquireActive(c, p)
      PROVE  Goal
  <2>1. PICK s \in Slots : /\ hold[c] = NoSlot /\ Finds(p, s)
                           /\ state[s] = "ACTIVE" /\ Pins(c, s, p)
                           /\ UNCHANGED <<state, path, file>>
    BY <1>2 DEF AcquireActive
  <2>2. state' = [state EXCEPT ![s] = "ACTIVE"]
    BY <2>1 DEF TypeOK
  <2>. QED
    BY <1>1, <2>1, <2>2
<1>3. ASSUME NEW c \in Clients, NEW p \in Paths, AcquireWarm(c, p)
      PROVE  Goal
  BY <1>1, <1>3 DEF AcquireWarm
<1>4. ASSUME NEW c \in Clients, NEW p \in Paths, AcquireLoad(c, p)
      PROVE  Goal
  <2>1. PICK s \in Slots :
          /\ hold[c] = NoSlot /\ Missing(p) /\ state[s] # "ACTIVE"
          /\ state' = [state EXCEPT ![s] = "ACTIVE"]
          /\ path' = [path EXCEPT ![s] = Stored[p]]
          /\ file' = [file EXCEPT ![s] = p]
          /\ Pins(c, s, p)
    BY <1>4, AllocatedIsIdle DEF AcquireLoad
  <2>2. SlotsAreNamed'
    BY <2>1, StoredAssumption DEF SlotsAreNamed, TypeOK
  <2>3. \A t \in Slots : t # s /\ state[t] # "UNUSED" /\ path[t] = Stored[p]
          => Ambiguous(Stored[p])
    BY <2>1 DEF Missing, Ambiguous
  <2>4. NoDuplicate'
    BY <2>1, <2>3 DEF NoDuplicate, TypeOK, Ambiguous
  <2>5. HolderHasItsModule'
    <3>1. Holders(s) = {}
      BY <2>1 DEF RefcountsMatchHolders
    <3>. QED
      BY <2>1, <3>1 DEF HolderHasItsModule, Holders, Pins, TypeOK, Ambiguous
  <2>. QED
    BY <2>2, <2>4, <2>5
<1>5. ASSUME NEW c \in Clients, NEW p \in Paths, AcquireFails(c, p)
      PROVE  Goal
  <2>1. PICK s \in Slots :
          /\ state[s] # "ACTIVE"
          /\ state' = [state EXCEPT ![s] = "UNUSED"]
          /\ path' = [path EXCEPT ![s] = NoPath]
          /\ file' = [file EXCEPT ![s] = NoPath]
          /\ UNCHANGED <<hold, want>>
    BY <1>5, AllocatedIsIdle DEF AcquireFails, clientVars
  <2>2. SlotsAreNamed' /\ NoDuplicate'
    BY <2>1 DEF SlotsAreNamed, NoDuplicate, TypeOK, Ambiguous
  <2>3. HolderHasItsModule'
    <3>1. Holders(s) = {}
      BY <2>1 DEF RefcountsMatchHolders
    <3>. QED
      BY <2>1, <3>1 DEF HolderHasItsModule, Holders, TypeOK, Ambiguous
  <2>. QED
    BY <2>2, <2>3
<1>6. ASSUME NEW c \in Clients, Release(c)
      PROVE  Goal
  <2>1. PICK s \in Slots :
          /\ hold' = [hold EXCEPT ![c] = NoSlot]
          /\ want' = [want EXCEPT ![c] = NoPath]
          /\ UNCHANGED <<path, file>>
          /\ state[s] # "UNUSED"
          /\ state' = state \/ state' = [state EXCEPT ![s] = "WARM"]
    BY <1>6 DEF Release
  <2>2. \A t \in Slots : state'[t] # "UNUSED" <=> state[t] # "UNUSED"
    BY <2>1 DEF TypeOK
  <2>3. SlotsAreNamed' /\ NoDuplicate'
    BY <2>1, <2>2 DEF SlotsAreNamed, NoDuplicate, Ambiguous
  <2>4. HolderHasItsModule'
    BY <2>1 DEF HolderHasItsModule, TypeOK, Ambiguous
  <2>. QED
    BY <2>3, <2>4
<1>7. CASE Flush
  BY <1>7 DEF Flush, clientVars, SlotsAreNamed, NoDuplicate,
              HolderHasItsModule, Ambiguous, TypeOK
<1>8. CASE UNCHANGED <<hold, want, state, path, file>>
  BY <1>8 DEF SlotsAreNamed, NoDuplicate, HolderHasItsModule, Ambiguous
<1>9. ASSUME NEW c \in Clients, NEW p \in Paths, AcquireFull(c, p)
      PROVE  Goal
  BY <1>8, <1>9 DEF AcquireFull, entryVars, clientVars
<1>10. ASSUME NEW s \in Slots, ReleaseAgain(s)
       PROVE  Goal
  BY <1>8, <1>10 DEF ReleaseAgain, entryVars, clientVars
<1>11. CASE UNCHANGED vars
  BY <1>8, <1>11 DEF vars, entryVars, clientVars
<1>. QED
  BY <1>2, <1>3, <1>4, <1>5, <1>6, <1>7, <1>9, <1>10, <1>11 DEF Next

-----------------------------------------------------------------------------
(* The heap *)

(* No call leaks a block or gives one two owners.                          *)
LEMMA StepHeap ==
  ASSUME TypeOK, HeapIsOwned, [Next]_vars
  PROVE  HeapIsOwned'
<1>. USE SlotsFacts, NullAssumption
<1>1. CASE /\ UNCHANGED <<elf, cfi, heap>>
           /\ \A s \in Slots : state'[s] # "UNUSED" <=> state[s] # "UNUSED"
  BY <1>1 DEF HeapIsOwned, Owned
<1>2. ASSUME NEW c \in Clients, NEW p \in Paths, AcquireActive(c, p)
      PROVE  HeapIsOwned'
  BY <1>1, <1>2 DEF AcquireActive
<1>3. ASSUME NEW c \in Clients, NEW p \in Paths, AcquireWarm(c, p)
      PROVE  HeapIsOwned'
  BY <1>1, <1>3 DEF AcquireWarm, TypeOK
<1>4. ASSUME NEW c \in Clients, NEW p \in Paths, AcquireLoad(c, p)
      PROVE  HeapIsOwned'
  <2>1. PICK s \in Slots, b \in Blocks, d \in Blocks \cup {NoBlock} :
          /\ b \notin heap \ {elf[s], cfi[s]}
          /\ d \notin (heap \ {elf[s], cfi[s]}) \cup {b}
          /\ elf' = [elf EXCEPT ![s] = b]
          /\ cfi' = [cfi EXCEPT ![s] = d]
          /\ heap' = (heap \ {elf[s], cfi[s]}) \cup ({b, d} \ {NoBlock})
          /\ state' = [state EXCEPT ![s] = "ACTIVE"]
    BY <1>4 DEF AcquireLoad, HeapWithout
  <2>2. \A t \in Slots : t # s =>
          /\ elf[t] \notin {elf[s], cfi[s]} \/ elf[t] = NoBlock
          /\ cfi[t] \notin {elf[s], cfi[s]} \/ cfi[t] = NoBlock
    BY DEF HeapIsOwned
  <2>3. heap' = Owned'
    <3>1. ASSUME NEW x
          PROVE  x \in heap' <=>
                   x # NoBlock /\ \E t \in Slots : x = elf'[t] \/ x = cfi'[t]
      BY <2>1, <2>2 DEF TypeOK, HeapIsOwned, Owned
    <3>. QED
      BY <3>1 DEF Owned
  <2>4. \A t \in Slots : t # s =>
          /\ elf[t] \in heap \ {elf[s], cfi[s]} \/ elf[t] = NoBlock
          /\ cfi[t] \in heap \ {elf[s], cfi[s]} \/ cfi[t] = NoBlock
    BY <2>2 DEF HeapIsOwned, Owned
  <2>5. \A t, u \in Slots :
          /\ elf'[t] # cfi'[u] \/ elf'[t] = NoBlock
          /\ t # u => /\ elf'[t] # elf'[u] \/ elf'[t] = NoBlock
                      /\ cfi'[t] # cfi'[u] \/ cfi'[t] = NoBlock
    BY <2>1, <2>4 DEF HeapIsOwned, TypeOK
  <2>6. \A t \in Slots : state'[t] # "UNUSED" <=> elf'[t] # NoBlock
    BY <2>1 DEF HeapIsOwned, TypeOK
  <2>. QED
    BY <2>3, <2>5, <2>6 DEF HeapIsOwned
<1>5. ASSUME NEW c \in Clients, NEW p \in Paths, AcquireFails(c, p)
      PROVE  HeapIsOwned'
  <2>1. PICK s \in Slots :
          /\ elf' = [elf EXCEPT ![s] = NoBlock]
          /\ cfi' = [cfi EXCEPT ![s] = NoBlock]
          /\ heap' = heap \ {elf[s], cfi[s]}
          /\ state' = [state EXCEPT ![s] = "UNUSED"]
    BY <1>5 DEF AcquireFails, HeapWithout
  <2>2. \A t \in Slots : t # s =>
          /\ elf[t] \notin {elf[s], cfi[s]} \/ elf[t] = NoBlock
          /\ cfi[t] \notin {elf[s], cfi[s]} \/ cfi[t] = NoBlock
    BY DEF HeapIsOwned
  <2>3. heap' = Owned'
    <3>1. ASSUME NEW x
          PROVE  x \in heap' <=>
                   x # NoBlock /\ \E t \in Slots : x = elf'[t] \/ x = cfi'[t]
      BY <2>1, <2>2 DEF TypeOK, HeapIsOwned, Owned
    <3>. QED
      BY <3>1 DEF Owned
  <2>. QED
    BY <2>1, <2>3 DEF HeapIsOwned, TypeOK
<1>6. ASSUME NEW c \in Clients, Release(c)
      PROVE  HeapIsOwned'
  BY <1>1, <1>6 DEF Release, TypeOK
<1>7. CASE Flush
  <2>1. heap' = {}
    BY <1>7 DEF Flush, HeapIsOwned
  <2>2. Owned' = {}
    BY <1>7 DEF Flush, Owned
  <2>. QED
    BY <1>7, <2>1, <2>2 DEF Flush, HeapIsOwned
<1>8. ASSUME NEW c \in Clients, NEW p \in Paths, AcquireFull(c, p)
      PROVE  HeapIsOwned'
  BY <1>1, <1>8 DEF AcquireFull, entryVars
<1>9. ASSUME NEW s \in Slots, ReleaseAgain(s)
      PROVE  HeapIsOwned'
  BY <1>1, <1>9 DEF ReleaseAgain, entryVars
<1>10. CASE UNCHANGED vars
  BY <1>1, <1>10 DEF vars, entryVars
<1>. QED
  BY <1>2, <1>3, <1>4, <1>5, <1>6, <1>7, <1>8, <1>9, <1>10 DEF Next

-----------------------------------------------------------------------------
(* Refusals *)

(* A call that is refused finds every slot pinned.                         *)
LEMMA StepFull ==
  ASSUME TypeOK, RefcountsMatchHolders, FullMeansPinned, [Next]_vars
  PROVE  FullMeansPinned'
<1>1. ASSUME NEW c \in Clients, NEW p \in Paths, AcquireFull(c, p)
      PROVE  FullMeansPinned'
  <2>1. \A s \in Slots : state[s] = "ACTIVE"
    BY <1>1, IdleSlotAllocates DEF AcquireFull
  <2>2. \A s \in Slots : Holders(s)' = Holders(s)
    BY <1>1 DEF AcquireFull, clientVars, Holders
  <2>. QED
    BY <2>1, <2>2 DEF RefcountsMatchHolders, FullMeansPinned
<1>2. ASSUME NEW c \in Clients, NEW p \in Paths,
             \/ AcquireActive(c, p) \/ AcquireWarm(c, p)
             \/ AcquireLoad(c, p)   \/ AcquireFails(c, p)
      PROVE  status' # "CACHE_FULL"
  BY <1>2 DEF AcquireActive, AcquireWarm, AcquireLoad, AcquireFails, Pins
<1>3. ASSUME NEW c \in Clients, Release(c)
      PROVE  status' # "CACHE_FULL"
  BY <1>3 DEF Release
<1>4. ASSUME NEW s \in Slots, ReleaseAgain(s)
      PROVE  status' # "CACHE_FULL"
  BY <1>4 DEF ReleaseAgain
<1>5. Flush => status' # "CACHE_FULL"
  BY DEF Flush
<1>6. CASE UNCHANGED vars
  BY <1>6 DEF vars, clientVars, FullMeansPinned, Holders
<1>. QED
  BY <1>1, <1>2, <1>3, <1>4, <1>5, <1>6 DEF Next, FullMeansPinned

-----------------------------------------------------------------------------
(* The inductive invariant and what follows from it *)

(* An initialised cache satisfies the invariant.                           *)
THEOREM InitIInv == Init => IInv
<1>. SUFFICES ASSUME Init PROVE IInv
  OBVIOUS
<1>. USE SlotsFacts
<1>1. TypeOK
  BY InitTypeOK
<1>2. \A s \in Slots : Holders(s) = {}
  BY DEF Init, Holders
<1>3. RefcountsMatchHolders
  BY <1>2, FS_EmptySet DEF Init, RefcountsMatchHolders
<1>4. SlotsAreNamed /\ NoDuplicate /\ HolderHasItsModule
  BY DEF Init, SlotsAreNamed, NoDuplicate, HolderHasItsModule
<1>5. Owned = {}
  BY DEF Init, Owned
<1>6. HeapIsOwned
  BY <1>5 DEF Init, HeapIsOwned
<1>7. FullMeansPinned
  BY DEF Init, FullMeansPinned
<1>. QED
  BY <1>1, <1>3, <1>4, <1>6, <1>7 DEF IInv

(* Every call of the cache keeps the invariant.                            *)
THEOREM StepIInv == IInv /\ [Next]_vars => IInv'
<1>. SUFFICES ASSUME IInv, [Next]_vars PROVE IInv'
  OBVIOUS
<1>1. TypeOK'
  BY StepTypeOK DEF IInv
<1>2. RefcountsMatchHolders'
  BY StepRefcounts DEF IInv
<1>3. SlotsAreNamed' /\ NoDuplicate' /\ HolderHasItsModule'
  BY StepNames DEF IInv
<1>4. HeapIsOwned'
  BY StepHeap DEF IInv
<1>5. FullMeansPinned'
  BY StepFull DEF IInv
<1>. QED
  BY <1>1, <1>2, <1>3, <1>4, <1>5 DEF IInv

(* Every reachable state of the cache satisfies the invariant.             *)
THEOREM AlwaysIInv == Spec => []IInv
BY InitIInv, StepIInv, PTL DEF Spec

(* The reference count of every slot is always the number of handles out.  *)
THEOREM RefcountsCorrect == Spec => []RefcountsMatchHolders
<1>1. IInv => RefcountsMatchHolders
  BY DEF IInv
<1>. QED
  BY <1>1, AlwaysIInv, PTL

(* A handle always leads to the module of the file it was acquired for,    *)
(* and a file is never in two slots, over-long names excepted.             *)
THEOREM NamesCorrect == Spec => [](HolderHasItsModule /\ NoDuplicate)
<1>1. IInv => HolderHasItsModule /\ NoDuplicate
  BY DEF IInv
<1>. QED
  BY <1>1, AlwaysIInv, PTL

(* No call leaks a block or leaves one with two owners.                    *)
THEOREM HeapCorrect == Spec => []HeapIsOwned
<1>1. IInv => HeapIsOwned
  BY DEF IInv
<1>. QED
  BY <1>1, AlwaysIInv, PTL

(* An acquire is refused for lack of room only when every slot is pinned.  *)
THEOREM RefusalCorrect == Spec => []FullMeansPinned
<1>1. IInv => FullMeansPinned
  BY DEF IInv
<1>. QED
  BY <1>1, AlwaysIInv, PTL

(* A slot somebody holds is not touched by a step that leaves the holder   *)
(* holding it: eviction, failed loads and flush only reach idle slots.     *)
LEMMA StepKeepsHeld ==
  ASSUME IInv, [Next]_vars,
         NEW d \in Clients, hold[d] # NoSlot, hold'[d] = hold[d]
  PROVE  elf'[hold[d]] = elf[hold[d]] /\ cfi'[hold[d]] = cfi[hold[d]]
<1>. USE SlotsFacts
<1>1. hold[d] \in Slots
  BY DEF IInv, TypeOK
<1>2. state[hold[d]] = "ACTIVE"
  BY <1>1 DEF IInv, RefcountsMatchHolders, Holders
<1>3. ASSUME NEW s \in Slots, Allocates(s)
      PROVE  s # hold[d]
  BY <1>2, <1>3, AllocatedIsIdle
<1>4. ASSUME NEW c \in Clients, NEW p \in Paths, AcquireLoad(c, p)
      PROVE  elf'[hold[d]] = elf[hold[d]] /\ cfi'[hold[d]] = cfi[hold[d]]
  BY <1>1, <1>3, <1>4 DEF AcquireLoad, IInv, TypeOK
<1>5. ASSUME NEW c \in Clients, NEW p \in Paths, AcquireFails(c, p)
      PROVE  elf'[hold[d]] = elf[hold[d]] /\ cfi'[hold[d]] = cfi[hold[d]]
  BY <1>1, <1>3, <1>5 DEF AcquireFails, IInv, TypeOK
<1>6. ~Flush
  BY DEF Flush
<1>7. ASSUME NEW c \in Clients, NEW p \in Paths,
             AcquireActive(c, p) \/ AcquireWarm(c, p) \/ AcquireFull(c, p)
      PROVE  UNCHANGED <<elf, cfi>>
  BY <1>7 DEF AcquireActive, AcquireWarm, AcquireFull, entryVars
<1>8. ASSUME NEW c \in Clients, Release(c)
      PROVE  UNCHANGED <<elf, cfi>>
  BY <1>8 DEF Release
<1>9. ASSUME NEW s \in Slots, ReleaseAgain(s)
      PROVE  UNCHANGED <<elf, cfi>>
  BY <1>9 DEF ReleaseAgain, entryVars
<1>10. UNCHANGED vars => UNCHANGED <<elf, cfi>>
  BY DEF vars, entryVars
<1>. QED
  BY <1>4, <1>5, <1>6, <1>7, <1>8, <1>9, <1>10 DEF Next

(* While a client holds a handle, no call by anybody else frees or replaces *)
(* the image and tables behind it.                                         *)
THEOREM HeldStays == Spec => HeldModuleStays
<1>. DEFINE Kept == \A c \in Clients :
              hold[c] # NoSlot /\ hold'[c] = hold[c] =>
                /\ elf'[hold[c]] = elf[hold[c]] /\ elf'[hold[c]] \in heap'
                /\ cfi'[hold[c]] = cfi[hold[c]]
<1>1. IInv /\ IInv' /\ [Next]_vars => Kept
  <2>. SUFFICES ASSUME IInv, IInv', [Next]_vars,
                       NEW c \in Clients, hold[c] # NoSlot, hold'[c] = hold[c]
                PROVE  /\ elf'[hold[c]] = elf[hold[c]]
                       /\ elf'[hold[c]] \in heap'
                       /\ cfi'[hold[c]] = cfi[hold[c]]
    OBVIOUS
  <2>1. elf'[hold[c]] = elf[hold[c]] /\ cfi'[hold[c]] = cfi[hold[c]]
    BY StepKeepsHeld
  <2>2. hold[c] \in Slots
    BY DEF IInv, TypeOK
  <2>3. state'[hold[c]] = "ACTIVE"
    BY <2>2 DEF IInv, RefcountsMatchHolders, Holders
  <2>4. elf'[hold[c]] \in Owned'
    BY <2>2, <2>3 DEF IInv, HeapIsOwned, Owned
  <2>. QED
    BY <2>1, <2>4 DEF IInv, HeapIsOwned
<1>2. IInv /\ IInv' /\ [Next]_vars => [Kept]_vars
  BY <1>1
<1>. QED
  BY <1>2, AlwaysIInv, PTL DEF Spec, HeldModuleStays

-----------------------------------------------------------------------------
(* Sets put in order *)

Keyed(S, key) ==
  /\ IsFiniteSet(S)
  /\ \A s \in S : key[s] \in Nat
  /\ \A s, t \in S : key[s] = key[t] => s = t

UpTo(S, key, s) == {t \in S : key[t] <= key[s]}

Rank(S, key, s) == Cardinality(UpTo(S, key, s))

(* A rank is a position.                                                   *)
LEMMA UpToIsFinite ==
  ASSUME NEW S, NEW key, Keyed(S, key), NEW s \in S
  PROVE  /\ IsFiniteSet(UpTo(S, key, s)) /\ s \in UpTo(S, key, s)
         /\ Rank(S, key, s) \in 1 .. Cardinality(S) /\ Cardinality(S) \in Nat
<1>1. UpTo(S, key, s) \in SUBSET S /\ s \in UpTo(S, key, s)
  BY DEF UpTo, Keyed
<1>2. /\ IsFiniteSet(UpTo(S, key, s))
      /\ Cardinality(UpTo(S, key, s)) <= Cardinality(S)
  BY <1>1, FS_Subset DEF Keyed
<1>3. Cardinality(UpTo(S, key, s)) \in Nat /\ Cardinality(S) \in Nat
  BY <1>2, FS_CardinalityType DEF Keyed
<1>4. Cardinality(UpTo(S, key, s)) # 0
  BY <1>1, <1>2, FS_EmptySet
<1>. QED
  BY <1>1, <1>2, <1>3, <1>4 DEF Rank

(* A greater key means a later place.                                      *)
LEMMA RankFollowsKey ==
  ASSUME NEW S, NEW key, Keyed(S, key), NEW s \in S, NEW t \in S, key[s] < key[t]
  PROVE  Rank(S, key, s) < Rank(S, key, t)
<1>1. UpTo(S, key, s) \in SUBSET UpTo(S, key, t) /\ t \notin UpTo(S, key, s)
  BY DEF UpTo, Keyed
<1>2. /\ Cardinality(UpTo(S, key, s)) <= Cardinality(UpTo(S, key, t))
      /\ Cardinality(UpTo(S, key, t)) = Cardinality(UpTo(S, key, s))
           => UpTo(S, key, t) = UpTo(S, key, s)
  BY <1>1, UpToIsFinite, FS_Subset
<1>3. t \in UpTo(S, key, t)
  BY UpToIsFinite
<1>. QED
  BY <1>1, <1>2, <1>3, UpToIsFinite DEF Rank

(* No two slots have one rank.                                             *)
LEMMA RankIsUnique ==
  ASSUME NEW S, NEW key, Keyed(S, key), NEW s \in S, NEW t \in S,
         Rank(S, key, s) = Rank(S, key, t)
  PROVE  s = t
<1>1. ~(key[s] < key[t]) /\ ~(key[t] < key[s])
  BY RankFollowsKey, UpToIsFinite
<1>. QED
  BY <1>1 DEF Keyed

(* Every place is some element's.                                          *)
LEMMA PlacesAreTaken ==
  ASSUME NEW S, NEW key, Keyed(S, key), NEW i \in 1 .. Cardinality(S)
  PROVE  \E s \in S : Rank(S, key, s) = i
<1>. DEFINE n == Cardinality(S)
            f == [s \in S |-> Rank(S, key, s)]
<1>1. n \in Nat
  BY FS_CardinalityType DEF Keyed
<1>2. IsFiniteSet(1 .. n) /\ Cardinality(1 .. n) = n
  BY <1>1, FS_Interval
<1>3. f \in [S -> 1 .. n]
  BY UpToIsFinite
<1>4. f \in Injection(S, 1 .. n)
  BY <1>3, RankIsUnique DEF Injection, IsInjective
<1>5. f \in Surjection(S, 1 .. n)
  BY <1>2, <1>4, FS_Injection
<1>. QED
  BY <1>5 DEF Surjection

(* What stands at a place is the element of that rank.                     *)
LEMMA PlaceOfRank ==
  ASSUME NEW S, NEW key, Keyed(S, key)
  PROVE  /\ \A i \in 1 .. Cardinality(S) :
              /\ InOrder(S, key)[i] \in S
              /\ Rank(S, key, InOrder(S, key)[i]) = i
         /\ \A s \in S : InOrder(S, key)[Rank(S, key, s)] = s
<1>1. ASSUME NEW i \in 1 .. Cardinality(S)
      PROVE  /\ InOrder(S, key)[i] \in S
             /\ Rank(S, key, InOrder(S, key)[i]) = i
  <2>1. \E s \in S : Cardinality({t \in S : key[t] <= key[s]}) = i
    BY PlacesAreTaken DEF Rank, UpTo
  <2>2. InOrder(S, key)[i] = CHOOSE s \in S : Cardinality({t \in S : key[t] <= key[s]}) = i
    BY DEF InOrder
  <2>. QED
    BY <2>1, <2>2 DEF Rank, UpTo
<1>2. ASSUME NEW s \in S PROVE InOrder(S, key)[Rank(S, key, s)] = s
  BY <1>1, UpToIsFinite, RankIsUnique
<1>. QED
  BY <1>1, <1>2

(* Who leaves the order makes those behind it move up.                     *)
LEMMA OrderRemoved ==
  ASSUME NEW S, NEW key, Keyed(S, key), NEW s \in S,
         NEW key2, \A t \in S \ {s} : key2[t] = key[t]
  PROVE  /\ Keyed(S \ {s}, key2)
         /\ Cardinality(S \ {s}) = Cardinality(S) - 1
         /\ \A i \in 1 .. Cardinality(S) - 1 :
              InOrder(S \ {s}, key2)[i] =
                IF i < Rank(S, key, s) THEN InOrder(S, key)[i] ELSE InOrder(S, key)[i + 1]
<1>. DEFINE T == S \ {s}
            r == Rank(S, key, s)
<1>1. IsFiniteSet(T) /\ Cardinality(T) = Cardinality(S) - 1
  BY FS_RemoveElement DEF Keyed
<1>2. Keyed(T, key2)
  BY <1>1 DEF Keyed
<1>3. r \in 1 .. Cardinality(S) /\ Cardinality(S) \in Nat
  BY UpToIsFinite
<1>4. ASSUME NEW t \in T, key[t] < key[s]
      PROVE  Rank(T, key2, t) = Rank(S, key, t)
  <2>1. UpTo(T, key2, t) = UpTo(S, key, t)
    BY <1>4 DEF UpTo, Keyed
  <2>. QED
    BY <2>1 DEF Rank
<1>5. ASSUME NEW t \in T, key[s] < key[t]
      PROVE  Rank(T, key2, t) = Rank(S, key, t) - 1
  <2>1. UpTo(T, key2, t) = UpTo(S, key, t) \ {s} /\ s \in UpTo(S, key, t)
    BY <1>5 DEF UpTo, Keyed
  <2>2. IsFiniteSet(UpTo(S, key, t))
    BY UpToIsFinite
  <2>. QED
    BY <2>1, <2>2, FS_RemoveElement DEF Rank
<1>6. ASSUME NEW i \in 1 .. Cardinality(S) - 1
      PROVE  InOrder(T, key2)[i] =
               IF i < r THEN InOrder(S, key)[i] ELSE InOrder(S, key)[i + 1]
  <2>. DEFINE t == IF i < r THEN InOrder(S, key)[i] ELSE InOrder(S, key)[i + 1]
  <2>1. t \in S /\ Rank(S, key, t) = IF i < r THEN i ELSE i + 1
    BY <1>3, PlaceOfRank
  <2>2. t # s /\ key[t] \in Nat /\ key[s] \in Nat
    BY <1>3, <2>1 DEF Keyed
  <2>3. t \in T /\ key[t] # key[s]
    BY <2>1, <2>2 DEF Keyed
  <2>4. IF i < r THEN key[t] < key[s] ELSE key[s] < key[t]
    BY <1>3, <2>1, <2>2, <2>3, RankFollowsKey
  <2>. HIDE DEF t
  <2>5. Rank(T, key2, t) = i
    BY <1>3, <1>4, <1>5, <2>1, <2>3, <2>4
  <2>6. InOrder(T, key2)[i] = t
    BY <1>2, <2>3, <2>5, PlaceOfRank
  <2>. QED
    BY <2>6 DEF t
<1>. QED
  BY <1>1, <1>2, <1>6

(* The greatest key goes to the end.                                       *)
LEMMA OrderAdded ==
  ASSUME NEW S, NEW key, Keyed(S, key), NEW s, s \notin S,
         NEW key2, \A t \in S : key2[t] = key[t] /\ key[t] < key2[s], key2[s] \in Nat
  PROVE  /\ Keyed(S \cup {s}, key2)
         /\ Cardinality(S \cup {s}) = Cardinality(S) + 1
         /\ \A i \in 1 .. Cardinality(S) + 1 :
              InOrder(S \cup {s}, key2)[i] =
                IF i <= Cardinality(S) THEN InOrder(S, key)[i] ELSE s
<1>. DEFINE T == S \cup {s}
            n == Cardinality(S)
<1>1. IsFiniteSet(T) /\ Cardinality(T) = n + 1 /\ n \in Nat
  BY FS_AddElement, FS_CardinalityType DEF Keyed
<1>2. Keyed(T, key2)
  BY <1>1 DEF Keyed
<1>3. ASSUME NEW t \in S PROVE Rank(T, key2, t) = Rank(S, key, t)
  <2>1. UpTo(T, key2, t) = UpTo(S, key, t)
    BY <1>2 DEF UpTo, Keyed
  <2>. QED
    BY <2>1 DEF Rank
<1>4. Rank(T, key2, s) = n + 1
  <2>1. UpTo(T, key2, s) = T
    BY <1>2 DEF UpTo, Keyed
  <2>. QED
    BY <1>1, <2>1 DEF Rank
<1>5. ASSUME NEW i \in 1 .. n PROVE InOrder(T, key2)[i] = InOrder(S, key)[i]
  <2>1. InOrder(S, key)[i] \in S /\ Rank(S, key, InOrder(S, key)[i]) = i
    BY PlaceOfRank
  <2>. QED
    BY <1>2, <1>3, <2>1, PlaceOfRank
<1>6. InOrder(T, key2)[n + 1] = s
  BY <1>2, <1>4, PlaceOfRank
<1>. HIDE DEF n
<1>7. ASSUME NEW i \in 1 .. n + 1
      PROVE  InOrder(T, key2)[i] = IF i <= n THEN InOrder(S, key)[i] ELSE s
  <2>1. i \in 1 .. n \/ (i = n + 1 /\ ~(i <= n))
    BY <1>1
  <2>2. \A j \in 1 .. n : j <= n
    BY <1>1
  <2>. QED
    BY <1>5, <1>6, <2>1, <2>2
<1>. QED
  BY <1>1, <1>2, <1>7 DEF n

(* The names of a set in order make a sequence.                            *)
Queue(S, key, name) == [i \in 1 .. Cardinality(S) |-> name[InOrder(S, key)[i]]]

(* A queue is the names of its slots, in the order of their ranks.         *)
LEMMA QueueIsSequence ==
  ASSUME NEW S, NEW key, NEW name, NEW P, Keyed(S, key), \A s \in S : name[s] \in P
  PROVE  /\ Queue(S, key, name) \in Seq(P)
         /\ Len(Queue(S, key, name)) = Cardinality(S) /\ Cardinality(S) \in Nat
         /\ \A i \in 1 .. Cardinality(S) :
              Queue(S, key, name)[i] = name[InOrder(S, key)[i]]
<1>1. Cardinality(S) \in Nat
  BY FS_CardinalityType DEF Keyed
<1>2. \A i \in 1 .. Cardinality(S) : name[InOrder(S, key)[i]] \in P
  BY PlaceOfRank
<1>3. Queue(S, key, name) \in [1 .. Cardinality(S) -> P]
  BY <1>2 DEF Queue
<1>. QED
  BY <1>1, <1>3 DEF Queue

(* Two sequences with the same elements are the same.                      *)
LEMMA SameSequence ==
  ASSUME NEW P, NEW u \in Seq(P), NEW v \in Seq(P), Len(u) = Len(v),
         \A i \in 1 .. Len(u) : u[i] = v[i]
  PROVE  u = v
OBVIOUS

(* A member of the set is in the queue, at the place it has.               *)
LEMMA QueueHolds ==
  ASSUME NEW S, NEW key, NEW name, Keyed(S, key), NEW s \in S
  PROVE  /\ Rank(S, key, s) \in DOMAIN Queue(S, key, name)
         /\ Queue(S, key, name)[Rank(S, key, s)] = name[s]
         /\ Queue(S, key, name) # <<>>
<1>1. Rank(S, key, s) \in 1 .. Cardinality(S)
  BY UpToIsFinite
<1>2. DOMAIN Queue(S, key, name) = 1 .. Cardinality(S)
  BY DEF Queue
<1>3. Queue(S, key, name)[Rank(S, key, s)] = name[s]
  BY <1>1, PlaceOfRank DEF Queue
<1>4. Queue(S, key, name) # <<>>
  <2>1. DOMAIN <<>> = {}
    OBVIOUS
  <2>. QED
    BY <1>1, <1>2, <2>1
<1>. QED
  BY <1>1, <1>2, <1>3, <1>4

Without(q, i) == SubSeq(q, 1, i - 1) \o SubSeq(q, i + 1, Len(q))

(* What leaves the set leaves the queue, from the place it has.            *)
LEMMA QueueLoses ==
  ASSUME NEW S, NEW key, NEW name, Keyed(S, key), NEW s \in S, NEW T,
         \A t : t \in T <=> t \in S /\ t # s,
         NEW key2, NEW name2, \A t \in T : key2[t] = key[t] /\ name2[t] = name[t]
  PROVE  /\ Queue(T, key2, name2) = Without(Queue(S, key, name), Rank(S, key, s))
         /\ Rank(S, key, s) = 1 =>
              Queue(T, key2, name2) = Tail(Queue(S, key, name))
<1>. DEFINE q == Queue(S, key, name)
            q2 == Queue(T, key2, name2)
            n == Cardinality(S)
            r == Rank(S, key, s)
            P == {name[t] : t \in S}
<1>. T = S \ {s}
  OBVIOUS
<1>0. \A t \in S : name[t] \in P
  OBVIOUS
<1>. HIDE DEF P
<1>1. q \in Seq(P) /\ Len(q) = n /\ n \in Nat /\ r \in 1 .. n
  BY <1>0, QueueIsSequence, UpToIsFinite
<1>2. Keyed(T, key2) /\ Cardinality(T) = n - 1
  BY OrderRemoved
<1>3. q2 \in Seq(P) /\ Len(q2) = n - 1
  <2>1. \A t \in T : name2[t] \in P
    BY <1>0
  <2>. QED
    BY <1>2, <2>1, QueueIsSequence
<1>4. ASSUME NEW i \in 1 .. n - 1 PROVE q2[i] = IF i < r THEN q[i] ELSE q[i + 1]
  <2>1. q2[i] = name2[InOrder(T, key2)[i]]
    BY <1>2 DEF Queue
  <2>2. InOrder(T, key2)[i] \in T
    BY <1>2, PlaceOfRank
  <2>3. q2[i] = name[InOrder(T, key2)[i]]
    BY <2>1, <2>2
  <2>4. InOrder(T, key2)[i] =
          IF i < r THEN InOrder(S, key)[i] ELSE InOrder(S, key)[i + 1]
    BY OrderRemoved
  <2>5. i \in 1 .. n /\ i + 1 \in 1 .. n
    BY <1>1
  <2>. QED
    BY <2>3, <2>4, <2>5 DEF Queue
<1>. HIDE DEF q, q2, r, n
<1>5. q2 = Without(q, r)
  <2>. DEFINE a == SubSeq(q, 1, r - 1)
              b == SubSeq(q, r + 1, Len(q))
  <2>1. /\ a \in Seq(P) /\ Len(a) = r - 1
        /\ \A i \in 1 .. r - 1 : a[i] = q[i]
    BY <1>1
  <2>2. /\ b \in Seq(P) /\ Len(b) = n - r
        /\ \A i \in 1 .. n - r : b[i] = q[r + i]
    BY <1>1
  <2>. HIDE DEF a, b
  <2>3. a \o b \in Seq(P) /\ Len(a \o b) = n - 1
    <3>1. a \o b \in Seq(P) /\ Len(a \o b) = (r - 1) + (n - r)
      BY <2>1, <2>2
    <3>. QED
      BY <1>1, <3>1
  <2>4. ASSUME NEW i \in 1 .. n - 1 PROVE (a \o b)[i] = q2[i]
    <3>1. CASE i < r
      BY <1>1, <1>4, <2>1, <2>2, <3>1
    <3>2. CASE ~(i < r)
      <4>1. i - (r - 1) \in 1 .. n - r
        BY <1>1, <3>2
      <4>2. (a \o b)[i] = b[i - (r - 1)]
        BY <1>1, <2>1, <2>2, <3>2
      <4>. QED
        BY <1>1, <1>4, <2>2, <3>2, <4>1, <4>2
    <3>. QED
      BY <3>1, <3>2
  <2>. QED
    BY <1>3, <2>3, <2>4, SameSequence DEF Without, a, b
<1>6. r = 1 => q2 = Tail(q)
  <2>. SUFFICES ASSUME r = 1 PROVE q2 = Tail(q)
    OBVIOUS
  <2>1. Tail(q) \in Seq(P) /\ Len(Tail(q)) = n - 1
    BY <1>1
  <2>2. \A i \in 1 .. n - 1 : Tail(q)[i] = q2[i]
    BY <1>1, <1>4
  <2>. QED
    BY <1>3, <2>1, <2>2, SameSequence
<1>. QED
  BY <1>5, <1>6 DEF q, q2, r

(* Without its first slot a queue is its tail.                             *)
LEMMA QueueLosesHead ==
  ASSUME NEW S, NEW key, NEW name, Keyed(S, key), NEW s \in S, Rank(S, key, s) = 1, NEW T,
         \A t : t \in T <=> t \in S /\ t # s,
         NEW key2, NEW name2, \A t \in T : key2[t] = key[t] /\ name2[t] = name[t]
  PROVE  Queue(T, key2, name2) = Tail(Queue(S, key, name))
BY QueueLoses

(* What joins the set with the greatest key joins the end of the queue.    *)
LEMMA QueueGains ==
  ASSUME NEW S, NEW key, NEW name, Keyed(S, key),
         NEW s, s \notin S, NEW T, T = S \cup {s}, NEW key2, NEW name2, key2[s] \in Nat,
         \A t \in S : key2[t] = key[t] /\ key[t] < key2[s] /\ name2[t] = name[t]
  PROVE  Queue(T, key2, name2) = Append(Queue(S, key, name), name2[s])
<1>. DEFINE q == Queue(S, key, name)
            q2 == Queue(T, key2, name2)
            n == Cardinality(S)
            P == {name2[t] : t \in T}
<1>0. /\ \A t \in T : name2[t] \in P
      /\ \A t \in S : name[t] \in P
  OBVIOUS
<1>. HIDE DEF P
<1>1. q \in Seq(P) /\ Len(q) = n /\ n \in Nat
  BY <1>0, QueueIsSequence
<1>2. Keyed(T, key2) /\ Cardinality(T) = n + 1
  BY OrderAdded
<1>3. q2 \in Seq(P) /\ Len(q2) = n + 1
  BY <1>0, <1>2, QueueIsSequence
<1>4. ASSUME NEW i \in 1 .. n + 1 PROVE q2[i] = IF i <= n THEN q[i] ELSE name2[s]
  <2>1. q2[i] = name2[InOrder(T, key2)[i]]
    BY <1>2 DEF Queue
  <2>2. InOrder(T, key2)[i] = IF i <= n THEN InOrder(S, key)[i] ELSE s
    BY OrderAdded
  <2>3. i <= n => InOrder(S, key)[i] \in S /\ i \in 1 .. n
    BY <1>1, PlaceOfRank
  <2>. QED
    BY <2>1, <2>2, <2>3 DEF Queue
<1>. HIDE DEF q, q2, n
<1>5. Append(q, name2[s]) \in Seq(P) /\ Len(Append(q, name2[s])) = n + 1
  BY <1>0, <1>1
<1>6. \A i \in 1 .. n + 1 : Append(q, name2[s])[i] = q2[i]
  BY <1>1, <1>4
<1>. QED
  BY <1>3, <1>5, <1>6, SameSequence DEF q, q2

(* Nothing changes in the queue of a set nobody joins or leaves.           *)
LEMMA QueueStays ==
  ASSUME NEW S, NEW key, NEW name, Keyed(S, key), NEW key2, NEW name2,
         \A t \in S : key2[t] = key[t] /\ name2[t] = name[t]
  PROVE  Queue(S, key2, name2) = Queue(S, key, name)
<1>1. Keyed(S, key2)
  BY DEF Keyed
<1>2. ASSUME NEW i \in 1 .. Cardinality(S)
      PROVE  name2[InOrder(S, key2)[i]] = name[InOrder(S, key)[i]]
  <2>1. InOrder(S, key)[i] \in S /\ Rank(S, key, InOrder(S, key)[i]) = i
    BY PlaceOfRank
  <2>2. \A s \in S : UpTo(S, key2, s) = UpTo(S, key, s)
    BY DEF UpTo
  <2>3. Rank(S, key2, InOrder(S, key)[i]) = i
    BY <2>1, <2>2 DEF Rank
  <2>4. InOrder(S, key2)[i] = InOrder(S, key)[i]
    BY <1>1, <2>1, <2>3, PlaceOfRank
  <2>. QED
    BY <2>1, <2>4
<1>. QED
  BY <1>2 DEF Queue

-----------------------------------------------------------------------------
(* The promise *)

(* No two modules were released at the same time, and none in the future.  *)
ReleasesDiffer ==
  \A s, t \in Slots :
    /\ state[s] = "WARM" => warmSeq[s] <= warmClock
    /\ state[s] = "WARM" /\ state[t] = "WARM" /\ warmSeq[s] = warmSeq[t] => s = t

(* Who holds a handle asked for its file, by the name it has in the cache  *)
(* or by the one it was opened under.                                      *)
HandlesAreWanted ==
  \A c \in Clients :
    /\ hold[c] = NoSlot <=> want[c] = NoPath
    /\ hold[c] # NoSlot => want[c] \in {path[hold[c]], file[hold[c]]}

(* A file whose name is stored whole is in one slot.                       *)
WholeNamesOnce ==
  \A s, t \in Slots :
    /\ state[s] # "UNUSED" /\ path[s] = file[s]
    /\ state[t] # "UNUSED" /\ path[t] = file[t]
    /\ path[s] = path[t]
    => s = t

RInv == IInv /\ ReleasesDiffer /\ HandlesAreWanted /\ WholeNamesOnce

(* An empty cache satisfies the invariant.                                 *)
LEMMA InitRInv == Init => RInv
BY InitIInv, SlotsFacts DEF Init, RInv, ReleasesDiffer, HandlesAreWanted, WholeNamesOnce

(* A slot that is held is ACTIVE.                                          *)
LEMMA HeldIsActive ==
  ASSUME IInv, NEW c \in Clients, hold[c] # NoSlot
  PROVE  hold[c] \in Slots /\ state[hold[c]] = "ACTIVE"
BY DEF IInv, TypeOK, RefcountsMatchHolders, Holders

(* Every step keeps release times apart: a release takes a new one.        *)
LEMMA StepReleases ==
  ASSUME IInv, ReleasesDiffer, [Next]_vars
  PROVE  ReleasesDiffer'
<1>. USE SlotsFacts DEF IInv, TypeOK
<1>1. ASSUME NEW s \in Slots, NEW x \in {"ACTIVE", "UNUSED"}, state' = [state EXCEPT ![s] = x],
             warmSeq' = [warmSeq EXCEPT ![s] = 0], warmClock' = warmClock
      PROVE  ReleasesDiffer'
  BY <1>1 DEF ReleasesDiffer
<1>2. ASSUME UNCHANGED <<state, warmSeq, warmClock>> PROVE ReleasesDiffer'
  BY <1>2 DEF ReleasesDiffer
<1>3. ASSUME NEW c \in Clients, NEW p \in Paths, AcquireActive(c, p) \/ AcquireFull(c, p)
      PROVE  ReleasesDiffer'
  BY <1>2, <1>3 DEF AcquireActive, AcquireFull, entryVars
<1>4. ASSUME NEW c \in Clients, NEW p \in Paths,
             AcquireWarm(c, p) \/ AcquireLoad(c, p) \/ AcquireFails(c, p)
      PROVE  ReleasesDiffer'
  BY <1>1, <1>4 DEF AcquireWarm, AcquireLoad, AcquireFails
<1>5. ASSUME NEW c \in Clients, Release(c) PROVE ReleasesDiffer'
  <2>1. PICK s \in Slots :
          IF refcnt[s] = 1
          THEN /\ state' = [state EXCEPT ![s] = "WARM"]
               /\ warmSeq' = [warmSeq EXCEPT ![s] = warmClock + 1]
               /\ warmClock' = warmClock + 1
          ELSE UNCHANGED <<state, warmSeq, warmClock>>
    BY <1>5 DEF Release
  <2>2. CASE refcnt[s] # 1
    BY <1>2, <2>1, <2>2
  <2>3. CASE refcnt[s] = 1
    <3>1. \A t \in Slots : /\ state'[t] = IF t = s THEN "WARM" ELSE state[t]
                           /\ warmSeq'[t] = IF t = s THEN warmClock + 1 ELSE warmSeq[t]
      BY <2>1, <2>3
    <3>2. warmClock' = warmClock + 1 /\ warmClock \in Nat
      BY <2>1, <2>3
    <3>3. \A t \in Slots : state[t] = "WARM" => warmSeq[t] <= warmClock /\ warmSeq[t] \in Nat
      BY DEF ReleasesDiffer
    <3>. QED
      BY <3>1, <3>2, <3>3 DEF ReleasesDiffer
  <2>. QED
    BY <2>2, <2>3
<1>6. ASSUME NEW s \in Slots, ReleaseAgain(s) PROVE ReleasesDiffer'
  BY <1>2, <1>6 DEF ReleaseAgain, entryVars
<1>7. CASE Flush
  BY <1>7 DEF Flush, ReleasesDiffer
<1>8. CASE UNCHANGED vars
  BY <1>2, <1>8 DEF vars, entryVars
<1>. QED
  BY <1>3, <1>4, <1>5, <1>6, <1>7, <1>8 DEF Next

(* Every step keeps handles and names: a hit is by name, a miss by no name.*)
LEMMA StepWants ==
  ASSUME IInv, HandlesAreWanted, WholeNamesOnce, [Next]_vars
  PROVE  HandlesAreWanted' /\ WholeNamesOnce'
<1>. USE SlotsFacts, NullAssumption DEF IInv, TypeOK
<1>. DEFINE Goal == HandlesAreWanted' /\ WholeNamesOnce'
<1>1. ASSUME NEW c \in Clients, NEW p \in Paths, NEW s \in Slots, hold[c] = NoSlot,
             Finds(p, s), Pins(c, s, p), UNCHANGED <<path, file>>,
             state' = [state EXCEPT ![s] = "ACTIVE"]
      PROVE  Goal
  <2>1. HandlesAreWanted'
    BY <1>1 DEF HandlesAreWanted, Pins, Finds
  <2>2. WholeNamesOnce'
    BY <1>1 DEF WholeNamesOnce, Finds
  <2>. QED
    BY <2>1, <2>2
<1>2. ASSUME NEW c \in Clients, NEW p \in Paths, AcquireActive(c, p)
      PROVE  Goal
  <2>1. PICK s \in Slots : hold[c] = NoSlot /\ Finds(p, s) /\ state[s] = "ACTIVE"
                           /\ Pins(c, s, p) /\ UNCHANGED <<state, path, file>>
    BY <1>2 DEF AcquireActive
  <2>2. state' = [state EXCEPT ![s] = "ACTIVE"]
    BY <2>1
  <2>. QED
    BY <1>1, <2>1, <2>2
<1>3. ASSUME NEW c \in Clients, NEW p \in Paths, AcquireWarm(c, p)
      PROVE  Goal
  BY <1>1, <1>3 DEF AcquireWarm
(* The slot that is chosen is nobody's.                                    *)
<1>4. ASSUME NEW s \in Slots, Allocates(s), NEW c \in Clients, hold[c] # NoSlot
      PROVE  hold[c] # s
  BY <1>4, AllocatedIsIdle, HeldIsActive
<1>5. ASSUME NEW c \in Clients, NEW p \in Paths, AcquireLoad(c, p)
      PROVE  Goal
  <2>1. PICK s \in Slots :
          /\ hold[c] = NoSlot /\ Missing(p) /\ Allocates(s)
          /\ state' = [state EXCEPT ![s] = "ACTIVE"]
          /\ path' = [path EXCEPT ![s] = Stored[p]]
          /\ file' = [file EXCEPT ![s] = p]
          /\ Pins(c, s, p)
    BY <1>5 DEF AcquireLoad
  <2>2. HandlesAreWanted'
    BY <1>4, <2>1 DEF HandlesAreWanted, Pins
  <2>3. WholeNamesOnce'
    <3>1. \A t \in Slots : /\ state'[t] = IF t = s THEN "ACTIVE" ELSE state[t]
                           /\ path'[t] = IF t = s THEN Stored[p] ELSE path[t]
                           /\ file'[t] = IF t = s THEN p ELSE file[t]
      BY <2>1
    <3>. QED
      BY <2>1, <3>1 DEF WholeNamesOnce, Missing
  <2>. QED
    BY <2>2, <2>3
<1>6. ASSUME NEW c \in Clients, NEW p \in Paths, AcquireFails(c, p)
      PROVE  Goal
  <2>1. PICK s \in Slots :
          /\ Allocates(s)
          /\ state' = [state EXCEPT ![s] = "UNUSED"]
          /\ path' = [path EXCEPT ![s] = NoPath]
          /\ file' = [file EXCEPT ![s] = NoPath]
          /\ UNCHANGED <<hold, want>>
    BY <1>6 DEF AcquireFails, clientVars
  <2>2. HandlesAreWanted'
    BY <1>4, <2>1 DEF HandlesAreWanted
  <2>3. WholeNamesOnce'
    BY <2>1 DEF WholeNamesOnce
  <2>. QED
    BY <2>2, <2>3
<1>7. ASSUME NEW c \in Clients, Release(c)
      PROVE  Goal
  <2>1. PICK s \in Slots :
          /\ hold' = [hold EXCEPT ![c] = NoSlot]
          /\ want' = [want EXCEPT ![c] = NoPath]
          /\ UNCHANGED <<path, file>>
          /\ state[s] # "UNUSED"
          /\ state' = state \/ state' = [state EXCEPT ![s] = "WARM"]
    BY <1>7 DEF Release
  <2>2. HandlesAreWanted'
    BY <2>1 DEF HandlesAreWanted
  <2>3. WholeNamesOnce'
    BY <2>1 DEF WholeNamesOnce
  <2>. QED
    BY <2>2, <2>3
<1>8. CASE Flush
  BY <1>8 DEF Flush, clientVars, HandlesAreWanted, WholeNamesOnce
<1>9. CASE UNCHANGED <<hold, want, state, path, file>>
  BY <1>9 DEF HandlesAreWanted, WholeNamesOnce
<1>10. ASSUME NEW c \in Clients, NEW p \in Paths, AcquireFull(c, p)
       PROVE  Goal
  BY <1>9, <1>10 DEF AcquireFull, entryVars, clientVars
<1>11. ASSUME NEW s \in Slots, ReleaseAgain(s)
       PROVE  Goal
  BY <1>9, <1>11 DEF ReleaseAgain, entryVars, clientVars
<1>12. CASE UNCHANGED vars
  BY <1>9, <1>12 DEF vars, entryVars, clientVars
<1>. QED
  BY <1>2, <1>3, <1>5, <1>6, <1>7, <1>8, <1>10, <1>11, <1>12 DEF Next

(* Every step keeps the invariant.                                         *)
LEMMA StepRInv == RInv /\ [Next]_vars => RInv'
BY StepIInv, StepReleases, StepWants DEF RInv

-----------------------------------------------------------------------------
(* What the state of the promise is *)

(* The warm slots make a queue.                                            *)
LEMMA WarmSlotsAreKeyed ==
  ASSUME RInv
  PROVE  /\ Keyed(WarmSlots, warmSeq)
         /\ WarmQueue = Queue(WarmSlots, warmSeq, path)
<1>1. IsFiniteSet(Slots)
  BY FS_Interval, CapacityAssumption DEF Slots
<1>2. IsFiniteSet(WarmSlots)
  BY <1>1, FS_Subset DEF WarmSlots
<1>. QED
  BY <1>2 DEF Keyed, WarmSlots, RInv, IInv, TypeOK, ReleasesDiffer, WarmQueue, Queue

(* The promise counts like the cache.                                      *)
LEMMA SameCount == \A S : Promise!Cardinality(S) = Cardinality(S)
BY DEF Promise!Cardinality, Cardinality

(* Loaded in the promise's terms is being stored in a slot, used and warm  *)
(* being stored in one that is ACTIVE or WARM; there is room while a slot  *)
(* is unused.                                                              *)
LEMMA WhatIsLoaded ==
  ASSUME RInv, NamesWhole
  PROVE  /\ \A c \in Clients : hold[c] # NoSlot => want[c] = path[hold[c]]
         /\ \A s, t \in Slots : state[s] # "UNUSED" /\ state[t] # "UNUSED"
                                /\ path[s] = path[t] => s = t
         /\ \A p : p \in Promise!Used <=> \E s \in Slots : state[s] = "ACTIVE" /\ path[s] = p
         /\ \A p : p \in Promise!Loaded <=> \E s \in Slots : state[s] # "UNUSED" /\ path[s] = p
         /\ WarmQueue = <<>> <=> \A s \in Slots : state[s] # "WARM"
         /\ Promise!HasRoom <=> \E s \in Slots : state[s] = "UNUSED"
<1>. USE SlotsFacts, NullAssumption
<1>1. ASSUME NEW c \in Clients, hold[c] # NoSlot PROVE want[c] = path[hold[c]]
  BY <1>1, HeldIsActive DEF RInv, HandlesAreWanted, NamesWhole
<1>2. ASSUME NEW s \in Slots, NEW t \in Slots, state[s] # "UNUSED", state[t] # "UNUSED",
             path[s] = path[t]
      PROVE  s = t
  BY <1>2 DEF RInv, WholeNamesOnce, NamesWhole
<1>3. ASSUME NEW s \in Slots, state[s] # "UNUSED" PROVE path[s] \in Paths
  BY <1>3, StoredAssumption DEF RInv, IInv, SlotsAreNamed
<1>4. ASSUME NEW p
      PROVE  p \in Promise!Used <=> \E s \in Slots : state[s] = "ACTIVE" /\ path[s] = p
  <2>1. ASSUME p \in Promise!Used
        PROVE  \E s \in Slots : state[s] = "ACTIVE" /\ path[s] = p
    <3>1. PICK c \in Clients : want[c] = p /\ p # NoPath
      BY <2>1 DEF Promise!Used
    <3>2. hold[c] # NoSlot
      BY <3>1 DEF RInv, HandlesAreWanted
    <3>. QED
      BY <1>1, <3>1, <3>2, HeldIsActive DEF RInv
  <2>2. ASSUME NEW s \in Slots, state[s] = "ACTIVE", path[s] = p
        PROVE  p \in Promise!Used
    <3>1. PICK c \in Clients : hold[c] = s
      BY <2>2 DEF RInv, IInv, RefcountsMatchHolders, Holders
    <3>2. want[c] = p /\ p \in Paths
      BY <1>1, <1>3, <2>2, <3>1
    <3>. QED
      BY <3>1, <3>2 DEF Promise!Used
  <2>. QED
    BY <2>1, <2>2
<1>5. ASSUME NEW p
      PROVE  p \in Promise!Range(WarmQueue) <=> \E s \in Slots : state[s] = "WARM" /\ path[s] = p
  <2>. DEFINE n == Cardinality(WarmSlots)
  <2>1. Keyed(WarmSlots, warmSeq) /\ WarmQueue = Queue(WarmSlots, warmSeq, path)
    BY WarmSlotsAreKeyed
  <2>2. p \in Promise!Range(WarmQueue) <=>
          \E i \in 1 .. n : path[InOrder(WarmSlots, warmSeq)[i]] = p
    BY DEF Promise!Range, WarmQueue
  <2>3. /\ \A i \in 1 .. n : InOrder(WarmSlots, warmSeq)[i] \in WarmSlots
        /\ \A s \in WarmSlots :
             /\ Rank(WarmSlots, warmSeq, s) \in 1 .. n
             /\ InOrder(WarmSlots, warmSeq)[Rank(WarmSlots, warmSeq, s)] = s
    BY <2>1, PlaceOfRank, UpToIsFinite
  <2>4. (\E i \in 1 .. n : path[InOrder(WarmSlots, warmSeq)[i]] = p)
          <=> \E s \in WarmSlots : path[s] = p
    BY <2>3, Zenon
  <2>. QED
    BY <2>2, <2>4 DEF WarmSlots
<1>6. ASSUME NEW p
      PROVE  p \in Promise!Loaded <=> \E s \in Slots : state[s] # "UNUSED" /\ path[s] = p
  BY <1>4, <1>5 DEF Promise!Loaded, RInv, IInv, TypeOK
<1>7. WarmQueue = <<>> <=> \A s \in Slots : state[s] # "WARM"
  <2>1. Cardinality(WarmSlots) = 0 <=> WarmSlots = {}
    BY WarmSlotsAreKeyed, FS_EmptySet DEF Keyed
  <2>2. Len(WarmQueue) = Cardinality(WarmSlots) /\ WarmQueue \in Seq({path[s] : s \in WarmSlots})
    <3>. DEFINE P == {path[s] : s \in WarmSlots}
    <3>1. \A s \in WarmSlots : path[s] \in P
      OBVIOUS
    <3>. HIDE DEF P
    <3>2. Len(WarmQueue) = Cardinality(WarmSlots) /\ WarmQueue \in Seq(P)
      BY <3>1, WarmSlotsAreKeyed, QueueIsSequence
    <3>. QED
      BY <3>2 DEF P
  <2>3. WarmQueue = <<>> <=> Len(WarmQueue) = 0
    BY <2>2
  <2>. QED
    BY <2>1, <2>2, <2>3 DEF WarmSlots
<1>8. Promise!HasRoom <=> \E s \in Slots : state[s] = "UNUSED"
  <2>. DEFINE InUse == {s \in Slots : state[s] # "UNUSED"}
              f == [s \in InUse |-> path[s]]
  <2>1. IsFiniteSet(Slots) /\ Cardinality(Slots) = Capacity
    BY FS_Interval, CapacityAssumption DEF Slots
  <2>2. /\ IsFiniteSet(InUse) /\ Cardinality(InUse) <= Capacity
        /\ Cardinality(InUse) = Capacity => InUse = Slots
    BY <2>1, FS_Subset
  <2>3. f \in [InUse -> Promise!Loaded]
    BY <1>6
  <2>4. f \in Surjection(InUse, Promise!Loaded)
    BY <1>6, <2>3 DEF Surjection
  <2>5. f \in Injection(InUse, Promise!Loaded)
    BY <1>2, <2>3 DEF Injection, IsInjective
  <2>6. Cardinality(Promise!Loaded) = Cardinality(InUse)
    BY <2>2, <2>4, <2>5, FS_Surjection
  <2>7. Cardinality(InUse) \in Nat
    BY <2>2, FS_CardinalityType
  <2>8. Cardinality(InUse) < Capacity <=> InUse # Slots
    BY <2>1, <2>2, <2>7, CapacityAssumption
  <2>9. Promise!HasRoom <=> Cardinality(Promise!Loaded) < Capacity
    BY SameCount DEF Promise!HasRoom
  <2>. QED
    BY <2>6, <2>8, <2>9
<1>. QED
  BY <1>1, <1>2, <1>4, <1>6, <1>7, <1>8

(* Each call keeps its promise.                                            *)

(* A hit uses a module that is loaded.                                     *)
LEMMA HitKeepsPromise ==
  ASSUME RInv, NamesWhole, NEW c \in Clients, NEW p \in Paths,
         AcquireActive(c, p) \/ AcquireWarm(c, p)
  PROVE  Promise!UseLoaded(c, p)
<1>1. PICK s \in Slots :
        /\ hold[c] = NoSlot /\ Finds(p, s) /\ Pins(c, s, p) /\ path' = path
        /\ \/ state[s] = "ACTIVE" /\ UNCHANGED <<state, warmSeq>>
           \/ /\ state[s] = "WARM" /\ state' = [state EXCEPT ![s] = "ACTIVE"]
              /\ warmSeq' = [warmSeq EXCEPT ![s] = 0]
  BY DEF AcquireActive, AcquireWarm, entryVars
<1>2. want[c] = NoPath /\ path[s] = p
  BY <1>1 DEF RInv, HandlesAreWanted, Finds
<1>3. want' = [want EXCEPT ![c] = p] /\ status' = "OK"
  BY <1>1 DEF Pins
<1>4. /\ Keyed(WarmSlots, warmSeq) /\ WarmQueue = Queue(WarmSlots, warmSeq, path)
  BY WarmSlotsAreKeyed
<1>5. WarmQueue' = Queue(WarmSlots', warmSeq', path')
  BY DEF WarmQueue, Queue
<1>6. CASE state[s] = "ACTIVE"
  <2>1. p \in Promise!Used
    BY <1>2, <1>6, WhatIsLoaded
  <2>2. WarmQueue' = WarmQueue
    BY <1>1, <1>6 DEF WarmQueue, WarmSlots
  <2>. QED
    BY <1>2, <1>3, <2>1, <2>2 DEF Promise!UseLoaded
<1>7. CASE state[s] = "WARM"
  <2>1. s \in WarmSlots /\ WarmSlots' = WarmSlots \ {s}
    BY <1>1, <1>7 DEF WarmSlots, RInv, IInv, TypeOK
  <2>2. \A t \in WarmSlots' : warmSeq'[t] = warmSeq[t] /\ path'[t] = path[t]
    BY <1>1, <1>7 DEF WarmSlots, RInv, IInv, TypeOK
  <2>. DEFINE r == Rank(WarmSlots, warmSeq, s)
  <2>3. /\ r \in DOMAIN WarmQueue /\ WarmQueue[r] = p
        /\ WarmQueue' = Promise!RemoveAt(WarmQueue, r)
    <3>1. Queue(WarmSlots', warmSeq', path') =
            Without(Queue(WarmSlots, warmSeq, path), r)
      <4>1. \A t : t \in WarmSlots' <=> t \in WarmSlots /\ t # s
        BY <2>1
      <4>. QED
        BY <1>4, <2>1, <2>2, <4>1, QueueLoses
    <3>2. /\ r \in DOMAIN Queue(WarmSlots, warmSeq, path)
          /\ Queue(WarmSlots, warmSeq, path)[r] = path[s]
      BY <1>4, <2>1, QueueHolds
    <3>3. Without(WarmQueue, r) = Promise!RemoveAt(WarmQueue, r)
      BY DEF Without, Promise!RemoveAt
    <3>. QED
      BY <1>2, <1>4, <1>5, <3>1, <3>2, <3>3
  <2>. QED
    BY <1>2, <1>3, <2>3 DEF Promise!UseLoaded
<1>. QED
  BY <1>1, <1>6, <1>7

(* If the slot released first stops being warm, the queue loses its head.  *)
LEMMA HeadGoes ==
  ASSUME NEW s \in WarmSlots, Rank(WarmSlots, warmSeq, s) = 1, Keyed(WarmSlots, warmSeq),
         \A t : t \in WarmSlots' <=> t \in WarmSlots /\ t # s,
         \A t \in WarmSlots' : warmSeq'[t] = warmSeq[t] /\ path'[t] = path[t]
  PROVE  Queue(WarmSlots', warmSeq', path') = Tail(Queue(WarmSlots, warmSeq, path))
BY QueueLosesHead

(* The slot that is chosen is an unused one, or the head of the queue.     *)
LEMMA QueueMakesRoom ==
  ASSUME RInv, NamesWhole, NEW s \in Slots, Allocates(s),
         \A t : t \in WarmSlots' <=> t \in WarmSlots /\ t # s,
         \A t \in WarmSlots' : warmSeq'[t] = warmSeq[t] /\ path'[t] = path[t]
  PROVE  Promise!MakesRoom
<1>1. /\ Keyed(WarmSlots, warmSeq) /\ WarmQueue = Queue(WarmSlots, warmSeq, path)
  BY WarmSlotsAreKeyed
<1>2. WarmQueue' = Queue(WarmSlots', warmSeq', path')
  BY DEF WarmQueue, Queue
<1>3. CASE state[s] = "UNUSED"
  <2>1. Promise!HasRoom
    BY <1>3, WhatIsLoaded
  <2>2. WarmSlots' = WarmSlots /\ s \notin WarmSlots
    BY <1>3 DEF WarmSlots
  <2>3. WarmQueue' = WarmQueue
    <3>1. \A t \in WarmSlots : warmSeq'[t] = warmSeq[t] /\ path'[t] = path[t]
      BY <2>2
    <3>2. Queue(WarmSlots, warmSeq', path') = Queue(WarmSlots, warmSeq, path)
      BY <1>1, <3>1, QueueStays
    <3>. QED
      BY <1>1, <1>2, <2>2, <3>2
  <2>. QED
    BY <2>1, <2>3 DEF Promise!MakesRoom
<1>4. CASE state[s] # "UNUSED"
  <2>1. (\A t \in Slots : state[t] # "UNUSED") /\ OldestWarm(s)
    BY <1>4 DEF Allocates
  <2>2. ~Promise!HasRoom
    BY <2>1, WhatIsLoaded
  <2>3. s \in WarmSlots
    BY <2>1 DEF OldestWarm, WarmSlots
  <2>4. UpTo(WarmSlots, warmSeq, s) = {s}
    <3>1. \A t \in WarmSlots : warmSeq[t] <= warmSeq[s] => t = s
      BY <2>1, <2>3 DEF OldestWarm, WarmSlots, ReleasesDiffer, RInv, IInv, TypeOK
    <3>2. warmSeq[s] <= warmSeq[s]
      BY <1>1, <2>3 DEF Keyed
    <3>. QED
      BY <2>3, <3>1, <3>2 DEF UpTo
  <2>5. Rank(WarmSlots, warmSeq, s) = 1
    BY <2>4, FS_Singleton DEF Rank
  <2>6. WarmQueue # <<>> /\ WarmQueue' = Tail(WarmQueue)
    <3>1. Queue(WarmSlots', warmSeq', path') = Tail(Queue(WarmSlots, warmSeq, path))
      BY <1>1, <2>3, <2>5, HeadGoes
    <3>2. Queue(WarmSlots, warmSeq, path) # <<>>
      BY <1>1, <2>3, QueueHolds
    <3>. QED
      BY <1>1, <1>2, <3>1, <3>2
  <2>. QED
    BY <2>2, <2>6 DEF Promise!MakesRoom
<1>. QED
  BY <1>3, <1>4

(* An eviction is of the queue's head.                                     *)
LEMMA RoomIsMade ==
  ASSUME RInv, NamesWhole, NEW s \in Slots, Allocates(s),
         NEW x \in {"ACTIVE", "UNUSED"}, NEW p,
         state' = [state EXCEPT ![s] = x], path' = [path EXCEPT ![s] = p],
         warmSeq' = [warmSeq EXCEPT ![s] = 0]
  PROVE  Promise!MakesRoom
<1>1. /\ \A t : t \in WarmSlots' <=> t \in WarmSlots /\ t # s
      /\ \A t \in WarmSlots' : warmSeq'[t] = warmSeq[t] /\ path'[t] = path[t]
  BY DEF WarmSlots, RInv, IInv, TypeOK
<1>. QED
  BY <1>1, QueueMakesRoom

(* A miss loads, fails to load, or is refused because all are in use.      *)
LEMMA MissKeepsPromise ==
  ASSUME RInv, NamesWhole, NEW c \in Clients, NEW p \in Paths,
         AcquireLoad(c, p) \/ AcquireFails(c, p) \/ AcquireFull(c, p)
  PROVE  Promise!Load(c, p) \/ Promise!FailToLoad(c, p) \/ Promise!Refuse(c, p)
<1>1. Missing(p) /\ hold[c] = NoSlot
  BY DEF AcquireLoad, AcquireFails, AcquireFull
<1>2. p \notin Promise!Loaded /\ want[c] = NoPath
  BY <1>1, WhatIsLoaded DEF Missing, RInv, HandlesAreWanted
<1>3. CASE AcquireLoad(c, p)
  <2>1. PICK s \in Slots :
          /\ Allocates(s) /\ state' = [state EXCEPT ![s] = "ACTIVE"]
          /\ path' = [path EXCEPT ![s] = Stored[p]]
          /\ warmSeq' = [warmSeq EXCEPT ![s] = 0]
          /\ Pins(c, s, p)
    BY <1>3 DEF AcquireLoad
  <2>2. Promise!MakesRoom
    BY <2>1, RoomIsMade
  <2>. QED
    BY <1>2, <2>1, <2>2 DEF Promise!Load, Pins
<1>4. CASE AcquireFails(c, p)
  <2>1. PICK s \in Slots :
          /\ Allocates(s) /\ state' = [state EXCEPT ![s] = "UNUSED"]
          /\ path' = [path EXCEPT ![s] = NoPath]
          /\ warmSeq' = [warmSeq EXCEPT ![s] = 0]
          /\ status' = "LOAD_ERROR" /\ want' = want
    BY <1>4 DEF AcquireFails, clientVars
  <2>2. Promise!MakesRoom
    BY <2>1, RoomIsMade
  <2>. QED
    BY <1>2, <2>1, <2>2 DEF Promise!FailToLoad
<1>5. CASE AcquireFull(c, p)
  <2>1. \A s \in Slots : state[s] = "ACTIVE"
    BY <1>5, IdleSlotAllocates DEF AcquireFull, RInv, IInv
  <2>2. ~Promise!HasRoom /\ WarmQueue = <<>>
    BY <2>1, WhatIsLoaded
  <2>3. status' = "CACHE_FULL" /\ want' = want /\ WarmQueue' = WarmQueue
    BY <1>5 DEF AcquireFull, entryVars, clientVars, WarmQueue, WarmSlots
  <2>. QED
    BY <1>2, <2>2, <2>3 DEF Promise!Refuse
<1>. QED
  BY <1>3, <1>4, <1>5

(* A release is the last one's or another's.                               *)
LEMMA ReleaseKeepsPromise ==
  ASSUME RInv, NamesWhole, NEW c \in Clients, Release(c)
  PROVE  Promise!Done(c)
<1>1. PICK s \in Slots :
        /\ hold[c] = s /\ want' = [want EXCEPT ![c] = NoPath]
        /\ path' = path /\ status' = "OK"
        /\ IF refcnt[s] = 1
           THEN /\ state' = [state EXCEPT ![s] = "WARM"]
                /\ warmSeq' = [warmSeq EXCEPT ![s] = warmClock + 1]
           ELSE UNCHANGED <<state, warmSeq>>
  BY DEF Release
<1>2. hold[c] # NoSlot /\ state[s] = "ACTIVE" /\ want[c] = path[s]
  BY <1>1, SlotsFacts, HeldIsActive, WhatIsLoaded DEF RInv
<1>3. want[c] # NoPath
  BY <1>2, SlotsFacts DEF HandlesAreWanted, RInv, IInv, TypeOK
<1>4. ASSUME NEW d \in Clients PROVE want[d] = want[c] <=> d \in Holders(s)
  <2>1. ASSUME want[d] = want[c] PROVE hold[d] = s
    <3>1. hold[d] # NoSlot
      BY <1>3, <2>1 DEF RInv, HandlesAreWanted
    <3>2. hold[d] \in Slots /\ state[hold[d]] = "ACTIVE" /\ want[d] = path[hold[d]]
      BY <3>1, HeldIsActive, WhatIsLoaded DEF RInv
    <3>. QED
      BY <1>2, <2>1, <3>2, WhatIsLoaded
  <2>2. ASSUME hold[d] = s PROVE want[d] = want[c]
    BY <1>1, <1>2, <2>2, WhatIsLoaded
  <2>. QED
    BY <2>1, <2>2 DEF Holders
<1>5. IsFiniteSet(Holders(s)) /\ Cardinality(Holders(s)) = refcnt[s] /\ c \in Holders(s)
  BY <1>1, HoldersFinite DEF RInv, IInv, RefcountsMatchHolders, Holders
<1>6. refcnt[s] = 1 <=> ~\E d \in Clients \ {c} : want[d] = want[c]
  <2>1. refcnt[s] = 1 <=> \E x : Holders(s) = {x}
    BY <1>5, FS_Singleton
  <2>2. (\E x : Holders(s) = {x}) <=> Holders(s) = {c}
    BY <1>5
  <2>3. Holders(s) = {c} <=> ~\E d \in Clients \ {c} : d \in Holders(s)
    BY <1>5 DEF Holders
  <2>. QED
    BY <1>4, <2>1, <2>2, <2>3
<1>7. WarmQueue' = IF refcnt[s] = 1 THEN Append(WarmQueue, want[c]) ELSE WarmQueue
  <2>1. CASE refcnt[s] # 1
    BY <1>1, <2>1 DEF WarmQueue, WarmSlots
  <2>2. CASE refcnt[s] = 1
    <3>1. /\ Keyed(WarmSlots, warmSeq) /\ WarmQueue = Queue(WarmSlots, warmSeq, path)
      BY WarmSlotsAreKeyed
    <3>2. WarmQueue' = Queue(WarmSlots', warmSeq', path')
      BY DEF WarmQueue, Queue
    <3>3. s \notin WarmSlots /\ WarmSlots' = WarmSlots \cup {s}
      BY <1>1, <1>2, <2>2 DEF WarmSlots, RInv, IInv, TypeOK
    <3>4. /\ warmSeq'[s] = warmClock + 1 /\ warmSeq'[s] \in Nat
          /\ path'[s] = want[c]
      BY <1>1, <1>2, <1>3, <2>2 DEF RInv, IInv, TypeOK
    <3>5. \A t \in WarmSlots : /\ warmSeq'[t] = warmSeq[t] /\ warmSeq[t] < warmSeq'[s]
                               /\ path'[t] = path[t]
      BY <1>1, <2>2, <3>3, <3>4 DEF WarmSlots, ReleasesDiffer, RInv, IInv, TypeOK
    <3>. QED
      <4>1. Queue(WarmSlots', warmSeq', path') =
              Append(Queue(WarmSlots, warmSeq, path), path'[s])
        BY <3>1, <3>3, <3>4, <3>5, QueueGains
      <4>. QED
        BY <2>2, <3>1, <3>2, <3>3, <3>4, <4>1
  <2>. QED
    BY <2>1, <2>2
<1>. QED
  BY <1>1, <1>3, <1>6, <1>7 DEF Promise!Done

(* Every step of the cache is one of the promise or none.                  *)
LEMMA StepKeepsPromise ==
  ASSUME RInv, NamesWhole, [Next]_vars
  PROVE  [Promise!Next]_(Promise!absVars)
<1>1. ASSUME NEW c \in Clients, NEW p \in Paths,
             AcquireActive(c, p) \/ AcquireWarm(c, p)
      PROVE  Promise!Next
  BY <1>1, HitKeepsPromise DEF Promise!Next
<1>2. ASSUME NEW c \in Clients, NEW p \in Paths,
             AcquireLoad(c, p) \/ AcquireFails(c, p) \/ AcquireFull(c, p)
      PROVE  Promise!Next
  BY <1>2, MissKeepsPromise DEF Promise!Next
<1>3. ASSUME NEW c \in Clients, Release(c) PROVE Promise!Next
  BY <1>3, ReleaseKeepsPromise DEF Promise!Next
<1>4. ASSUME NEW s \in Slots, ReleaseAgain(s) PROVE Promise!Next
  <2>1. status' = "INVALID_ARG" /\ want' = want /\ WarmQueue' = WarmQueue
    BY <1>4 DEF ReleaseAgain, entryVars, clientVars, WarmQueue, WarmSlots
  <2>. QED
    BY <2>1 DEF Promise!Next, Promise!DoneTwice
<1>5. CASE Flush
  <2>1. \A c \in Clients : want[c] = NoPath
    BY <1>5 DEF Flush, RInv, HandlesAreWanted
  <2>2. Promise!Used = {}
    BY <2>1 DEF Promise!Used
  <2>3. WarmSlots' = {}
    BY <1>5 DEF Flush, WarmSlots
  <2>4. WarmQueue' = <<>>
    BY <2>3, FS_EmptySet DEF WarmQueue
  <2>. QED
    BY <1>5, <2>2, <2>4 DEF Flush, clientVars, Promise!Next, Promise!Clear
<1>6. CASE UNCHANGED vars
  BY <1>6 DEF vars, entryVars, clientVars, WarmQueue, WarmSlots, Promise!absVars
<1>. QED
  BY <1>1, <1>2, <1>3, <1>4, <1>5, <1>6 DEF Next

(* As long as no over-long name is loaded, every call does what the        *)
(* promise allows: what is loaded, which module goes when there is no      *)
(* room, and what the caller is told, for every capacity and every         *)
(* sequence of calls (module_cache.c:38-63, 97-183).                       *)
THEOREM PromiseKept == Spec => ImplementsPromise
<1>1. Init => Promise!Init
  <2>. SUFFICES ASSUME Init PROVE Promise!Init
    OBVIOUS
  <2>1. WarmSlots = {}
    BY DEF Init, WarmSlots
  <2>2. WarmQueue = <<>>
    BY <2>1, FS_EmptySet DEF WarmQueue
  <2>. QED
    BY <2>2 DEF Init, Promise!Init
<1>2. RInv /\ [Next]_vars => [NamesWhole /\ NamesWhole' => [Promise!Next]_(Promise!absVars)]_vars
  BY StepKeepsPromise
<1>. QED
  BY <1>1, <1>2, InitRInv, StepRInv, PTL DEF Spec, ImplementsPromise

=============================================================================
