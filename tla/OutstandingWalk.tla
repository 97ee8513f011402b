---------------------------- MODULE OutstandingWalk ----------------------------
(***************************************************************************)
(* print_outstanding_allocs and print_outstanding_combined_allocs          *)
(* (examples/memleak_bcc_dwunw/memleak_dwunw_user.c): one walk over a BPF  *)
(* hash map that probes go on changing, an element at a time, with         *)
(* get_next_key and lookup as two system calls.  "each" walks allocs, a    *)
(* record for each address, and adds up by stack; "combined" walks         *)
(* combined_allocs, whose keys are the stacks and are never deleted.       *)
(*                                                                         *)
(* The kernel's hash map is its elements in the order of a walk: by        *)
(* bucket, the newest of a bucket first.  An update of a record of allocs  *)
(* is a new element, one of the statistics is made in place.               *)
(***************************************************************************)
EXTENDS Integers, Sequences, SequencesExt, FiniteSets

CONSTANTS
  Addresses,   \* keys of allocs; the probes never store address 0
  Stacks,      \* stack ids, the keys of combined_allocs
  Sizes,       \* sizes of blocks, and totals of stacks
  Hashes,      \* buckets the keys may be in
  MapSize,     \* max_entries of the map that is walked
  MinAge,      \* min_age_ns
  MaxTime,     \* bound on the time of the walk
  TimeRange,   \* 2^64, the range of the clock's arithmetic
  TopStacks,   \* top_stacks
  MaxChanges   \* bound on what the probes change during the walk

Keys == Addresses \cup Stacks

(* What bpf_get_stackid returns when the kernel cannot record the stack.   *)
NoStack == -1

ASSUME OutstandingWalkAssumption ==
  /\ Addresses \subseteq Nat \ {0}
  /\ Stacks \subseteq Nat /\ IsFiniteSet(Stacks)
  /\ Sizes \subseteq Nat
  /\ Hashes \subseteq [Keys -> Nat]
  /\ MapSize \in Nat /\ TopStacks \in Nat /\ MaxChanges \in Nat
  /\ MinAge \in Nat /\ MaxTime \in Nat /\ TimeRange \in Nat /\ MaxTime < TimeRange

VARIABLES
  kind, showAllocs,
  bucket,       \* the bucket of each key
  now,          \* get_ktime_ns()
  map,          \* the elements as a walk meets them
  changes,      \* changes the probes made since the walk began
  stage,
  prev, curr,   \* prev_key, curr_key
  allocs,       \* the first nr_allocs of allocs[]
  shown,        \* stacks printed
  result,
  stayed,       \* history: elements in the map since the walk began
  skipped,      \* history: elements that prev_key = 0 steps over
  disturbed,    \* history: an element was deleted or replaced
  log           \* history: the elements counted, as they were looked up

mapVars == <<map, changes, stayed, disturbed>>
settings == <<kind, showAllocs, bucket, now, skipped>>
outputVars == <<allocs, shown, result, log>>
walkVars == <<settings, mapVars, stage, prev, curr, outputVars>>

Elements == [key : Keys, stack : Stacks \cup {NoStack}, size : Sizes, time : 0 .. MaxTime]

WalkTypeOK ==
  /\ kind \in {"each", "combined"} /\ showAllocs \in BOOLEAN
  /\ bucket \in Hashes
  /\ now \in 0 .. MaxTime /\ changes \in 0 .. MaxChanges
  /\ map \in Seq(Elements) /\ Len(map) <= MapSize
  /\ stage \in {"first", "next", "lookup", "report", "free", "done"}
  /\ prev \in {0} \cup Keys /\ curr \in {0} \cup Keys
  /\ allocs \in Seq([stack : Stacks, size : Nat, count : Nat,
                     nodes : Seq([address : Keys, size : Sizes])])
  /\ shown \in Nat /\ result \in {"none", "OK", "error"}
  /\ stayed \subseteq Elements /\ skipped \subseteq Elements
  /\ disturbed \in BOOLEAN
  /\ log \in Seq(Elements)

Stored == {map[i].key : i \in DOMAIN map}

Position(k) == CHOOSE i \in DOMAIN map : map[i].key = k

(* What the probes store: a new record of an address, or the totals of a   *)
(* stack under its id.                                                     *)
Storable ==
  IF kind = "each"
  THEN [key : Addresses, stack : Stacks \cup {NoStack}, size : Sizes, time : {now}]
  ELSE {[key |-> s, stack |-> s, size |-> z, time |-> 0] : s \in Stacks, z \in Sizes}

InWalkOrder(m) ==
  \A i, j \in DOMAIN m :
    i < j => m[i].key # m[j].key /\ bucket[m[i].key] <= bucket[m[j].key]

(* The walk begins over whatever the probes have stored so far.            *)
WalkInit ==
  /\ kind \in {"each", "combined"}
  /\ showAllocs \in BOOLEAN /\ (kind = "combined" => ~showAllocs)
  /\ bucket \in Hashes
  /\ now \in 0 .. MaxTime
  /\ LET Old == {[e EXCEPT !.time = t] : e \in Storable, t \in {0, now}}
     IN  map \in UNION {[1 .. n -> Old] : n \in 0 .. MapSize}
  /\ kind = "combined" => \A i \in DOMAIN map : map[i].time = 0
  /\ InWalkOrder(map)
  /\ changes = 0
  /\ stage = "first" /\ prev = 0 /\ curr = 0
  /\ allocs = <<>> /\ shown = 0 /\ result = "none"
  /\ stayed = Range(map)
  /\ skipped = IF 0 \in Stored THEN {map[i] : i \in 1 .. Position(0)} ELSE {}
  /\ disturbed = FALSE /\ log = <<>>

-----------------------------------------------------------------------------
(* The probes *)

mapRest == <<settings, stage, prev, curr, outputVars>>

Walking == stage \in {"next", "lookup"}

Without(k) == IF k \in Stored THEN RemoveAt(map, Position(k)) ELSE map

(* An element goes to the head of its bucket.                              *)
Inserted(e, m) ==
  LET before == {i \in DOMAIN m : bucket[m[i].key] < bucket[e.key]}
  IN  InsertAt(m, Cardinality(before) + 1, e)

(* A block is allocated, a stack counted for the first time; or a record   *)
(* is replaced because the probes missed that its block was freed.         *)
Store(e) ==
  /\ Walking /\ changes < MaxChanges
  /\ kind = "combined" => e.key \notin Stored
  /\ Len(Without(e.key)) < MapSize
  /\ map' = Inserted(e, Without(e.key))
  /\ stayed' = {s \in stayed : s.key # e.key}
  /\ disturbed' = (disturbed \/ e.key \in Stored)
  /\ changes' = changes + 1
  /\ UNCHANGED mapRest

(* The totals of a stack change in place.                                  *)
Count(e) ==
  /\ Walking /\ changes < MaxChanges
  /\ kind = "combined" /\ e.key \in Stored
  /\ map' = [map EXCEPT ![Position(e.key)] = e]
  /\ stayed' = {IF s.key = e.key THEN e ELSE s : s \in stayed}
  /\ changes' = changes + 1
  /\ UNCHANGED <<mapRest, disturbed>>

(* A block is freed.                                                       *)
Delete(k) ==
  /\ Walking /\ changes < MaxChanges
  /\ kind = "each" /\ k \in Stored
  /\ map' = Without(k)
  /\ stayed' = {s \in stayed : s.key # k}
  /\ disturbed' = TRUE
  /\ changes' = changes + 1
  /\ UNCHANGED mapRest

-----------------------------------------------------------------------------
(* The walk *)

walkRest == <<settings, mapVars, shown>>

(* Where get_next_key goes on: behind the key, or from the start if the    *)
(* key is not in the map.                                                  *)
After(k) == IF k \in Stored THEN Position(k) + 1 ELSE 1

GetNextKey ==
  /\ stage \in {"first", "next"}
  /\ IF After(prev) \in DOMAIN map
     THEN stage' = "lookup" /\ curr' = map[After(prev)].key
     ELSE stage' = "report" /\ UNCHANGED curr
  /\ UNCHANGED <<walkRest, prev, allocs, result, log>>

Found == map[Position(curr)]

(* The age in the clock's unsigned arithmetic.                             *)
TooYoung(e) == (now - MinAge) % TimeRange < e.time

Counts(e) == kind = "combined" \/ (~TooYoung(e) /\ e.stack >= 0)

GoesOnFromPrev ==
  /\ stage' = "next"
  /\ UNCHANGED <<walkRest, prev, curr, result>>

GoesOn ==
  /\ stage' = "next" /\ prev' = curr
  /\ UNCHANGED <<walkRest, curr, result>>

StopsWhenGone ==
  /\ stage = "lookup" /\ curr \notin Stored
  /\ stage' = "report"
  /\ UNCHANGED <<walkRest, prev, curr, result, allocs, log>>

(* The key is gone between the two calls.                                  *)
LookupGone ==
  /\ stage = "lookup" /\ curr \notin Stored
  /\ GoesOn
  /\ UNCHANGED <<allocs, log>>

FilterStays ==
  /\ stage = "lookup" /\ curr \in Stored /\ ~Counts(Found)
  /\ GoesOnFromPrev
  /\ UNCHANGED <<allocs, log>>

(* Too young, or without a stack.                                          *)
Filter ==
  /\ stage = "lookup" /\ curr \in Stored /\ ~Counts(Found)
  /\ GoesOn
  /\ UNCHANGED <<allocs, log>>

(* With show_allocs a stack lists its blocks, the last one found first.    *)
Nodes(e) ==
  IF kind = "each" /\ showAllocs THEN <<[address |-> e.key, size |-> e.size]>> ELSE <<>>

Fresh(e) == [stack |-> e.stack, size |-> e.size, count |-> 1, nodes |-> Nodes(e)]

MergedUncounted(a, e) ==
  [a EXCEPT !.size = @ + e.size, !.nodes = Nodes(e) \o @]

Merged(a, e) ==
  [a EXCEPT !.size = @ + e.size, !.count = @ + 1, !.nodes = Nodes(e) \o @]

AddedApart(e) == Append(allocs, Fresh(e))

(* A stack that is known is added to, another appended.                    *)
AddedBlock(e) ==
  IF \E i \in DOMAIN allocs : allocs[i].stack = e.stack
  THEN [i \in DOMAIN allocs |->
          IF allocs[i].stack = e.stack THEN Merged(allocs[i], e) ELSE allocs[i]]
  ELSE Append(allocs, Fresh(e))

(* The statistics of a stack are copied.                                   *)
AddedStack(e) == Append(allocs, Fresh(e))

Added(e) == IF kind = "each" THEN AddedBlock(e) ELSE AddedStack(e)

Tally ==
  /\ stage = "lookup" /\ curr \in Stored /\ Counts(Found)
  /\ allocs' = Added(Found)
  /\ log' = Append(log, Found)
  /\ GoesOn

(* A system call fails for another reason, or malloc finds no memory for a *)
(* node: the nodes of the stacks so far are forgotten.                     *)
WalkFails ==
  /\ stage \in {"first", "next", "lookup"}
  /\ stage' = "done" /\ result' = "error"
  /\ UNCHANGED <<walkRest, prev, curr, allocs, log>>

(* qsort by size, largest first, equal sizes in any order, and the first   *)
(* top_stacks are printed.                                                 *)
Report ==
  /\ stage = "report"
  /\ \E f \in Bijection(DOMAIN allocs, DOMAIN allocs) :
       /\ \A i, j \in DOMAIN allocs : i < j => allocs[f[i]].size >= allocs[f[j]].size
       /\ allocs' = [i \in DOMAIN allocs |-> allocs[f[i]]]
  /\ shown' = IF Len(allocs) < TopStacks THEN Len(allocs) ELSE TopStacks
  /\ stage' = "free"
  /\ UNCHANGED <<settings, mapVars, prev, curr, result, log>>

(* The nodes are freed.                                                    *)
Free ==
  /\ stage = "free"
  /\ allocs' = [i \in DOMAIN allocs |-> [allocs[i] EXCEPT !.nodes = <<>>]]
  /\ stage' = "done" /\ result' = "OK"
  /\ UNCHANGED <<walkRest, prev, curr, log>>

-----------------------------------------------------------------------------
Probes ==
  \/ \E e \in Storable : Store(e) \/ Count(e)
  \/ \E k \in Keys : Delete(k)

Walk ==
  \/ GetNextKey \/ LookupGone \/ Filter \/ Tally \/ WalkFails
  \/ Report \/ Free

WalkNext == Probes \/ Walk \/ (stage = "done" /\ UNCHANGED walkVars)

(* The program is scheduled, the probes need not fire.                     *)
WalkSpec == WalkInit /\ [][WalkNext]_walkVars /\ WF_walkVars(Walk)

-----------------------------------------------------------------------------
(* Properties *)

KeysIn(S) == {e.key : e \in S}

OldEnough(e) == e.time + MinAge <= now

Completed == stage \in {"report", "free"} \/ result = "OK"

(* What is shown as outstanding is what is outstanding: a block that was   *)
(* there all the while and is old enough is counted, whatever was inserted *)
(* or deleted beside it, and nothing younger is, unless the machine is     *)
(* younger than the age asked for; a stack is counted unless prev_key = 0  *)
(* stepped over it (:1034-1064, :1160-1182).                               *)
OutstandingAreCounted ==
  /\ Completed => \A e \in stayed :
       \/ kind = "each" /\ (~OldEnough(e) \/ e.stack < 0)
       \/ e.key \in KeysIn(skipped)
       \/ e.key \in KeysIn(Range(log))
  /\ kind = "each" /\ now >= MinAge => \A e \in Range(log) : OldEnough(e) /\ e.stack >= 0

(* No block is shown twice while the probes delete and replace nothing,    *)
(* and no stack of the statistics ever; a deleted key may start the walk   *)
(* over (:1038).                                                           *)
CountedOnce ==
  ~disturbed => \A i, j \in DOMAIN log : log[i].key = log[j].key => i = j

(* The blocks counted for a stack, as positions of the log, and the sum of *)
(* the sizes at some positions of a sequence.                              *)
BlocksOf(stack) == {i \in DOMAIN log : log[i].stack = stack}

Sum(s, positions) ==
  LET upTo[n \in 0 .. Len(s)] ==
        IF n = 0 THEN 0
        ELSE upTo[n - 1] + IF n \in positions THEN s[n].size ELSE 0
  IN  upTo[Len(s)]

(* The totals printed for a stack are those of the blocks counted for it,  *)
(* each stack has one line, and under it are these blocks and no others,   *)
(* the last one found first (:1066-1120).                                  *)
TotalsAddUp ==
  kind = "each" =>
    /\ \A i, j \in DOMAIN allocs : allocs[i].stack = allocs[j].stack => i = j
    /\ \A i \in DOMAIN allocs :
         LET blocks == BlocksOf(allocs[i].stack)
         IN  /\ allocs[i].count = Cardinality(blocks) /\ allocs[i].size = Sum(log, blocks)
             /\ showAllocs /\ stage # "done" =>
                  /\ Len(allocs[i].nodes) = Cardinality(blocks)
                  /\ \A b \in blocks :
                       allocs[i].nodes[Cardinality({c \in blocks : c >= b})] =
                         [address |-> log[b].key, size |-> log[b].size]

(* allocs[] has as many elements as the map may have, and no test keeps    *)
(* the walk inside: blocks are merged by stack, and a stack of the         *)
(* statistics is met once because it is never deleted (:1119, :1190).      *)
ArrayIsNotOverrun ==
  Len(allocs) <= IF kind = "each" THEN Cardinality(Stacks) ELSE MapSize

(* The walk ends once the probes leave the map alone, however often it was *)
(* started over (:1034-1121).                                              *)
WalkEnds == stage = "first" ~> stage = "done"

=============================================================================
