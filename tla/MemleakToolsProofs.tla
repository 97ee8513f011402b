-------------------------- MODULE MemleakToolsProofs --------------------------
(***************************************************************************)
(* Proofs about MemleakTools, for every size of the ring buffer, length of *)
(* frames[] and number of intervals, and about OutstandingWalk, for every  *)
(* map, assignment of keys to buckets and change the probes make in it.    *)
(***************************************************************************)
EXTENDS MemleakTools, OutstandingWalk, FiniteSetTheorems, SequenceTheorems,
        WellFoundedInduction, TLAPS

(* The context exists before the ring buffer and goes after it, and a call *)
(* runs only in the handler of an event.                                   *)
ContextOutlivesRing ==
  /\ phase = "start" => ~ready
  /\ tool = "basic" /\ phase \notin {"start", "done"} => ready
  /\ tool = "bcc" /\ phase \in {"forked", "runtime"} => ~ready
  /\ ring => ready
  /\ phase \in {"poll", "handle"} => ring
  /\ calling => phase = "handle"

(* The program knows what became of its child before it stops waiting for  *)
(* it, or reports an error.                                                *)
ChildIsKnown ==
  /\ spawns => tool = "bcc"
  /\ ~spawns => child = "none"
  /\ phase = "start" => child = "none"
  /\ spawns /\ phase \notin {"start", "cleanup", "done"} => child # "none"
  /\ child = "reaped" /\ phase \notin {"cleanup", "done"} => childExited
  /\ phase \in {"cleanup", "done"} /\ ret = "OK" => child \in {"none", "reaped"}

(* The handler has an event, and what the running capture was asked for    *)
(* tells whether it is the first.                                          *)
HandlerAsks ==
  phase = "handle" =>
    /\ queue # <<>>
    /\ tries \in {1, 2}
    /\ tries = 1 => asked.pid
    /\ tries = 2 => ~asked.pid /\ mode # "force"
    /\ ~calling => told \in Contract!Outcomes(asked)

IInv ==
  TypeOK /\ ContextOutlivesRing /\ ChildIsKnown /\ HandlerAsks /\ TraceIsHonest

-----------------------------------------------------------------------------
(* The contract of dwunw_capture *)

(* An outcome has no more frames than were asked for, and one of a request *)
(* that reads no stack has one frame if it succeeds.                       *)
LEMMA OutcomesOfRequest ==
  ASSUME NEW r \in Contract!Requests, NEW o \in Contract!Outcomes(r)
  PROVE  /\ o.frames \in 0 .. MaxFrames
         /\ o.status = "OK" /\ ~r.pid => o.frames = 1
<1>. USE MemleakToolsAssumption
<1>1. r.max \in 1 .. MaxFrames /\ r.pid \in BOOLEAN
  BY DEF Contract!Requests
<1>2. CASE o \in Contract!NoRoot
  BY <1>2 DEF Contract!NoRoot, Contract!Answer
<1>3. CASE Contract!ReadsStack(r) /\ o \in Contract!Traces(r)
  BY <1>1, <1>3 DEF Contract!Traces, Contract!Answer, Contract!ReadsStack
<1>4. CASE o = Contract!Answer("OK", 1)
  BY <1>4 DEF Contract!Answer
<1>. QED
  BY <1>2, <1>3, <1>4 DEF Contract!Outcomes

-----------------------------------------------------------------------------
(* The invariant is inductive *)

LEMMA InitIInv == Init => IInv
<1>. SUFFICES ASSUME Init PROVE IInv
  OBVIOUS
<1>. USE MemleakToolsAssumption
<1>1. asked \in Contract!Requests /\ told.frames \in 0 .. MaxFrames
  BY DEF Init, Contract!Requests, Contract!Unanswered, Contract!Answer
<1>2. intervals \in Forever .. MaxIntervals
  BY DEF Init, Forever
<1>3. trace \in [pid : BOOLEAN, frames : 0 .. MaxFrames, tries : 0 .. 2]
  BY DEF Init
<1>4. queue \in Seq({"watched", "other"}) /\ Len(queue) <= RingSize
  BY DEF Init
<1>5. TypeOK
  BY <1>1, <1>2, <1>3, <1>4 DEF Init, TypeOK, Phases
<1>6. ContextOutlivesRing /\ ChildIsKnown /\ HandlerAsks /\ TraceIsHonest
  BY DEF Init, ContextOutlivesRing, ChildIsKnown, HandlerAsks, TraceIsHonest
<1>. QED
  BY <1>5, <1>6 DEF IInv

LEMMA ToggleFlips ==
  ASSUME ready \in BOOLEAN, Contract!Toggle
  PROVE  /\ ready' \in BOOLEAN /\ (ready' <=> ~ready)
         /\ ~calling /\ UNCHANGED <<calling, asked, told>>
BY Zenon DEF Contract!Toggle

LEMMA SettingUpIInv == IInv /\ SettingUp => IInv'
<1>. SUFFICES ASSUME IInv, SettingUp PROVE IInv'
  OBVIOUS
<1>. USE DEF IInv, TypeOK, ContextOutlivesRing, ChildIsKnown, HandlerAsks,
             TraceIsHonest, setupRest, options, signalVars, handlerVars, eventVars,
             captureVars, Phases
<1>1. CASE Fork
  BY <1>1 DEF Fork
<1>2. CASE ForkFails
  BY <1>2 DEF ForkFails
<1>3. CASE AttachProbes
  BY <1>3 DEF AttachProbes
<1>4. CASE SetUpRuntime
  BY <1>4, ToggleFlips DEF SetUpRuntime
<1>5. CASE Notify
  BY <1>5 DEF Notify
<1>6. CASE LoadSymbols
  BY <1>6 DEF LoadSymbols
<1>7. CASE SetupFails
  <2>1. CASE phase = "runtime" /\ Contract!Toggle
    BY <1>7, <2>1, ToggleFlips DEF SetupFails
  <2>2. CASE UNCHANGED captureVars
    BY <1>7, <2>2 DEF SetupFails
  <2>. QED
    BY <1>7, <2>1, <2>2 DEF SetupFails
<1>8. CASE InitBasic
  BY <1>8, ToggleFlips DEF InitBasic
<1>9. CASE AttachBasic
  BY <1>9 DEF AttachBasic
<1>10. CASE NewRingBasic
  BY <1>10 DEF NewRingBasic
<1>11. CASE FailBasic
  BY <1>11 DEF FailBasic
<1>. QED
  BY <1>1, <1>2, <1>3, <1>4, <1>5, <1>6, <1>7, <1>8, <1>9, <1>10, <1>11 DEF SettingUp

LEMMA LoopingIInv == IInv /\ Looping => IInv'
<1>. SUFFICES ASSUME IInv, Looping PROVE IInv'
  OBVIOUS
<1>. USE MemleakToolsAssumption
<1>. USE DEF IInv, TypeOK, ContextOutlivesRing, ChildIsKnown, HandlerAsks,
             TraceIsHonest, loopRest, handlerRest, options, signalVars, handlerVars,
             eventVars, childVars, captureVars, Phases
<1>1. MayTurn => OneLess \in Forever .. MaxIntervals
  BY DEF MayTurn, OneLess, Forever
<1>2. CASE Poll
  BY <1>1, <1>2 DEF Poll
<1>3. CASE PollIdle
  BY <1>1, <1>3 DEF PollIdle
<1>4. CASE PollFails
  BY <1>1, <1>4 DEF PollFails
<1>5. CASE PollReturns
  BY <1>5 DEF PollReturns
<1>6. CASE LoopEnds
  BY <1>6 DEF LoopEnds
<1>7. CASE LoopEndsBasic
  BY <1>7 DEF LoopEndsBasic
<1>8. CASE Handle
  <2>1. [pid |-> TRUE, max |-> MaxFrames] \in Contract!Requests
    BY DEF Contract!Requests
  <2>2. /\ asked' = [pid |-> TRUE, max |-> MaxFrames] /\ calling'
        /\ told'.frames = 0 /\ ready' = ready
    BY <1>8 DEF Handle, Contract!Start, Contract!Unanswered, Contract!Answer
  <2>. QED
    BY <1>8, <2>1, <2>2 DEF Handle
<1>9. CASE CaptureReturns
  <2>1. /\ told' \in Contract!Outcomes(asked) /\ calling' = FALSE
        /\ ready' = ready /\ asked' = asked /\ calling
    BY <1>9 DEF CaptureReturns, Contract!Return
  <2>2. told'.frames \in 0 .. MaxFrames
    BY <2>1, OutcomesOfRequest
  <2>3. calling' \in BOOLEAN /\ ~calling'
    BY <2>1, Zenon
  <2>. QED
    BY <1>9, <2>1, <2>2, <2>3 DEF CaptureReturns
<1>10. CASE Retry
  <2>1. [asked EXCEPT !.pid = FALSE] \in Contract!Requests
    BY DEF Contract!Requests
  <2>2. /\ asked' = [asked EXCEPT !.pid = FALSE] /\ calling'
        /\ told'.frames = 0 /\ ready' = ready
    BY <1>10 DEF Retry, Contract!Start, Contract!Unanswered, Contract!Answer
  <2>3. ~asked'.pid
    BY <2>2 DEF Contract!Requests
  <2>. QED
    BY <1>10, <2>1, <2>2, <2>3 DEF Retry, Judging
<1>11. CASE GiveUp
  BY <1>11 DEF GiveUp, Judging, Consume
<1>12. CASE PrintTrace
  <2>1. /\ phase = "handle" /\ ~calling /\ told.status = "OK"
        /\ told \in Contract!Outcomes(asked)
    BY <1>12 DEF PrintTrace, Judging, Failed
  <2>2. ~asked.pid => told.frames = 1
    BY <2>1, OutcomesOfRequest
  <2>3. asked.pid \in BOOLEAN
    BY DEF Contract!Requests
  <2>4. trace' = [pid |-> asked.pid, frames |-> told.frames, tries |-> tries]
    BY <1>12 DEF PrintTrace
  <2>5. /\ trace' \in [pid : BOOLEAN, frames : 0 .. MaxFrames, tries : 0 .. 2]
        /\ TraceIsHonest'
    BY <1>12, <2>1, <2>2, <2>3, <2>4 DEF PrintTrace, Consume
  <2>. QED
    BY <1>12, <2>1, <2>5 DEF PrintTrace, Consume
<1>. QED
  BY <1>2, <1>3, <1>4, <1>5, <1>6, <1>7, <1>8, <1>9, <1>10, <1>11, <1>12 DEF Looping

LEMMA EndingIInv == IInv /\ Ending => IInv'
<1>. SUFFICES ASSUME IInv, Ending PROVE IInv'
  OBVIOUS
<1>. USE DEF IInv, TypeOK, ContextOutlivesRing, ChildIsKnown, HandlerAsks,
             TraceIsHonest, endRest, options, signalVars, handlerVars, eventVars,
             captureVars, Phases
<1>1. CASE Stop
  BY <1>1 DEF Stop
<1>2. CASE StopFails
  BY <1>2 DEF StopFails
<1>3. CASE Reap
  BY <1>3 DEF Reap
<1>4. CASE Teardown
  <2>1. ready' \in BOOLEAN /\ UNCHANGED <<calling, asked, told>>
    BY <1>4, ToggleFlips DEF Teardown
  <2>2. phase = "cleanup" /\ phase' = "done" /\ ring' \in BOOLEAN /\ ~ring'
    BY <1>4, Zenon DEF Teardown
  <2>3. told'.frames \in 0 .. MaxFrames /\ asked' \in Contract!Requests
    BY <2>1
  <2>4. TypeOK'
    BY <1>4, <2>1, <2>2, <2>3 DEF Teardown
  <2>5. TraceIsHonest'
    BY <1>4 DEF Teardown
  <2>6. ContextOutlivesRing' /\ ChildIsKnown' /\ HandlerAsks'
    BY <1>4, <2>1, <2>2 DEF Teardown
  <2>. QED
    BY <2>4, <2>5, <2>6
<1>. QED
  BY <1>1, <1>2, <1>3, <1>4 DEF Ending

(* The signal handler only ever raises flags.                              *)
LEMMA SignalTells ==
  ASSUME exiting \in BOOLEAN, childExited \in BOOLEAN, ChildSignal
  PROVE  /\ exiting' \in BOOLEAN /\ childExited' \in BOOLEAN
         /\ childExited \/ tool = "bcc" => childExited'
BY DEF ChildSignal, signalVars

(* The probes, the child, the user and a traced thread's stop.             *)
LEMMA OthersIInv == IInv /\ Others => IInv'
<1>. SUFFICES ASSUME IInv, Others PROVE IInv'
  OBVIOUS
<1>. USE DEF IInv, TypeOK, ContextOutlivesRing, ChildIsKnown, HandlerAsks,
             TraceIsHonest, options, signalVars, handlerVars, eventVars, childVars,
             captureVars, Phases
<1>1. ASSUME NEW e \in {"watched", "other"}, Emit(e) PROVE IInv'
  <2>1. /\ queue' \in Seq({"watched", "other"}) /\ Len(queue') <= RingSize
        /\ queue # <<>> => queue' # <<>>
    <3>1. CASE Len(queue) < RingSize
      BY <1>1, <3>1, MemleakToolsAssumption DEF Emit
    <3>2. CASE ~(Len(queue) < RingSize)
      BY <1>1, <3>2 DEF Emit
    <3>. QED
      BY <3>1, <3>2
  <2>2. watched' \in {"unseen", "lost", "queued", "failed", "reported"}
    BY <1>1 DEF Emit
  <2>. QED
    BY <1>1, <2>1, <2>2 DEF Emit
<1>2. CASE TracedStops
  BY <1>2, SignalTells DEF TracedStops, attachRest
<1>3. CASE ReaderReaps
  BY <1>3, SignalTells DEF ReaderReaps, attachRest
<1>4. CASE ChildExecs
  BY <1>4 DEF ChildExecs, childRest
<1>5. CASE ChildEnds
  <2>1. CASE phase = "done"
    BY <1>5, <2>1 DEF ChildEnds, childRest
  <2>2. CASE phase # "done"
    BY <1>5, <2>2, SignalTells DEF ChildEnds, MayInterrupt, childRest
  <2>. QED
    BY <2>1, <2>2
<1>6. CASE Interrupt
  BY <1>6 DEF Interrupt, MayInterrupt, childRest
<1>. QED
  BY <1>1, <1>2, <1>3, <1>4, <1>5, <1>6 DEF Others

LEMMA NextIInv == IInv /\ [Next]_vars => IInv'
<1>. SUFFICES ASSUME IInv, [Next]_vars PROVE IInv'
  OBVIOUS
<1>1. CASE UNCHANGED vars
  BY <1>1 DEF vars, IInv, TypeOK, ContextOutlivesRing, ChildIsKnown, HandlerAsks,
              TraceIsHonest, options, signalVars, handlerVars, eventVars, childVars,
              captureVars
<1>2. CASE Next
  BY <1>1, <1>2, SettingUpIInv, LoopingIInv, EndingIInv, OthersIInv
     DEF Next, Program, Over
<1>. QED
  BY <1>1, <1>2

(* Every reachable state satisfies the invariant.                          *)
THEOREM AlwaysIInv == Spec => []IInv
BY InitIInv, NextIInv, PTL DEF Spec

-----------------------------------------------------------------------------
(* Theorems *)

(* The flags, the ring, the handler and the child keep their types, for    *)
(* every size of the ring and of frames[] (memleak_dwunw_user.c:44-82).    *)
THEOREM TypeCorrect == Spec => []TypeOK
BY AlwaysIInv, PTL DEF IInv

(* A program that succeeds has reaped its child or had none                *)
(* (memleak_dwunw_user.c:471-490).                                         *)
THEOREM ChildCorrect == Spec => []ChildAccountedFor
<1>1. IInv => ChildAccountedFor
  BY DEF IInv, ChildIsKnown, ChildAccountedFor
<1>. QED
  BY <1>1, AlwaysIInv, PTL

(* A printed fallback is the root frame alone, and mode force prints none  *)
(* (memleak_dwunw_user.c:782-822, memleak_user.c:150-186).                 *)
THEOREM TracesCorrect == Spec => []TraceIsHonest
BY AlwaysIInv, PTL DEF IInv

(* Only the end of the loop sends SIGTERM.                                 *)
LEMMA OthersDoNotKill ==
  SettingUp \/ Looping \/ StopFails \/ Reap \/ Teardown \/ Others \/ Over
    => killed' = killed
<1>1. SettingUp => killed' = killed
  BY DEF SettingUp, Fork, ForkFails, AttachProbes, SetUpRuntime, Notify, LoadSymbols,
         SetupFails, InitBasic, AttachBasic, NewRingBasic, FailBasic, setupRest
<1>2. Looping => killed' = killed
  BY DEF Looping, Poll, PollIdle, PollFails, PollReturns, LoopEnds, LoopEndsBasic,
         Handle, CaptureReturns, Retry, GiveUp, PrintTrace, Consume, loopRest,
         handlerRest, childVars
<1>3. StopFails \/ Reap \/ Teardown => killed' = killed
  BY DEF StopFails, Reap, Teardown
<1>4. Others => killed' = killed
  BY DEF Others, Emit, TracedStops, ReaderReaps, ChildExecs, ChildEnds, Interrupt,
         attachRest, childRest, childVars
<1>5. Over => killed' = killed
  BY DEF Over, vars, childVars
<1>. QED
  BY <1>1, <1>2, <1>3, <1>4, <1>5

(* SIGTERM is sent to a child that has not been reaped                     *)
(* (memleak_dwunw_user.c:471-481, stack_reader.c:129).                     *)
THEOREM SignalsCorrect == Spec => KillsOnlyItsChild
<1>1. ASSUME IInv, [Next]_vars, killed', ~killed
      PROVE  child \in {"waiting", "running", "zombie"}
  <2>1. killed' # killed
    BY <1>1
  <2>2. Stop
    BY <1>1, <2>1, OthersDoNotKill DEF Next, Program, Ending, vars, childVars
  <2>3. spawns /\ ~childExited /\ phase = "stop"
    BY <1>1, <2>2 DEF Stop
  <2>. QED
    BY <1>1, <2>3 DEF IInv, TypeOK, ChildIsKnown
<1>2. IInv /\ [Next]_vars => [killed' /\ ~killed => child \in {"waiting", "running", "zombie"}]_vars
  BY <1>1
<1>. QED
  BY <1>2, AlwaysIInv, PTL DEF Spec, KillsOnlyItsChild

(* The handler's captures are permitted: whenever it may start one, the    *)
(* context is ready and no other call is running, so that the guards of    *)
(* the contract never hold the program up                                  *)
(* (memleak_dwunw_user.c:754-824, :858-900, memleak_user.c:209-283).       *)
CapturesArePermitted ==
  /\ phase = "poll" => ready /\ ~calling
  /\ phase = "handle" => ready /\ queue # <<>>

(* Every capture the handlers start is one the contract permits            *)
(* (memleak_dwunw_user.c:754-824, memleak_user.c:209-283).                 *)
THEOREM PermissionCorrect == Spec => []CapturesArePermitted
<1>1. IInv => CapturesArePermitted
  BY DEF IInv, ContextOutlivesRing, HandlerAsks, CapturesArePermitted
<1>. QED
  BY <1>1, AlwaysIInv, PTL

-----------------------------------------------------------------------------
(* The walk over the map: print_outstanding_allocs                         *)

(* The element under key x comes before the one under key y.               *)
Ahead(m, x, y) == \E i, j \in DOMAIN m : i < j /\ m[i].key = x /\ m[j].key = y

(* The records of allocs are under addresses, those of combined_allocs     *)
(* under their stacks.                                                     *)
Keyed(e) == IF kind = "each" THEN e.key \in Addresses ELSE e.key \in Stacks /\ e.stack = e.key

(* The elements are in the order of a walk, and what stayed is among them. *)
MapIsOrdered ==
  /\ InWalkOrder(map)
  /\ \A i \in DOMAIN map : Keyed(map[i])
  /\ stayed \subseteq Range(map)
  /\ kind = "combined" => ~disturbed

(* Where the walk is.                                                      *)
WalkIsSomewhere ==
  /\ stage = "first" => prev = 0 /\ log = <<>> /\ allocs = <<>>
  /\ stage = "next" => prev \in Keys
  /\ stage = "lookup" => curr \in Keys
  /\ stage # "done" => result = "none"

(* The walk is through with an element: it was counted, filtered or        *)
(* stepped over.                                                           *)
Handled(e) ==
  \/ kind = "each" /\ (~OldEnough(e) \/ e.stack < 0)
  \/ e.key \in KeysIn(skipped)
  \/ e.key \in KeysIn(Range(log))

(* What the walk is not through with is still to come, wherever a deletion *)
(* makes it start over and wherever a key goes when it is stored again.    *)
RestIsToCome ==
  \A e \in stayed :
    \/ Handled(e)
    \/ stage = "first" /\ e.key # 0 /\ ~Ahead(map, e.key, 0)
    \/ stage = "next" /\ e.key # prev /\ bucket[prev] <= bucket[e.key] /\ ~Ahead(map, e.key, prev)
    \/ stage = "lookup" /\ bucket[curr] <= bucket[e.key] /\ ~Ahead(map, e.key, curr)
    \/ stage = "done" /\ result # "OK"

(* What was counted passed the filters.                                    *)
CountedIsSound ==
  \A i \in DOMAIN log : Keyed(log[i]) /\ Counts(log[i])

(* Undisturbed, what was counted is behind the walk.                       *)
CountedIsBehind ==
  ~disturbed =>
    /\ stage = "next" => prev \in Stored
    /\ stage = "lookup" => curr \in Stored
    /\ \A l \in DOMAIN log :
         /\ log[l].key \in Stored
         /\ stage = "next" => ~Ahead(map, prev, log[l].key)
         /\ stage = "lookup" => log[l].key # curr /\ ~Ahead(map, curr, log[l].key)

(* Every block counted is in a total, and a stack of the statistics has a  *)
(* line of its own.                                                        *)
CountedHasTotal ==
  /\ kind = "each" => \A l \in DOMAIN log : \E i \in DOMAIN allocs : allocs[i].stack = log[l].stack
  /\ kind = "combined" => Len(allocs) = Len(log) /\ ~showAllocs

(* The invariant of the walk.                                              *)
WInv ==
  /\ WalkTypeOK /\ MapIsOrdered /\ WalkIsSomewhere
  /\ RestIsToCome /\ CountedIsSound /\ CountedIsBehind /\ CountedOnce
  /\ CountedHasTotal /\ TotalsAddUp
-----------------------------------------------------------------------------
(* The order of a walk *)

(* A set of naturals that has an element has a least one.                  *)
LEMMA NatMinimum ==
  ASSUME NEW S \in SUBSET Nat, S # {}
  PROVE  \E m \in S : \A n \in S : m <= n
<1>. DEFINE R == {ss \in Nat \X Nat : ss[1] < ss[2]}
<1>1. IsWellFoundedOn(R, Nat)
  BY NatLessThanWellFounded DEF OpToRel
<1>. HIDE DEF R
<1>2. PICK m \in S : \A n \in S : ~(<<n, m>> \in R)
  BY <1>1, WFMin
<1>3. \A n \in S : n < m => <<n, m>> \in R
  BY DEF R
<1>4. \A n \in S : ~(n < m)
  BY <1>2, <1>3, Zenon
<1>. QED
  BY <1>4

(* A set of naturals that holds the first number of a range and, with a    *)
(* number of it, the next one, holds the range.                            *)
LEMMA RangeInduction ==
  ASSUME NEW n \in Nat, NEW T, 0 \in T,
         \A k \in 0 .. n - 1 : k \in T => k + 1 \in T
  PROVE  0 .. n \subseteq T
<1>. DEFINE S == {k \in 0 .. n : k \notin T}
<1>. SUFFICES ASSUME S # {} PROVE FALSE
  OBVIOUS
<1>1. PICK m \in S : \A k \in S : m <= k
  BY NatMinimum, S \in SUBSET Nat
<1>2. m # 0 /\ m - 1 \in 0 .. n - 1 /\ m - 1 \notin S
  BY <1>1
<1>3. m - 1 \in T
  BY <1>2
<1>4. (m - 1) + 1 \in T
  BY <1>2, <1>3
<1>. QED
  BY <1>1, <1>4

(* An initial part of a range is the range up to its size.                 *)
LEMMA InitialPart ==
  ASSUME NEW n \in Nat, NEW B \in SUBSET (1 .. n),
         \A i, j \in 1 .. n : i < j /\ j \in B => i \in B
  PROVE  Cardinality(B) \in 0 .. n /\ B = 1 .. Cardinality(B)
<1>. DEFINE S == {k \in 0 .. n : k + 1 \notin B}
<1>1. n \in S
  OBVIOUS
<1>2. PICK m \in S : \A k \in S : m <= k
  BY <1>1, NatMinimum, S \in SUBSET Nat
<1>3. \A i \in 1 .. m : i \in B
  <2>1. TAKE i \in 1 .. m
  <2>2. i - 1 \in 0 .. n /\ ~(i - 1 \in S) /\ (i - 1) + 1 = i
    BY <1>2
  <2>. QED
    BY <2>2
<1>4. \A i \in B : i \in 1 .. m
  <2>1. ASSUME NEW i \in B, i > m PROVE FALSE
    <3>1. i \in 1 .. n /\ m + 1 \in 1 .. n /\ m + 1 \notin B
      BY <1>2, <2>1
    <3>2. m + 1 = i \/ m + 1 < i
      BY <2>1, <3>1
    <3>. QED
      BY <3>1, <3>2
  <2>. QED
    BY <2>1
<1>5. B = 1 .. m
  BY <1>3, <1>4
<1>6. m \in 0 .. n
  BY <1>2
<1>7. Cardinality(1 .. m) = m
  BY <1>6, FS_Interval
<1>. QED
  BY <1>5, <1>6, <1>7

(* InsertAt puts one element in and moves those behind it by one.          *)
LEMMA InsertAtAdds ==
  ASSUME NEW S, NEW s \in Seq(S), NEW p \in 1 .. Len(s) + 1, NEW e \in S
  PROVE  /\ InsertAt(s, p, e) \in Seq(S)
         /\ Len(InsertAt(s, p, e)) = Len(s) + 1
         /\ \A i \in 1 .. p - 1 : InsertAt(s, p, e)[i] = s[i]
         /\ InsertAt(s, p, e)[p] = e
         /\ \A i \in p + 1 .. Len(s) + 1 : InsertAt(s, p, e)[i] = s[i - 1]
<1>. DEFINE c == p - 1
<1>0. c \in 0 .. Len(s) /\ p = c + 1 /\ p - 1 = c /\ p + 1 = c + 2
  OBVIOUS
<1>. HIDE DEF c
<1>. DEFINE n == Len(s)
            a == SubSeq(s, 1, c)
            b == SubSeq(s, c + 1, n)
            z == <<e>>
            d == a \o z
            r == InsertAt(s, p, e)
<1>1. c \in Nat /\ n \in Nat /\ c <= n /\ c \in Int /\ n \in Int /\ 1 \in Int /\ c + 1 \in Int
  BY <1>0
<1>2. r = d \o b
  BY <1>0, Zenon DEF InsertAt
<1>3. (\A i \in 1 .. c : s[i] \in S) /\ \A i \in c + 1 .. n : s[i] \in S
  BY <1>1
<1>4. a \in Seq(S) /\ Len(a) = c /\ \A i \in 1 .. c : a[i] = s[i]
  <2>1. /\ a \in Seq(S) /\ Len(a) = IF 1 <= c THEN c - 1 + 1 ELSE 0
        /\ \A i \in 1 .. c - 1 + 1 : a[i] = s[1 + i - 1]
    BY <1>1, <1>3, SubSeqProperties
  <2>. HIDE DEF a
  <2>2. Len(a) = c /\ c - 1 + 1 = c /\ \A i \in 1 .. c : 1 + i - 1 = i
    BY <1>1, <2>1
  <2>. QED
    BY <2>1, <2>2
<1>5. b \in Seq(S) /\ Len(b) = n - c /\ \A i \in 1 .. n - c : b[i] = s[c + i]
  <2>1. /\ b \in Seq(S) /\ Len(b) = IF c + 1 <= n THEN n - (c + 1) + 1 ELSE 0
        /\ \A i \in 1 .. n - (c + 1) + 1 : b[i] = s[c + 1 + i - 1]
    BY <1>1, <1>3, SubSeqProperties
  <2>. HIDE DEF b
  <2>2. Len(b) = n - c /\ n - (c + 1) + 1 = n - c /\ \A i \in 1 .. n - c : c + 1 + i - 1 = c + i
    BY <1>1, <2>1
  <2>. QED
    BY <2>1, <2>2
<1>6. z \in Seq(S) /\ Len(z) = 1 /\ z[1] = e
  OBVIOUS
<1>. HIDE DEF a, b, z
<1>7. d \in Seq(S) /\ Len(d) = c + 1 /\ (\A i \in 1 .. c : d[i] = s[i]) /\ d[c + 1] = e
  <2>1. /\ d \in Seq(S) /\ Len(d) = Len(a) + Len(z)
        /\ \A i \in 1 .. Len(a) + Len(z) : d[i] = IF i <= Len(a) THEN a[i] ELSE z[i - Len(a)]
    BY <1>4, <1>6, ConcatProperties
  <2>. HIDE DEF d
  <2>. QED
    BY <1>1, <2>1, <1>4, <1>6
<1>. HIDE DEF d
<1>8. /\ d \o b \in Seq(S) /\ Len(d \o b) = Len(d) + Len(b)
      /\ \A i \in 1 .. Len(d) + Len(b) :
           (d \o b)[i] = IF i <= Len(d) THEN d[i] ELSE b[i - Len(d)]
  BY <1>5, <1>7, ConcatProperties
<1>. HIDE DEF r
<1>9. r \in Seq(S) /\ Len(r) = n + 1
  BY <1>1, <1>2, <1>5, <1>7, <1>8
<1>10. \A i \in 1 .. c + 1 : r[i] = d[i]
  BY <1>1, <1>2, <1>5, <1>7, <1>8
<1>11. \A i \in c + 2 .. n + 1 : r[i] = s[i - 1]
  <2>1. TAKE i \in c + 2 .. n + 1
  <2>2. i \in 1 .. Len(d) + Len(b) /\ ~(i <= Len(d)) /\ i - Len(d) \in 1 .. n - c
        /\ c + (i - Len(d)) = i - 1
    BY <1>1, <1>5, <1>7
  <2>3. r[i] = b[i - Len(d)]
    BY <1>2, <1>8, <2>2
  <2>4. b[i - Len(d)] = s[c + (i - Len(d))]
    BY <1>5, <2>2
  <2>. QED
    BY <2>2, <2>3, <2>4
<1>12. (\A i \in 1 .. c : r[i] = s[i]) /\ r[c + 1] = e
  BY <1>1, <1>7, <1>10
<1>. QED
  BY <1>0, <1>9, <1>11, <1>12, Zenon DEF r

(* RemoveAt takes one element out and moves those behind it by one.        *)
LEMMA RemoveAtTakes ==
  ASSUME NEW S, NEW s \in Seq(S), NEW p \in 1 .. Len(s)
  PROVE  /\ RemoveAt(s, p) \in Seq(S)
         /\ Len(RemoveAt(s, p)) = Len(s) - 1
         /\ \A i \in 1 .. Len(s) - 1 : RemoveAt(s, p)[i] = IF i < p THEN s[i] ELSE s[i + 1]
<1>. DEFINE n == Len(s)
            a == SubSeq(s, 1, p - 1)
            b == SubSeq(s, p + 1, n)
            r == RemoveAt(s, p)
<1>1. p - 1 \in Int /\ n \in Int /\ 1 \in Int /\ p + 1 \in Int
  OBVIOUS
<1>2. r = a \o b
  BY Zenon DEF RemoveAt
<1>3. (\A i \in 1 .. p - 1 : s[i] \in S) /\ \A i \in p + 1 .. n : s[i] \in S
  OBVIOUS
<1>4. a \in Seq(S) /\ Len(a) = p - 1 /\ \A i \in 1 .. p - 1 : a[i] = s[i]
  <2>1. /\ a \in Seq(S) /\ Len(a) = IF 1 <= p - 1 THEN p - 1 - 1 + 1 ELSE 0
        /\ \A i \in 1 .. p - 1 - 1 + 1 : a[i] = s[1 + i - 1]
    BY <1>1, <1>3, SubSeqProperties
  <2>. HIDE DEF a
  <2>2. Len(a) = p - 1 /\ p - 1 - 1 + 1 = p - 1 /\ \A i \in 1 .. p - 1 : 1 + i - 1 = i
    BY <2>1
  <2>. QED
    BY <2>1, <2>2
<1>5. b \in Seq(S) /\ Len(b) = n - p /\ \A i \in 1 .. n - p : b[i] = s[p + i]
  <2>1. /\ b \in Seq(S) /\ Len(b) = IF p + 1 <= n THEN n - (p + 1) + 1 ELSE 0
        /\ \A i \in 1 .. n - (p + 1) + 1 : b[i] = s[p + 1 + i - 1]
    BY <1>1, <1>3, SubSeqProperties
  <2>. HIDE DEF b
  <2>2. Len(b) = n - p /\ n - (p + 1) + 1 = n - p /\ \A i \in 1 .. n - p : p + 1 + i - 1 = p + i
    BY <2>1
  <2>. QED
    BY <2>1, <2>2
<1>. HIDE DEF a, b
<1>6. /\ a \o b \in Seq(S) /\ Len(a \o b) = Len(a) + Len(b)
      /\ \A i \in 1 .. Len(a) + Len(b) :
           (a \o b)[i] = IF i <= Len(a) THEN a[i] ELSE b[i - Len(a)]
  BY <1>4, <1>5, ConcatProperties
<1>. HIDE DEF r
<1>7. r \in Seq(S) /\ Len(r) = n - 1
  BY <1>2, <1>4, <1>5, <1>6
<1>8. \A i \in 1 .. n - 1 : r[i] = IF i < p THEN s[i] ELSE s[i + 1]
  <2>1. TAKE i \in 1 .. n - 1
  <2>2. CASE i < p
    BY <2>2, <1>2, <1>4, <1>5, <1>6
  <2>3. CASE ~(i < p)
    <3>1. i \in 1 .. Len(a) + Len(b) /\ ~(i <= Len(a)) /\ i - Len(a) \in 1 .. n - p
          /\ p + (i - Len(a)) = i + 1
      BY <2>3, <1>4, <1>5
    <3>2. r[i] = b[i - Len(a)]
      BY <1>2, <1>6, <3>1
    <3>3. b[i - Len(a)] = s[p + (i - Len(a))]
      BY <1>5, <3>1
    <3>. QED
      BY <2>3, <3>1, <3>2, <3>3
  <2>. QED
    BY <2>2, <2>3
<1>. QED
  BY <1>7, <1>8 DEF r

(* Buckets are numbers.                                                    *)
LEMMA BucketIsNat ==
  ASSUME WalkTypeOK, NEW k \in Keys
  PROVE  bucket[k] \in Nat
BY OutstandingWalkAssumption DEF WalkTypeOK

(* In a walk's order a key has one place.                                  *)
LEMMA OnePlace ==
  ASSUME NEW m \in Seq(Elements), InWalkOrder(m), NEW i \in DOMAIN m, NEW j \in DOMAIN m,
         m[i].key = m[j].key
  PROVE  i = j
<1>1. i \in Nat /\ j \in Nat
  OBVIOUS
<1>2. ~(i < j) /\ ~(j < i)
  BY DEF InWalkOrder
<1>. QED
  BY <1>1, <1>2

(* The place found for a key is the place of its element.                  *)
LEMMA PlaceOfKey ==
  ASSUME WalkTypeOK, InWalkOrder(map)
  PROVE  /\ \A i \in DOMAIN map : Position(map[i].key) = i
         /\ \A k \in Stored : Position(k) \in DOMAIN map /\ map[Position(k)].key = k
<1>1. map \in Seq(Elements)
  BY DEF WalkTypeOK
<1>2. ASSUME NEW k \in Stored
      PROVE  Position(k) \in DOMAIN map /\ map[Position(k)].key = k
  BY <1>2 DEF Stored, Position
<1>3. ASSUME NEW i \in DOMAIN map
      PROVE  Position(map[i].key) = i
  <2>1. map[i].key \in Stored
    BY DEF Stored
  <2>2. Position(map[i].key) \in DOMAIN map /\ map[Position(map[i].key)].key = map[i].key
    BY <1>2, <2>1
  <2>. QED
    BY <1>1, <2>2, OnePlace
<1>. QED
  BY <1>2, <1>3

(* An element that is inserted comes behind those of lower buckets and     *)
(* before all others, which keep their order.                              *)
LEMMA InsertedIsInOrder ==
  ASSUME WalkTypeOK, NEW m \in Seq(Elements), InWalkOrder(m), NEW e \in Elements,
         \A i \in DOMAIN m : m[i].key # e.key
  PROVE  /\ Inserted(e, m) \in Seq(Elements)
         /\ Len(Inserted(e, m)) = Len(m) + 1
         /\ \E p \in 1 .. Len(m) + 1 :
              /\ \A i \in 1 .. p - 1 :
                   Inserted(e, m)[i] = m[i] /\ bucket[m[i].key] < bucket[e.key]
              /\ Inserted(e, m)[p] = e
              /\ \A i \in p + 1 .. Len(m) + 1 :
                   Inserted(e, m)[i] = m[i - 1] /\ bucket[e.key] <= bucket[m[i - 1].key]
<1>. DEFINE n == Len(m)
            B == {i \in DOMAIN m : bucket[m[i].key] < bucket[e.key]}
            c == Cardinality(B)
            r == InsertAt(m, c + 1, e)
<1>1. n \in Nat /\ DOMAIN m = 1 .. n
  OBVIOUS
<1>2. \A i \in 1 .. n : m[i] \in Elements /\ bucket[m[i].key] \in Nat
  <2>1. \A i \in 1 .. n : m[i] \in Elements
    BY <1>1
  <2>2. \A x \in Elements : bucket[x.key] \in Nat
    BY BucketIsNat DEF Elements
  <2>. QED
    BY <2>1, <2>2, Zenon
<1>3. bucket[e.key] \in Nat
  BY BucketIsNat DEF Elements
<1>4. c \in 0 .. n /\ B = 1 .. c
  <2>1. \A i, j \in 1 .. n : i < j /\ j \in B => i \in B
    BY <1>1, <1>2, <1>3 DEF InWalkOrder
  <2>2. B \in SUBSET (1 .. n)
    BY <1>1
  <2>. HIDE DEF B
  <2>. QED
    BY <1>1, <2>1, <2>2, InitialPart
<1>5. Inserted(e, m) = r
  BY DEF Inserted
<1>. HIDE DEF c
<1>6. /\ r \in Seq(Elements) /\ Len(r) = n + 1
      /\ \A i \in 1 .. c : r[i] = m[i]
      /\ r[c + 1] = e
      /\ \A i \in c + 2 .. n + 1 : r[i] = m[i - 1]
  <2>. DEFINE p == c + 1
  <2>1. p \in 1 .. Len(m) + 1 /\ p - 1 = c /\ p + 1 = c + 2 /\ c + 1 = p
    BY <1>4
  <2>. HIDE DEF B, p
  <2>2. /\ InsertAt(m, p, e) \in Seq(Elements)
        /\ Len(InsertAt(m, p, e)) = Len(m) + 1
        /\ \A i \in 1 .. p - 1 : InsertAt(m, p, e)[i] = m[i]
        /\ InsertAt(m, p, e)[p] = e
        /\ \A i \in p + 1 .. Len(m) + 1 : InsertAt(m, p, e)[i] = m[i - 1]
    BY <2>1, InsertAtAdds
  <2>. QED
    BY <2>1, <2>2, Zenon
<1>7. \A i \in 1 .. c : bucket[m[i].key] < bucket[e.key]
  <2>1. \A i \in B : bucket[m[i].key] < bucket[e.key]
    OBVIOUS
  <2>. HIDE DEF B
  <2>. QED
    BY <1>4, <2>1
<1>8. \A i \in c + 1 .. n : bucket[e.key] <= bucket[m[i].key]
  <2>1. \A i \in c + 1 .. n : i \in DOMAIN m /\ ~(i \in B)
    BY <1>1, <1>4
  <2>. QED
    BY <1>1, <1>2, <1>3, <2>1
<1>. DEFINE p == c + 1
<1>9. p \in 1 .. Len(m) + 1 /\ p - 1 = c /\ p + 1 = c + 2
  BY <1>4
<1>10. /\ \A i \in 1 .. p - 1 : r[i] = m[i] /\ bucket[m[i].key] < bucket[e.key]
       /\ r[p] = e
       /\ \A i \in p + 1 .. Len(m) + 1 : r[i] = m[i - 1] /\ bucket[e.key] <= bucket[m[i - 1].key]
  BY <1>4, <1>6, <1>7, <1>8
<1>. HIDE DEF p, r
<1>. QED
  BY <1>5, <1>6, <1>9, <1>10

(* A map with a new element: nothing else changes its place.               *)
LEMMA MapGains ==
  ASSUME WalkTypeOK, NEW m \in Seq(Elements), InWalkOrder(m), NEW e \in Elements,
         \A i \in DOMAIN m : m[i].key # e.key,
         NEW r, r = Inserted(e, m)
  PROVE  /\ r \in Seq(Elements) /\ Len(r) = Len(m) + 1 /\ InWalkOrder(r)
         /\ \A i \in DOMAIN r : r[i] = e \/ \E a \in DOMAIN m : r[i] = m[a]
         /\ \A a \in DOMAIN m : \E i \in DOMAIN r : r[i] = m[a]
         /\ \E i \in DOMAIN r : r[i] = e
         /\ \A x, y : x # e.key /\ y # e.key /\ Ahead(r, x, y) => Ahead(m, x, y)
         /\ \A x : Ahead(r, x, e.key) => bucket[x] < bucket[e.key]
<1>. DEFINE n == Len(m)
<1>1. r \in Seq(Elements) /\ Len(r) = n + 1
  BY InsertedIsInOrder
<1>2. PICK p \in 1 .. n + 1 :
         /\ \A i \in 1 .. p - 1 : r[i] = m[i] /\ bucket[m[i].key] < bucket[e.key]
         /\ r[p] = e
         /\ \A i \in p + 1 .. n + 1 : r[i] = m[i - 1] /\ bucket[e.key] <= bucket[m[i - 1].key]
  BY InsertedIsInOrder
<1>3. n \in Nat /\ DOMAIN m = 1 .. n /\ DOMAIN r = 1 .. n + 1
  BY <1>1
<1>. HIDE DEF n
<1>. DEFINE Old(i) == IF i < p THEN i ELSE i - 1
<1>4. ASSUME NEW i \in 1 .. n + 1
      PROVE  i = p \/ i \in 1 .. p - 1 \/ i \in p + 1 .. n + 1
  BY <1>2, <1>3
<1>5. ASSUME NEW i \in 1 .. n + 1, i # p
      PROVE  Old(i) \in 1 .. n /\ r[i] = m[Old(i)]
  <2>1. CASE i \in 1 .. p - 1
    BY <2>1, <1>2, <1>3
  <2>2. CASE i \in p + 1 .. n + 1
    BY <2>2, <1>2, <1>3
  <2>. QED
    BY <2>1, <2>2, <1>4, <1>5
<1>6. ASSUME NEW i \in 1 .. n + 1, NEW j \in 1 .. n + 1, i < j, i # p, j # p
      PROVE  Old(i) < Old(j)
  BY <1>2, <1>3, <1>6
<1>7. ASSUME NEW i \in 1 .. n + 1, i < p
      PROVE  bucket[r[i].key] < bucket[e.key] /\ r[i].key # e.key
  BY <1>2, <1>3, <1>7
<1>8. ASSUME NEW i \in 1 .. n + 1, i > p
      PROVE  bucket[e.key] <= bucket[r[i].key] /\ r[i].key # e.key
  <2>1. i \in p + 1 .. n + 1 /\ i - 1 \in DOMAIN m
    BY <1>2, <1>3, <1>8
  <2>. QED
    BY <1>2, <2>1
<1>9. bucket[e.key] \in Nat /\ \A i \in 1 .. n + 1 : r[i] \in Elements /\ bucket[r[i].key] \in Nat
  <2>1. \A x \in Elements : bucket[x.key] \in Nat
    BY BucketIsNat DEF Elements
  <2>2. \A i \in 1 .. n + 1 : r[i] \in Elements
    BY <1>1, <1>3
  <2>. QED
    BY <2>1, <2>2
<1>. HIDE DEF Old
<1>10. InWalkOrder(r)
  <2>1. ASSUME NEW i \in 1 .. n + 1, NEW j \in 1 .. n + 1, i < j
        PROVE  r[i].key # r[j].key /\ bucket[r[i].key] <= bucket[r[j].key]
    <3>1. CASE i = p
      BY <3>1, <2>1, <1>2, <1>8
    <3>2. CASE j = p
      BY <3>2, <2>1, <1>2, <1>7, <1>9
    <3>3. CASE i # p /\ j # p
      <4>1. Old(i) \in DOMAIN m /\ Old(j) \in DOMAIN m /\ Old(i) < Old(j)
        BY <1>3, <1>5, <1>6, <2>1, <3>3
      <4>2. m[Old(i)].key # m[Old(j)].key /\ bucket[m[Old(i)].key] <= bucket[m[Old(j)].key]
        BY <4>1 DEF InWalkOrder
      <4>. QED
        BY <1>5, <3>3, <4>2
    <3>. QED
      BY <3>1, <3>2, <3>3
  <2>. QED
    BY <2>1, <1>3 DEF InWalkOrder
<1>11. \A i \in DOMAIN r : r[i] = e \/ \E a \in DOMAIN m : r[i] = m[a]
  BY <1>2, <1>3, <1>5
<1>12. ASSUME NEW a \in DOMAIN m PROVE \E i \in DOMAIN r : r[i] = m[a]
  <2>1. CASE a < p
    <3>1. a \in 1 .. p - 1 /\ a \in DOMAIN r
      BY <1>3, <2>1
    <3>. QED
      BY <1>2, <3>1
  <2>2. CASE ~(a < p)
    <3>1. a + 1 \in p + 1 .. n + 1 /\ a + 1 \in DOMAIN r /\ (a + 1) - 1 = a
      BY <1>3, <2>2
    <3>. QED
      BY <1>2, <3>1
  <2>. QED
    BY <2>1, <2>2
<1>13. ASSUME NEW x, NEW y, x # e.key, y # e.key, Ahead(r, x, y)
       PROVE  Ahead(m, x, y)
  <2>1. PICK i \in DOMAIN r, j \in DOMAIN r : i < j /\ r[i].key = x /\ r[j].key = y
    BY <1>13 DEF Ahead
  <2>2. i # p /\ j # p
    BY <1>13, <2>1, <1>2
  <2>3. Old(i) \in DOMAIN m /\ Old(j) \in DOMAIN m /\ Old(i) < Old(j)
    BY <1>3, <1>5, <1>6, <2>1, <2>2
  <2>4. m[Old(i)].key = x /\ m[Old(j)].key = y
    BY <1>3, <1>5, <2>1, <2>2
  <2>. QED
    BY <2>3, <2>4 DEF Ahead
<1>14. ASSUME NEW x, Ahead(r, x, e.key) PROVE bucket[x] < bucket[e.key]
  <2>1. PICK i \in DOMAIN r, j \in DOMAIN r : i < j /\ r[i].key = x /\ r[j].key = e.key
    BY <1>14 DEF Ahead
  <2>2. j = p
    BY <1>1, <1>2, <1>3, <1>10, <2>1, OnePlace
  <2>. QED
    BY <1>3, <1>7, <2>1, <2>2
<1>15. \E i \in DOMAIN r : r[i] = e
  BY <1>2, <1>3
<1>. QED
  BY <1>1, <1>10, <1>11, <1>12, <1>13, <1>14, <1>15 DEF n

(* The map without a key: nothing else changes its place.                  *)
LEMMA MapLoses ==
  ASSUME WalkTypeOK, InWalkOrder(map), NEW k, NEW r, r = Without(k)
  PROVE  /\ r \in Seq(Elements) /\ Len(r) <= MapSize /\ InWalkOrder(r)
         /\ \A i \in DOMAIN r : r[i].key # k /\ \E a \in DOMAIN map : r[i] = map[a]
         /\ \A a \in DOMAIN map : map[a].key # k => \E i \in DOMAIN r : r[i] = map[a]
         /\ \A x, y : Ahead(r, x, y) => Ahead(map, x, y)
<1>. DEFINE n == Len(map)
<1>1. map \in Seq(Elements) /\ n <= MapSize /\ n \in Nat /\ DOMAIN map = 1 .. n
  BY DEF WalkTypeOK
<1>2. CASE k \notin Stored
  <2>1. r = map
    BY <1>2 DEF Without
  <2>2. \A i \in DOMAIN map : map[i].key # k
    BY <1>2 DEF Stored
  <2>. QED
    BY <1>1, <2>1, <2>2
<1>3. CASE k \in Stored
  <2>. DEFINE p == Position(k)
              At(i) == IF i < p THEN i ELSE i + 1
  <2>1. p \in 1 .. n /\ map[p].key = k
    BY <1>1, <1>3, PlaceOfKey
  <2>2. r = RemoveAt(map, p)
    BY <1>3 DEF Without
  <2>. HIDE DEF p
  <2>3. /\ r \in Seq(Elements) /\ Len(r) = n - 1
        /\ \A i \in 1 .. n - 1 : r[i] = IF i < p THEN map[i] ELSE map[i + 1]
    BY <1>1, <2>1, <2>2, RemoveAtTakes
  <2>. HIDE DEF n
  <2>4. DOMAIN r = 1 .. n - 1
    BY <1>1, <2>3
  <2>5. ASSUME NEW i \in 1 .. n - 1
        PROVE  At(i) \in 1 .. n /\ At(i) # p /\ r[i] = map[At(i)]
    BY <1>1, <2>1, <2>3
  <2>6. ASSUME NEW i \in 1 .. n - 1, NEW j \in 1 .. n - 1, i < j
        PROVE  At(i) < At(j)
    BY <1>1, <2>1, <2>6
  <2>7. ASSUME NEW a \in 1 .. n, a # p
        PROVE  \E i \in 1 .. n - 1 : r[i] = map[a]
    <3>1. CASE a < p
      <4>1. a \in 1 .. n - 1
        BY <1>1, <2>1, <3>1
      <4>. QED
        BY <2>3, <3>1, <4>1
    <3>2. CASE ~(a < p)
      <4>1. a - 1 \in 1 .. n - 1 /\ ~(a - 1 < p) /\ (a - 1) + 1 = a
        BY <1>1, <2>1, <2>7, <3>2
      <4>. QED
        BY <2>3, <4>1
    <3>. QED
      BY <3>1, <3>2
  <2>. HIDE DEF At
  <2>8. InWalkOrder(r)
    <3>1. ASSUME NEW i \in 1 .. n - 1, NEW j \in 1 .. n - 1, i < j
          PROVE  r[i].key # r[j].key /\ bucket[r[i].key] <= bucket[r[j].key]
      <4>1. At(i) \in DOMAIN map /\ At(j) \in DOMAIN map /\ At(i) < At(j)
        BY <1>1, <2>5, <2>6, <3>1
      <4>2. map[At(i)].key # map[At(j)].key /\ bucket[map[At(i)].key] <= bucket[map[At(j)].key]
        BY <4>1 DEF InWalkOrder
      <4>. QED
        BY <2>5, <4>2
    <3>. QED
      BY <2>4, <3>1 DEF InWalkOrder
  <2>9. \A i \in DOMAIN r : r[i].key # k /\ \E a \in DOMAIN map : r[i] = map[a]
    <3>1. TAKE i \in DOMAIN r
    <3>2. At(i) \in DOMAIN map /\ At(i) # p /\ r[i] = map[At(i)]
      BY <1>1, <2>4, <2>5
    <3>3. map[At(i)].key # k
      BY <1>1, <2>1, <3>2, OnePlace
    <3>. QED
      BY <3>2, <3>3
  <2>10. \A a \in DOMAIN map : map[a].key # k => \E i \in DOMAIN r : r[i] = map[a]
    BY <1>1, <2>1, <2>4, <2>7
  <2>11. ASSUME NEW x, NEW y, Ahead(r, x, y) PROVE Ahead(map, x, y)
    <3>1. PICK i \in DOMAIN r, j \in DOMAIN r : i < j /\ r[i].key = x /\ r[j].key = y
      BY <2>11 DEF Ahead
    <3>2. At(i) \in DOMAIN map /\ At(j) \in DOMAIN map /\ At(i) < At(j)
      BY <1>1, <2>4, <2>5, <2>6, <3>1
    <3>3. map[At(i)].key = x /\ map[At(j)].key = y
      BY <2>4, <2>5, <3>1
    <3>. QED
      BY <3>2, <3>3 DEF Ahead
  <2>12. Len(r) <= MapSize
    BY <1>1, <2>1, <2>3, OutstandingWalkAssumption
  <2>. QED
    BY <2>3, <2>8, <2>9, <2>10, <2>11, <2>12
<1>. QED
  BY <1>2, <1>3

-----------------------------------------------------------------------------
(* Sums *)

(* Sizes of elements are numbers.                                          *)
LEMMA SizeIsNat == \A e \in Elements : e.size \in Nat
<1>1. Sizes \subseteq Nat
  BY OutstandingWalkAssumption
<1>2. \A e \in Elements : e.size \in Sizes
  BY DEF Elements
<1>. QED
  BY <1>1, <1>2

(* The sum of a prefix follows from that of the one before it.             *)
SumsUp(f, s, P) ==
  /\ f \in [0 .. Len(s) -> Nat]
  /\ f[0] = 0
  /\ \A k \in 1 .. Len(s) : f[k] = f[k - 1] + IF k \in P THEN s[k].size ELSE 0

(* Only one function does, and Sum is its last value.                      *)
LEMMA SumIsThat ==
  ASSUME NEW s \in Seq(Elements), NEW P, NEW f, SumsUp(f, s, P)
  PROVE  Sum(s, P) = f[Len(s)]
<1>. DEFINE n == Len(s)
            V(k) == IF k \in P THEN s[k].size ELSE 0
            F(g) == [k \in 0 .. n |-> IF k = 0 THEN 0 ELSE g[k - 1] + V(k)]
            o == CHOOSE g : g = F(g)
<1>1. n \in Nat
  OBVIOUS
<1>2. /\ f \in [0 .. n -> Nat] /\ f[0] = 0
      /\ \A k \in 1 .. n : f[k] = f[k - 1] + V(k)
  BY DEF SumsUp
<1>3. Sum(s, P) = o[n]
  BY Zenon DEF Sum
<1>. HIDE DEF V, n
<1>4. f = F(f)
  <2>1. \A k \in 0 .. n : k = 0 \/ k \in 1 .. n
    BY <1>1
  <2>2. \A k \in 0 .. n : f[k] = F(f)[k]
    BY <1>2, <2>1
  <2>3. DOMAIN f = 0 .. n /\ f = [k \in 0 .. n |-> f[k]]
    BY <1>2
  <2>. QED
    BY <2>2, <2>3
<1>5. o = F(o)
  <2>. HIDE DEF F
  <2>. QED
    BY <1>4, Zenon
<1>6. \A k \in 0 .. n : o[k] = IF k = 0 THEN 0 ELSE o[k - 1] + V(k)
  <2>. HIDE DEF o
  <2>1. \A k \in 0 .. n : F(o)[k] = IF k = 0 THEN 0 ELSE o[k - 1] + V(k)
    OBVIOUS
  <2>. HIDE DEF F
  <2>. QED
    BY <1>5, <2>1, Zenon
<1>. HIDE DEF o
<1>7. 0 .. n \subseteq {k \in 0 .. n : o[k] = f[k]}
  <2>. DEFINE T == {k \in 0 .. n : o[k] = f[k]}
  <2>1. 0 \in T
    BY <1>1, <1>2, <1>6
  <2>2. \A k \in 0 .. n - 1 : k \in T => k + 1 \in T
    <3>1. TAKE k \in 0 .. n - 1
    <3>2. HAVE k \in T
    <3>3. k + 1 \in 1 .. n /\ k + 1 \in 0 .. n /\ k + 1 # 0 /\ (k + 1) - 1 = k /\ o[k] = f[k]
      BY <1>1, <3>2
    <3>4. o[k + 1] = o[k] + V(k + 1) /\ f[k + 1] = f[k] + V(k + 1)
      BY <1>2, <1>6, <3>3
    <3>. QED
      BY <3>3, <3>4
  <2>. HIDE DEF T
  <2>3. 0 .. n \subseteq T
    BY <1>1, <2>1, <2>2, RangeInduction
  <2>. QED
    BY <2>3 DEF T
<1>8. o[n] = f[n]
  BY <1>1, <1>7
<1>. QED
  BY <1>3, <1>8 DEF n

(* And one does.                                                           *)
LEMMA SumsExist ==
  ASSUME NEW s \in Seq(Elements), NEW P
  PROVE  \E f : SumsUp(f, s, P)
<1>. DEFINE n == Len(s)
            V(k) == IF k \in P THEN s[k].size ELSE 0
            Fits(f, m) == /\ f \in [0 .. m -> Nat] /\ f[0] = 0
                          /\ \A k \in 1 .. m : f[k] = f[k - 1] + V(k)
            T == {m \in 0 .. n : \E f : Fits(f, m)}
<1>1. n \in Nat /\ \A k \in 1 .. n : V(k) \in Nat
  <2>1. \A k \in 1 .. n : s[k] \in Elements
    OBVIOUS
  <2>. QED
    BY <2>1, SizeIsNat
<1>. HIDE DEF V, n
<1>2. \E f : Fits(f, 0)
  <2>. DEFINE z == [k \in 0 .. 0 |-> 0]
  <2>1. Fits(z, 0)
    OBVIOUS
  <2>. HIDE DEF z
  <2>. QED
    BY <2>1
<1>3. ASSUME NEW m \in 0 .. n - 1, NEW f, Fits(f, m) PROVE \E g : Fits(g, m + 1)
  <2>. DEFINE g == [k \in 0 .. m + 1 |-> IF k = m + 1 THEN f[m] + V(m + 1) ELSE f[k]]
  <2>1. m \in Nat /\ V(m + 1) \in Nat /\ f[m] \in Nat
    BY <1>1, <1>3
  <2>2. \A k \in 0 .. m + 1 : k = m + 1 \/ k \in 0 .. m
    BY <2>1
  <2>3. g \in [0 .. m + 1 -> Nat] /\ g[0] = 0
    <3>1. \A k \in 0 .. m + 1 : g[k] \in Nat
      BY <1>3, <2>1, <2>2
    <3>. QED
      BY <1>3, <2>1, <3>1
  <2>4. \A k \in 1 .. m + 1 : g[k] = g[k - 1] + V(k)
    <3>1. TAKE k \in 1 .. m + 1
    <3>2. CASE k = m + 1
      BY <2>1, <3>2
    <3>3. CASE k \in 1 .. m
      BY <1>3, <2>1, <3>3
    <3>. QED
      BY <2>1, <3>2, <3>3
  <2>. HIDE DEF g
  <2>. QED
    BY <2>3, <2>4
<1>. HIDE DEF Fits
<1>4. 0 \in T /\ \A k \in 0 .. n - 1 : k \in T => k + 1 \in T
  BY <1>1, <1>2, <1>3
<1>. HIDE DEF T
<1>5. 0 .. n \subseteq T
  BY <1>1, <1>4, RangeInduction
<1>6. n \in T
  BY <1>1, <1>5
<1>7. PICK f : Fits(f, n)
  BY <1>6 DEF T
<1>. QED
  BY <1>7 DEF Fits, SumsUp, V, n

(* Nothing adds up to nothing.                                             *)
LEMMA SumOfNone ==
  ASSUME NEW s \in Seq(Elements), NEW P, \A k \in DOMAIN s : k \notin P
  PROVE  Sum(s, P) = 0
<1>. DEFINE z == [k \in 0 .. Len(s) |-> 0]
<1>1. Len(s) \in Nat /\ DOMAIN s = 1 .. Len(s)
  OBVIOUS
<1>2. SumsUp(z, s, P) /\ z[Len(s)] = 0
  BY <1>1 DEF SumsUp
<1>. HIDE DEF z
<1>. QED
  BY <1>2, SumIsThat

(* An element that is appended adds its size if its position counts.       *)
LEMMA SumOfAppend ==
  ASSUME NEW s \in Seq(Elements), NEW e \in Elements, NEW P, NEW Q,
         \A k \in DOMAIN s : k \in Q <=> k \in P
  PROVE  Sum(Append(s, e), Q) = Sum(s, P) + IF Len(s) + 1 \in Q THEN e.size ELSE 0
<1>. DEFINE n == Len(s)
            d == IF n + 1 \in Q THEN e.size ELSE 0
<1>1. n \in Nat /\ DOMAIN s = 1 .. n /\ d \in Nat
  BY SizeIsNat
<1>2. PICK f : SumsUp(f, s, P)
  BY SumsExist
<1>3. /\ f \in [0 .. n -> Nat] /\ f[0] = 0
      /\ \A k \in 1 .. n : f[k] = f[k - 1] + IF k \in P THEN s[k].size ELSE 0
  BY <1>2 DEF SumsUp
<1>. DEFINE r == Append(s, e)
            g == [k \in 0 .. n + 1 |-> IF k = n + 1 THEN f[n] + d ELSE f[k]]
<1>4. /\ r \in Seq(Elements) /\ Len(r) = n + 1 /\ r[n + 1] = e
      /\ \A k \in 1 .. n : r[k] = s[k]
  OBVIOUS
<1>. HIDE DEF n, r
<1>5. g \in [0 .. n + 1 -> Nat] /\ g[0] = 0 /\ g[n + 1] = f[n] + d
  <2>1. \A k \in 0 .. n + 1 : k = n + 1 \/ k \in 0 .. n
    BY <1>1
  <2>2. \A k \in 0 .. n + 1 : g[k] \in Nat
    BY <1>1, <1>3, <2>1
  <2>. QED
    BY <1>1, <1>3, <2>2
<1>6. \A k \in 1 .. n + 1 : g[k] = g[k - 1] + IF k \in Q THEN r[k].size ELSE 0
  <2>1. TAKE k \in 1 .. n + 1
  <2>2. CASE k = n + 1
    <3>1. g[k] = f[n] + d /\ g[k - 1] = f[n] /\ r[k] = e
      BY <1>1, <1>4, <2>2
    <3>. QED
      BY <2>2, <3>1
  <2>3. CASE k \in 1 .. n
    <3>1. g[k] = f[k] /\ g[k - 1] = f[k - 1] /\ r[k] = s[k] /\ (k \in Q <=> k \in P)
      BY <1>1, <1>4, <2>3
    <3>. QED
      BY <1>3, <2>3, <3>1
  <2>. QED
    BY <1>1, <2>2, <2>3
<1>. HIDE DEF g
<1>7. SumsUp(g, r, Q)
  BY <1>4, <1>5, <1>6 DEF SumsUp
<1>8. Sum(r, Q) = f[n] + d
  BY <1>4, <1>5, <1>7, SumIsThat
<1>9. Sum(s, P) = f[n]
  BY <1>2, SumIsThat DEF n
<1>. QED
  BY <1>8, <1>9 DEF n, r

-----------------------------------------------------------------------------
(* The probes *)

(* What a probe stores is an element of the map it stores it in.           *)
LEMMA StorableIsKeyed ==
  ASSUME WalkTypeOK, NEW e \in Storable
  PROVE  e \in Elements /\ Keyed(e)
<1>1. 0 \in 0 .. MaxTime /\ now \in 0 .. MaxTime
  BY OutstandingWalkAssumption DEF WalkTypeOK
<1>2. CASE kind = "each"
  BY <1>1, <1>2 DEF Storable, Elements, Keyed, Keys
<1>3. CASE kind # "each"
  BY <1>1, <1>3 DEF Storable, Elements, Keyed, Keys
<1>. QED
  BY <1>2, <1>3

(* What the walk is through with it stays through with.                    *)
LEMMA HandledStays ==
  ASSUME settings' = settings, log' = log, NEW e
  PROVE  Handled(e)' <=> Handled(e)
BY DEF settings, Handled, OldEnough, KeysIn, Range

(* What the probes change is the map; the walk's own state stays.          *)
LEMMA ProbesLeaveRest ==
  ASSUME WInv, UNCHANGED mapRest
  PROVE  /\ WalkIsSomewhere' /\ CountedIsSound' /\ CountedHasTotal' /\ TotalsAddUp'
         /\ settings' = settings /\ stage' = stage /\ prev' = prev /\ curr' = curr
         /\ log' = log /\ result' = result /\ allocs' = allocs /\ shown' = shown
         /\ kind' = kind /\ showAllocs' = showAllocs /\ bucket' = bucket /\ now' = now
         /\ skipped' = skipped
<1>1. /\ settings' = settings /\ stage' = stage /\ prev' = prev /\ curr' = curr
      /\ log' = log /\ result' = result /\ allocs' = allocs /\ shown' = shown
  BY DEF mapRest, outputVars
<1>2. /\ kind' = kind /\ showAllocs' = showAllocs /\ bucket' = bucket /\ now' = now
      /\ skipped' = skipped
  BY <1>1 DEF settings
<1>3. WalkIsSomewhere'
  BY <1>1 DEF WInv, WalkIsSomewhere
<1>4. CountedIsSound'
  BY <1>1, <1>2 DEF WInv, CountedIsSound, Keyed, Counts, TooYoung
<1>5. CountedHasTotal'
  BY <1>1, <1>2 DEF WInv, CountedHasTotal
<1>6. TotalsAddUp'
  BY <1>1, <1>2 DEF WInv, TotalsAddUp, BlocksOf
<1>. QED
  BY <1>1, <1>2, <1>3, <1>4, <1>5, <1>6

(* A probe stores an element, over an old one of its key if there is one.  *)
LEMMA StoreKeepsWInv ==
  ASSUME WInv, NEW e \in Storable, Store(e)
  PROVE  WInv'
<1>. DEFINE k == e.key
            m == Without(k)
<1>1. /\ WalkTypeOK /\ InWalkOrder(map) /\ MapIsOrdered
      /\ CountedIsBehind /\ CountedOnce /\ RestIsToCome
  BY DEF WInv, MapIsOrdered
<1>2. e \in Elements /\ Keyed(e) /\ k \in Keys
  BY <1>1, StorableIsKeyed DEF Elements
<1>3. /\ Walking /\ changes < MaxChanges /\ (kind = "combined" => k \notin Stored)
      /\ Len(m) < MapSize /\ map' = Inserted(e, m)
      /\ stayed' = {s \in stayed : s.key # k}
      /\ (disturbed' <=> (disturbed \/ k \in Stored))
      /\ changes' = changes + 1 /\ UNCHANGED mapRest
  BY DEF Store
<1>4. /\ m \in Seq(Elements) /\ InWalkOrder(m)
      /\ \A i \in DOMAIN m : m[i].key # k /\ \E a \in DOMAIN map : m[i] = map[a]
      /\ \A a \in DOMAIN map : map[a].key # k => \E i \in DOMAIN m : m[i] = map[a]
      /\ \A x, y : Ahead(m, x, y) => Ahead(map, x, y)
  BY <1>1, MapLoses
<1>. HIDE DEF m
<1>5. \A i \in DOMAIN m : m[i].key # e.key
  BY <1>4
<1>. DEFINE r == Inserted(e, m)
<1>6. /\ r \in Seq(Elements) /\ Len(r) = Len(m) + 1 /\ InWalkOrder(r)
      /\ \A i \in DOMAIN r : r[i] = e \/ \E a \in DOMAIN m : r[i] = m[a]
      /\ \A a \in DOMAIN m : \E i \in DOMAIN r : r[i] = m[a]
      /\ \E i \in DOMAIN r : r[i] = e
      /\ \A x, y : x # e.key /\ y # e.key /\ Ahead(r, x, y) => Ahead(m, x, y)
      /\ \A x : Ahead(r, x, e.key) => bucket[x] < bucket[e.key]
  BY <1>1, <1>2, <1>4, <1>5, MapGains
<1>7. map' = r
  BY <1>3
<1>. HIDE DEF r
<1>8. /\ WalkIsSomewhere' /\ CountedIsSound' /\ CountedHasTotal' /\ TotalsAddUp'
      /\ settings' = settings /\ stage' = stage /\ prev' = prev /\ curr' = curr
      /\ log' = log /\ result' = result /\ allocs' = allocs /\ shown' = shown
      /\ kind' = kind /\ showAllocs' = showAllocs /\ bucket' = bucket /\ now' = now
      /\ skipped' = skipped
  BY <1>3, ProbesLeaveRest
<1>9. /\ \A i \in DOMAIN r : r[i] = e \/ \E a \in DOMAIN map : r[i] = map[a]
      /\ \A a \in DOMAIN map : map[a].key # k => \E i \in DOMAIN r : r[i] = map[a]
      /\ \A x, y : x # k /\ y # k /\ Ahead(r, x, y) => Ahead(map, x, y)
      /\ \A x : Ahead(r, x, k) => bucket[x] < bucket[k]
  <2>1. ASSUME NEW i \in DOMAIN r PROVE r[i] = e \/ \E a \in DOMAIN map : r[i] = map[a]
    BY <1>4, <1>6
  <2>2. ASSUME NEW a \in DOMAIN map, map[a].key # k PROVE \E i \in DOMAIN r : r[i] = map[a]
    BY <1>4, <1>6, <2>2
  <2>. QED
    BY <1>4, <1>6, <2>1, <2>2
<1>10. WalkTypeOK'
  <2>1. map' \in Seq(Elements) /\ Len(map') <= MapSize
    BY <1>3, <1>4, <1>6, <1>7, OutstandingWalkAssumption
  <2>2. stayed' \subseteq Elements
    BY <1>1, <1>3 DEF WalkTypeOK
  <2>3. disturbed' \in BOOLEAN
    BY <1>1, <1>3 DEF WalkTypeOK, Store
  <2>4. changes' \in 0 .. MaxChanges
    BY <1>1, <1>3, OutstandingWalkAssumption DEF WalkTypeOK
  <2>. QED
    BY <1>1, <1>8, <2>1, <2>2, <2>3, <2>4 DEF WalkTypeOK
<1>11. MapIsOrdered'
  <2>1. InWalkOrder(map)'
    BY <1>6, <1>7, <1>8 DEF InWalkOrder
  <2>2. (\A i \in DOMAIN map : Keyed(map[i]))'
    <3>1. \A i \in DOMAIN r : Keyed(r[i])
      BY <1>1, <1>2, <1>9 DEF MapIsOrdered
    <3>. QED
      BY <1>7, <1>8, <3>1 DEF Keyed
  <2>3. (stayed \subseteq Range(map))'
    <3>1. ASSUME NEW s \in stayed' PROVE \E i \in DOMAIN r : r[i] = s
      <4>1. s \in stayed /\ s.key # k
        BY <1>3
      <4>2. PICK a \in DOMAIN map : map[a] = s
        BY <1>1, <4>1 DEF MapIsOrdered, Range
      <4>. QED
        BY <1>9, <4>1, <4>2
    <3>. QED
      BY <1>7, <3>1 DEF Range
  <2>4. (kind = "combined" => ~disturbed)'
    BY <1>1, <1>3, <1>8 DEF MapIsOrdered
  <2>. QED
    BY <2>1, <2>2, <2>3, <2>4 DEF MapIsOrdered
<1>12. RestIsToCome'
  <2>1. SUFFICES ASSUME NEW s \in stayed', ~Handled(s)'
        PROVE  \/ stage' = "next" /\ s.key # prev' /\ bucket'[prev'] <= bucket'[s.key]
                  /\ ~Ahead(map', s.key, prev')
               \/ stage' = "lookup" /\ bucket'[curr'] <= bucket'[s.key]
                  /\ ~Ahead(map', s.key, curr')
    BY DEF RestIsToCome, Ahead
  <2>2. s \in stayed /\ s.key # k
    BY <1>3
  <2>3. ~Handled(s)
    BY <1>8, <2>1, HandledStays
  <2>4. \/ stage = "next" /\ s.key # prev /\ bucket[prev] <= bucket[s.key]
           /\ ~Ahead(map, s.key, prev)
        \/ stage = "lookup" /\ bucket[curr] <= bucket[s.key] /\ ~Ahead(map, s.key, curr)
    BY <1>1, <1>3, <2>2, <2>3 DEF RestIsToCome, Walking
  <2>5. s.key \in Keys /\ bucket[s.key] \in Nat /\ bucket[k] \in Nat
    BY <1>1, <1>2, <2>2, BucketIsNat DEF WalkTypeOK, Elements
  <2>6. ASSUME NEW y, bucket[y] <= bucket[s.key], ~Ahead(map, s.key, y)
        PROVE  ~Ahead(r, s.key, y)
    <3>1. CASE y = k
      BY <1>9, <2>5, <2>6, <3>1
    <3>2. CASE y # k
      BY <1>9, <2>2, <2>6, <3>2
    <3>. QED
      BY <3>1, <3>2
  <2>. QED
    BY <1>7, <1>8, <2>4, <2>6
<1>13. CountedIsBehind'
  <2>. SUFFICES ASSUME ~disturbed' PROVE CountedIsBehind'
    BY DEF CountedIsBehind
  <2>1. ~disturbed /\ k \notin Stored
    BY <1>3
  <2>2. \A x \in Stored : x \in Stored' /\ x # k
    <3>1. TAKE x \in Stored
    <3>2. PICK a \in DOMAIN map : map[a].key = x
      BY DEF Stored
    <3>3. x # k
      BY <2>1
    <3>4. PICK i \in DOMAIN r : r[i] = map[a]
      BY <1>9, <3>2, <3>3
    <3>. QED
      BY <1>7, <3>2, <3>3, <3>4 DEF Stored
  <2>3. \A x, y \in Stored : ~Ahead(map, x, y) => ~Ahead(r, x, y)
    BY <1>9, <2>2
  <2>4. /\ stage = "next" => prev \in Stored
        /\ stage = "lookup" => curr \in Stored
        /\ \A l \in DOMAIN log :
             /\ log[l].key \in Stored
             /\ stage = "next" => ~Ahead(map, prev, log[l].key)
             /\ stage = "lookup" => log[l].key # curr /\ ~Ahead(map, curr, log[l].key)
    BY <1>1, <2>1 DEF CountedIsBehind
  <2>5. /\ stage = "next" => prev \in Stored'
        /\ stage = "lookup" => curr \in Stored'
        /\ \A l \in DOMAIN log :
             /\ log[l].key \in Stored'
             /\ stage = "next" => ~Ahead(r, prev, log[l].key)
             /\ stage = "lookup" => log[l].key # curr /\ ~Ahead(r, curr, log[l].key)
    BY <2>2, <2>3, <2>4
  <2>. QED
    BY <1>7, <1>8, <2>5 DEF CountedIsBehind, Ahead
<1>14. CountedOnce'
  BY <1>1, <1>3, <1>8 DEF CountedOnce
<1>. QED
  BY <1>8, <1>10, <1>11, <1>12, <1>13, <1>14 DEF WInv

(* A probe deletes an element: the walk may start over, but what is to     *)
(* come stays to come.                                                     *)
LEMMA DeleteKeepsWInv ==
  ASSUME WInv, NEW k, Delete(k)
  PROVE  WInv'
<1>1. /\ WalkTypeOK /\ InWalkOrder(map) /\ MapIsOrdered
      /\ CountedIsBehind /\ CountedOnce /\ RestIsToCome
  BY DEF WInv, MapIsOrdered
<1>. DEFINE r == Without(k)
<1>2. /\ Walking /\ changes < MaxChanges /\ kind = "each"
      /\ map' = r
      /\ stayed' = {s \in stayed : s.key # k}
      /\ disturbed' = TRUE
      /\ changes' = changes + 1 /\ UNCHANGED mapRest
  BY DEF Delete
<1>3. /\ r \in Seq(Elements) /\ Len(r) <= MapSize /\ InWalkOrder(r)
      /\ \A i \in DOMAIN r : r[i].key # k /\ \E a \in DOMAIN map : r[i] = map[a]
      /\ \A a \in DOMAIN map : map[a].key # k => \E i \in DOMAIN r : r[i] = map[a]
      /\ \A x, y : Ahead(r, x, y) => Ahead(map, x, y)
  BY <1>1, MapLoses
<1>. HIDE DEF r
<1>4. /\ WalkIsSomewhere' /\ CountedIsSound' /\ CountedHasTotal' /\ TotalsAddUp'
      /\ settings' = settings /\ stage' = stage /\ prev' = prev /\ curr' = curr
      /\ log' = log /\ result' = result /\ allocs' = allocs /\ shown' = shown
      /\ kind' = kind /\ showAllocs' = showAllocs /\ bucket' = bucket /\ now' = now
      /\ skipped' = skipped
  BY <1>2, ProbesLeaveRest
<1>5. WalkTypeOK'
  <2>1. stayed' \subseteq Elements
    BY <1>1, <1>2 DEF WalkTypeOK
  <2>2. changes' \in 0 .. MaxChanges
    BY <1>1, <1>2, OutstandingWalkAssumption DEF WalkTypeOK
  <2>. QED
    BY <1>1, <1>2, <1>3, <1>4, <2>1, <2>2 DEF WalkTypeOK
<1>6. MapIsOrdered'
  <2>1. InWalkOrder(map)'
    BY <1>2, <1>3, <1>4 DEF InWalkOrder
  <2>2. (\A i \in DOMAIN map : Keyed(map[i]))'
    <3>1. \A i \in DOMAIN r : Keyed(r[i])
      BY <1>1, <1>3 DEF MapIsOrdered
    <3>. QED
      BY <1>2, <1>4, <3>1 DEF Keyed
  <2>3. (stayed \subseteq Range(map))'
    <3>1. ASSUME NEW s \in stayed' PROVE \E i \in DOMAIN r : r[i] = s
      <4>1. s \in stayed /\ s.key # k
        BY <1>2
      <4>2. PICK a \in DOMAIN map : map[a] = s
        BY <1>1, <4>1 DEF MapIsOrdered, Range
      <4>. QED
        BY <1>3, <4>1, <4>2
    <3>. QED
      BY <1>2, <3>1 DEF Range
  <2>4. (kind = "combined" => ~disturbed)'
    BY <1>2, <1>4
  <2>. QED
    BY <2>1, <2>2, <2>3, <2>4 DEF MapIsOrdered
<1>7. RestIsToCome'
  <2>1. SUFFICES ASSUME NEW s \in stayed', ~Handled(s)'
        PROVE  \/ stage' = "next" /\ s.key # prev' /\ bucket'[prev'] <= bucket'[s.key]
                  /\ ~Ahead(map', s.key, prev')
               \/ stage' = "lookup" /\ bucket'[curr'] <= bucket'[s.key]
                  /\ ~Ahead(map', s.key, curr')
    BY DEF RestIsToCome, Ahead
  <2>2. s \in stayed
    BY <1>2
  <2>3. ~Handled(s)
    BY <1>4, <2>1, HandledStays
  <2>4. \/ stage = "next" /\ s.key # prev /\ bucket[prev] <= bucket[s.key]
           /\ ~Ahead(map, s.key, prev)
        \/ stage = "lookup" /\ bucket[curr] <= bucket[s.key] /\ ~Ahead(map, s.key, curr)
    BY <1>1, <1>2, <2>2, <2>3 DEF RestIsToCome, Walking
  <2>. QED
    BY <1>2, <1>3, <1>4, <2>4
<1>8. CountedIsBehind' /\ CountedOnce'
  BY <1>2 DEF CountedIsBehind, CountedOnce
<1>. QED
  BY <1>4, <1>5, <1>6, <1>7, <1>8 DEF WInv

(* A probe changes the totals of a stack in place.                         *)
LEMMA CountKeepsWInv ==
  ASSUME WInv, NEW e \in Storable, Count(e)
  PROVE  WInv'
<1>. DEFINE k == e.key
            p == Position(k)
<1>1. /\ WalkTypeOK /\ InWalkOrder(map) /\ MapIsOrdered
      /\ CountedIsBehind /\ CountedOnce /\ RestIsToCome
  BY DEF WInv, MapIsOrdered
<1>2. e \in Elements /\ Keyed(e)
  BY <1>1, StorableIsKeyed
<1>3. /\ Walking /\ changes < MaxChanges /\ kind = "combined" /\ k \in Stored
      /\ map' = [map EXCEPT ![p] = e]
      /\ stayed' = {IF s.key = k THEN e ELSE s : s \in stayed}
      /\ changes' = changes + 1 /\ UNCHANGED mapRest /\ disturbed' = disturbed
  BY DEF Count
<1>4. p \in DOMAIN map /\ map[p].key = k
  BY <1>1, <1>3, PlaceOfKey
<1>. HIDE DEF p
<1>5. map \in Seq(Elements) /\ Len(map) <= MapSize
  BY <1>1 DEF WalkTypeOK
<1>6. /\ map' \in Seq(Elements) /\ Len(map') = Len(map) /\ DOMAIN map' = DOMAIN map
      /\ map'[p] = e
      /\ \A i \in DOMAIN map : i # p => map'[i] = map[i]
  BY <1>2, <1>3, <1>4, <1>5
<1>7. \A i \in DOMAIN map : map'[i].key = map[i].key
  BY <1>4, <1>6
<1>8. \A x, y : Ahead(map', x, y) <=> Ahead(map, x, y)
  BY <1>6, <1>7 DEF Ahead
<1>9. \A x : x \in Stored <=> x \in Stored'
  BY <1>6, <1>7 DEF Stored
<1>10. /\ WalkIsSomewhere' /\ CountedIsSound' /\ CountedHasTotal' /\ TotalsAddUp'
       /\ settings' = settings /\ stage' = stage /\ prev' = prev /\ curr' = curr
       /\ log' = log /\ result' = result /\ allocs' = allocs /\ shown' = shown
       /\ kind' = kind /\ showAllocs' = showAllocs /\ bucket' = bucket /\ now' = now
       /\ skipped' = skipped
  BY <1>3, ProbesLeaveRest
<1>11. WalkTypeOK'
  <2>1. stayed' \subseteq Elements
    BY <1>1, <1>2, <1>3 DEF WalkTypeOK
  <2>2. changes' \in 0 .. MaxChanges
    BY <1>1, <1>3, OutstandingWalkAssumption DEF WalkTypeOK
  <2>. QED
    BY <1>1, <1>3, <1>5, <1>6, <1>10, <2>1, <2>2 DEF WalkTypeOK
<1>12. \A s \in stayed' : s = e \/ s \in stayed
  BY <1>3
<1>13. MapIsOrdered'
  <2>1. InWalkOrder(map)'
    BY <1>1, <1>6, <1>7, <1>10 DEF InWalkOrder
  <2>2. (\A i \in DOMAIN map : Keyed(map[i]))'
    <3>1. \A i \in DOMAIN map : Keyed(map'[i])
      BY <1>1, <1>2, <1>6 DEF MapIsOrdered
    <3>. QED
      BY <1>6, <1>10, <3>1 DEF Keyed
  <2>3. (stayed \subseteq Range(map))'
    <3>1. ASSUME NEW s \in stayed' PROVE \E i \in DOMAIN map' : map'[i] = s
      <4>1. PICK t \in stayed : s = IF t.key = k THEN e ELSE t
        BY <1>3
      <4>2. CASE t.key = k
        BY <1>4, <1>6, <4>1, <4>2
      <4>3. CASE t.key # k
        <5>1. PICK a \in DOMAIN map : map[a] = t
          BY <1>1 DEF MapIsOrdered, Range
        <5>. QED
          BY <1>4, <1>6, <4>1, <4>3, <5>1
      <4>. QED
        BY <4>2, <4>3
    <3>. QED
      BY <3>1 DEF Range
  <2>4. (kind = "combined" => ~disturbed)'
    BY <1>1, <1>3, <1>10 DEF MapIsOrdered
  <2>. QED
    BY <2>1, <2>2, <2>3, <2>4 DEF MapIsOrdered
<1>14. RestIsToCome'
  <2>1. SUFFICES ASSUME NEW s \in stayed', ~Handled(s)'
        PROVE  \/ stage' = "next" /\ s.key # prev' /\ bucket'[prev'] <= bucket'[s.key]
                  /\ ~Ahead(map', s.key, prev')
               \/ stage' = "lookup" /\ bucket'[curr'] <= bucket'[s.key]
                  /\ ~Ahead(map', s.key, curr')
    BY DEF RestIsToCome, Ahead
  <2>2. PICK t \in stayed : s = IF t.key = k THEN e ELSE t
    BY <1>3
  <2>3. t.key = s.key
    BY <2>2
  <2>4. ~Handled(s)
    BY <1>10, <2>1, HandledStays
  <2>5. ~Handled(t)
    BY <1>3, <2>3, <2>4 DEF Handled
  <2>6. \/ stage = "next" /\ s.key # prev /\ bucket[prev] <= bucket[s.key]
           /\ ~Ahead(map, s.key, prev)
        \/ stage = "lookup" /\ bucket[curr] <= bucket[s.key] /\ ~Ahead(map, s.key, curr)
    BY <1>1, <1>3, <2>3, <2>5 DEF RestIsToCome, Walking
  <2>. QED
    BY <1>8, <1>10, <2>6
<1>15. CountedIsBehind'
  <2>1. ~disturbed =>
          /\ stage = "next" => prev \in Stored'
          /\ stage = "lookup" => curr \in Stored'
          /\ \A l \in DOMAIN log :
               /\ log[l].key \in Stored'
               /\ stage = "next" => ~Ahead(map', prev, log[l].key)
               /\ stage = "lookup" => log[l].key # curr /\ ~Ahead(map', curr, log[l].key)
    BY <1>1, <1>8, <1>9 DEF CountedIsBehind
  <2>. QED
    BY <1>3, <1>10, <2>1 DEF CountedIsBehind, Ahead
<1>16. CountedOnce'
  BY <1>1, <1>3, <1>10 DEF CountedOnce
<1>. QED
  BY <1>10, <1>11, <1>13, <1>14, <1>15, <1>16 DEF WInv

-----------------------------------------------------------------------------
(* The calls of get_next_key *)

(* The walk leaves the map alone.                                          *)
LEMMA WalkLeavesMap ==
  ASSUME WInv, UNCHANGED <<settings, mapVars>>
  PROVE  /\ MapIsOrdered'
         /\ map' = map /\ changes' = changes /\ stayed' = stayed /\ disturbed' = disturbed
         /\ kind' = kind /\ showAllocs' = showAllocs /\ bucket' = bucket /\ now' = now
         /\ skipped' = skipped /\ settings' = settings
<1>1. /\ map' = map /\ changes' = changes /\ stayed' = stayed /\ disturbed' = disturbed
      /\ settings' = settings
  BY DEF mapVars
<1>2. /\ kind' = kind /\ showAllocs' = showAllocs /\ bucket' = bucket /\ now' = now
      /\ skipped' = skipped
  BY <1>1 DEF settings
<1>3. MapIsOrdered'
  BY <1>1, <1>2 DEF WInv, MapIsOrdered, InWalkOrder, Keyed, Range
<1>. QED
  BY <1>1, <1>2, <1>3

(* What depends on the counted blocks and their totals only.               *)
LEMMA CountsStay ==
  ASSUME WInv, UNCHANGED <<settings, mapVars, allocs, log>>, stage # "done"
  PROVE  CountedIsSound' /\ CountedHasTotal' /\ TotalsAddUp' /\ CountedOnce'
<1>1. /\ kind' = kind /\ showAllocs' = showAllocs /\ now' = now /\ disturbed' = disturbed
      /\ allocs' = allocs /\ log' = log
  BY DEF settings, mapVars
<1>2. CountedIsSound'
  BY <1>1 DEF WInv, CountedIsSound, Keyed, Counts, TooYoung
<1>3. CountedHasTotal'
  BY <1>1 DEF WInv, CountedHasTotal
<1>4. TotalsAddUp'
  BY <1>1 DEF WInv, TotalsAddUp, BlocksOf
<1>5. CountedOnce'
  BY <1>1 DEF WInv, CountedOnce
<1>. QED
  BY <1>2, <1>3, <1>4, <1>5

(* Where the walk goes on, everything to come is still ahead and           *)
(* everything counted, undisturbed, is behind.                             *)
LEMMA WhereItGoesOn ==
  ASSUME WInv, stage \in {"first", "next"}
  PROVE  /\ After(prev) \in Nat \ {0}
         /\ \A s \in stayed, i \in DOMAIN map :
              map[i] = s /\ ~Handled(s) => After(prev) <= i
         /\ ~disturbed => \A l \in DOMAIN log, i \in DOMAIN map :
              map[i].key = log[l].key => i < After(prev)
<1>1. /\ WalkTypeOK /\ InWalkOrder(map) /\ MapIsOrdered /\ WalkIsSomewhere
      /\ RestIsToCome /\ CountedIsBehind
  BY DEF WInv, MapIsOrdered
<1>2. map \in Seq(Elements) /\ DOMAIN map = 1 .. Len(map) /\ Len(map) \in Nat
  BY <1>1 DEF WalkTypeOK
<1>3. stage = "first" => prev = 0
  BY <1>1 DEF WalkIsSomewhere
<1>4. \A s \in stayed : ~Handled(s) => s.key # prev /\ ~Ahead(map, s.key, prev)
  BY <1>1, <1>3 DEF RestIsToCome
<1>5. CASE prev \in Stored
  <2>. DEFINE j == Position(prev)
  <2>1. j \in DOMAIN map /\ map[j].key = prev
    BY <1>1, <1>5, PlaceOfKey
  <2>2. After(prev) = j + 1
    BY <1>5 DEF After
  <2>. HIDE DEF j
  <2>3. ASSUME NEW s \in stayed, NEW i \in DOMAIN map, map[i] = s, ~Handled(s)
        PROVE  j + 1 <= i
    <3>1. i # j /\ ~(i < j)
      BY <1>4, <2>1, <2>3 DEF Ahead
    <3>. QED
      BY <1>2, <2>1, <3>1
  <2>4. ASSUME ~disturbed, NEW l \in DOMAIN log, NEW i \in DOMAIN map, map[i].key = log[l].key
        PROVE  i < j + 1
    <3>1. stage = "next"
      BY <1>1, <2>4 DEF WalkIsSomewhere
    <3>2. ~(j < i)
      BY <1>1, <2>1, <2>4, <3>1 DEF CountedIsBehind, Ahead
    <3>. QED
      BY <1>2, <2>1, <3>2
  <2>. QED
    BY <1>2, <2>1, <2>2, <2>3, <2>4
<1>6. CASE prev \notin Stored
  <2>1. After(prev) = 1
    BY <1>6 DEF After
  <2>2. ASSUME ~disturbed, NEW l \in DOMAIN log
        PROVE  FALSE
    <3>1. stage = "next"
      BY <1>1, <2>2 DEF WalkIsSomewhere
    <3>. QED
      BY <1>1, <1>6, <2>2, <3>1 DEF CountedIsBehind
  <2>. QED
    BY <1>2, <2>1, <2>2
<1>. QED
  BY <1>5, <1>6

(* The walk goes to the next key, or has come to the end of the map.       *)
LEMMA GetNextKeyKeepsWInv ==
  ASSUME WInv, GetNextKey
  PROVE  WInv'
<1>1. /\ WalkTypeOK /\ InWalkOrder(map) /\ MapIsOrdered /\ WalkIsSomewhere
      /\ RestIsToCome /\ CountedIsBehind
  BY DEF WInv, MapIsOrdered
<1>2. /\ stage \in {"first", "next"}
      /\ UNCHANGED <<settings, mapVars>> /\ shown' = shown /\ prev' = prev
      /\ allocs' = allocs /\ result' = result /\ log' = log
  BY DEF GetNextKey, walkRest
<1>3. /\ MapIsOrdered'
      /\ map' = map /\ changes' = changes /\ stayed' = stayed /\ disturbed' = disturbed
      /\ kind' = kind /\ showAllocs' = showAllocs /\ bucket' = bucket /\ now' = now
      /\ skipped' = skipped /\ settings' = settings
  BY <1>2, WalkLeavesMap
<1>4. CountedIsSound' /\ CountedHasTotal' /\ TotalsAddUp' /\ CountedOnce'
  BY <1>2, CountsStay
<1>. DEFINE q == After(prev)
<1>5. /\ q \in Nat \ {0}
      /\ \A s \in stayed, i \in DOMAIN map : map[i] = s /\ ~Handled(s) => q <= i
      /\ ~disturbed => \A l \in DOMAIN log, i \in DOMAIN map :
           map[i].key = log[l].key => i < q
  BY <1>2, WhereItGoesOn
<1>6. IF q \in DOMAIN map THEN stage' = "lookup" /\ curr' = map[q].key
      ELSE stage' = "report" /\ curr' = curr
  BY DEF GetNextKey
<1>. HIDE DEF q
<1>7. map \in Seq(Elements) /\ DOMAIN map = 1 .. Len(map) /\ Len(map) \in Nat
  BY <1>1 DEF WalkTypeOK
<1>8. \A i \in DOMAIN map : map[i] \in Elements /\ map[i].key \in Keys
  <2>1. \A i \in DOMAIN map : map[i] \in Elements
    BY <1>7
  <2>. QED
    BY <2>1 DEF Elements
<1>9. WalkTypeOK'
  BY <1>1, <1>2, <1>3, <1>6, <1>8 DEF WalkTypeOK
<1>10. WalkIsSomewhere'
  BY <1>1, <1>2, <1>6, <1>8 DEF WalkIsSomewhere
<1>11. \A i, j \in DOMAIN map : map[i].key = map[j].key => i = j
  BY <1>1, <1>7, OnePlace
<1>12. RestIsToCome'
  <2>1. SUFFICES ASSUME NEW s \in stayed', ~Handled(s)'
        PROVE  stage' = "lookup" /\ bucket'[curr'] <= bucket'[s.key] /\ ~Ahead(map', s.key, curr')
    BY DEF RestIsToCome, Ahead
  <2>2. s \in stayed /\ ~Handled(s)
    BY <1>2, <1>3, <2>1, HandledStays
  <2>3. PICK i \in DOMAIN map : map[i] = s
    BY <1>1, <2>2 DEF MapIsOrdered, Range
  <2>4. q <= i
    BY <1>5, <2>2, <2>3
  <2>5. q \in DOMAIN map
    BY <1>5, <1>7, <2>4
  <2>6. stage' = "lookup" /\ curr' = map[q].key
    BY <1>6, <2>5
  <2>7. bucket[map[q].key] <= bucket[s.key]
    <3>1. bucket[s.key] \in Nat
      BY <1>1, <1>8, <2>3, BucketIsNat
    <3>2. CASE q = i
      BY <2>3, <3>1, <3>2
    <3>3. CASE q < i
      BY <1>1, <2>3, <2>5, <3>3 DEF InWalkOrder
    <3>. QED
      BY <1>5, <1>7, <2>4, <3>2, <3>3
  <2>8. ~Ahead(map, s.key, map[q].key)
    <3>1. \A a, b \in DOMAIN map : a < b /\ map[a].key = s.key /\ map[b].key = map[q].key => FALSE
      BY <1>7, <1>11, <2>3, <2>4, <2>5
    <3>. QED
      BY <3>1 DEF Ahead
  <2>. QED
    BY <1>3, <2>6, <2>7, <2>8
<1>13. CountedIsBehind'
  <2>. SUFFICES ASSUME ~disturbed PROVE CountedIsBehind'
    BY <1>3 DEF CountedIsBehind
  <2>1. \A l \in DOMAIN log : log[l].key \in Stored
    BY <1>1 DEF CountedIsBehind
  <2>2. CASE q \in DOMAIN map
    <3>1. stage' = "lookup" /\ curr' = map[q].key /\ map[q].key \in Stored
      BY <1>6, <2>2 DEF Stored
    <3>2. \A l \in DOMAIN log : log[l].key # map[q].key /\ ~Ahead(map, map[q].key, log[l].key)
      <4>1. TAKE l \in DOMAIN log
      <4>2. log[l].key # map[q].key
        BY <1>5, <1>7, <2>2
      <4>3. \A a, b \in DOMAIN map : a < b /\ map[a].key = map[q].key /\ map[b].key = log[l].key => FALSE
        BY <1>5, <1>7, <1>11, <2>2
      <4>. QED
        BY <4>2, <4>3 DEF Ahead
    <3>3. Stored' = Stored
      BY <1>3 DEF Stored
    <3>4. /\ curr' \in Stored
          /\ \A l \in DOMAIN log : log[l].key \in Stored /\ log[l].key # curr' /\ ~Ahead(map, curr', log[l].key)
      BY <2>1, <3>1, <3>2
    <3>. QED
      BY <1>2, <1>3, <3>1, <3>3, <3>4 DEF CountedIsBehind, Ahead
  <2>3. CASE q \notin DOMAIN map
    BY <1>2, <1>3, <1>6, <2>1, <2>3 DEF CountedIsBehind, Stored
  <2>. QED
    BY <2>2, <2>3
<1>. QED
  BY <1>3, <1>4, <1>9, <1>10, <1>12, <1>13 DEF WInv

-----------------------------------------------------------------------------
(* What is found *)

(* A number of the range is its own remainder.                             *)
LEMMA SmallRemainder ==
  ASSUME NEW w \in Nat, NEW a \in Nat, a < w
  PROVE  a % w = a
<1>1. /\ a \div w \in Int /\ a % w \in 0 .. w - 1
      /\ a = w * (a \div w) + (a % w)
  OBVIOUS
<1>. DEFINE d == a \div w
<1>2. a - (a % w) = w * d /\ d \in Int
  BY <1>1
<1>3. a - (a % w) < w /\ a - (a % w) > -w
  BY <1>1
<1>. HIDE DEF d
<1>4. ~(d >= 1)
  BY <1>2, <1>3
<1>5. ~(d <= -1)
  BY <1>2, <1>3
<1>6. d = 0
  BY <1>2, <1>4, <1>5
<1>. QED
  BY <1>1, <1>2, <1>6

(* On a machine older than min_age the unsigned test is the one meant.     *)
LEMMA AgeIsMeant ==
  ASSUME WalkTypeOK, NEW e \in Elements
  PROVE  /\ OldEnough(e) => ~TooYoung(e)
         /\ now >= MinAge /\ ~TooYoung(e) => OldEnough(e)
<1>1. now \in Nat /\ now < TimeRange /\ MinAge \in Nat /\ TimeRange \in Nat
  BY OutstandingWalkAssumption DEF WalkTypeOK
<1>2. e.time \in 0 .. MaxTime /\ MaxTime \in Nat
  BY OutstandingWalkAssumption DEF Elements
<1>3. e.time \in Nat
  BY <1>2
<1>4. ASSUME now >= MinAge PROVE (now - MinAge) % TimeRange = now - MinAge
  <2>1. now - MinAge \in Nat /\ now - MinAge < TimeRange
    BY <1>1, <1>4
  <2>. QED
    BY <1>1, <2>1, SmallRemainder
<1>5. OldEnough(e) => now >= MinAge
  BY <1>1, <1>3 DEF OldEnough
<1>6. now >= MinAge => (TooYoung(e) <=> ~OldEnough(e))
  <2>. SUFFICES ASSUME now >= MinAge PROVE TooYoung(e) <=> ~OldEnough(e)
    OBVIOUS
  <2>1. TooYoung(e) <=> now - MinAge < e.time
    BY <1>4 DEF TooYoung
  <2>2. OldEnough(e) <=> e.time + MinAge <= now
    BY DEF OldEnough
  <2>. QED
    BY <1>1, <1>3, <2>1, <2>2
<1>. QED
  BY <1>5, <1>6

(* A stack that is not negative was recorded by the kernel.                *)
LEMMA StackIsNumber ==
  \A e \in Elements : e.stack \in Int /\ (e.stack >= 0 => e.stack \in Stacks)
<1>1. Stacks \subseteq Nat
  BY OutstandingWalkAssumption
<1>2. \A e \in Elements : e.stack \in Stacks \/ e.stack = -1
  BY DEF Elements, NoStack
<1>3. \A x \in Stacks : x \in Int
  BY <1>1
<1>. QED
  BY <1>2, <1>3

(* The element that is looked up is the only one under its key.            *)
LEMMA FoundIsIt ==
  ASSUME WInv, curr \in Stored
  PROVE  /\ Found \in Elements /\ Found.key = curr /\ Keyed(Found)
         /\ \A s \in stayed : s.key = curr => s = Found
         /\ ~Ahead(map, curr, curr)
<1>1. /\ WalkTypeOK /\ InWalkOrder(map) /\ MapIsOrdered
  BY DEF WInv, MapIsOrdered
<1>2. map \in Seq(Elements)
  BY <1>1 DEF WalkTypeOK
<1>3. Position(curr) \in DOMAIN map /\ map[Position(curr)].key = curr
  BY <1>1, PlaceOfKey
<1>4. \A i \in DOMAIN map : map[i].key = curr => i = Position(curr)
  BY <1>1, <1>2, <1>3, OnePlace
<1>. DEFINE p == Position(curr)
<1>. HIDE DEF p
<1>5. Found = map[p]
  BY DEF Found, p
<1>6. p \in DOMAIN map /\ map[p].key = curr /\ \A i \in DOMAIN map : map[i].key = curr => i = p
  BY <1>3, <1>4 DEF p
<1>7. \A s \in stayed : s.key = curr => s = Found
  BY <1>1, <1>5, <1>6 DEF MapIsOrdered, Range
<1>8. ~Ahead(map, curr, curr)
  BY <1>2, <1>6 DEF Ahead
<1>. QED
  BY <1>1, <1>2, <1>5, <1>6, <1>7, <1>8 DEF MapIsOrdered

(* Behind a key the walk is through with, what was to come still is.       *)
LEMMA RestAfterCurr ==
  ASSUME WInv, stage = "lookup", GoesOn,
         \A s \in stayed : Handled(s) => Handled(s)',
         \A s \in stayed : s.key = curr => Handled(s)'
  PROVE  RestIsToCome'
<1>1. /\ stage' = "next" /\ prev' = curr /\ curr' = curr
      /\ UNCHANGED <<settings, mapVars>>
  BY DEF GoesOn, walkRest
<1>2. map' = map /\ stayed' = stayed /\ bucket' = bucket
  BY <1>1, WalkLeavesMap
<1>3. SUFFICES ASSUME NEW s \in stayed', ~Handled(s)'
      PROVE  stage' = "next" /\ s.key # prev' /\ bucket'[prev'] <= bucket'[s.key]
             /\ ~Ahead(map', s.key, prev')
  BY DEF RestIsToCome, Ahead
<1>4. s \in stayed /\ ~Handled(s) /\ s.key # curr
  BY <1>2, <1>3
<1>5. bucket[curr] <= bucket[s.key] /\ ~Ahead(map, s.key, curr)
  BY <1>4 DEF WInv, RestIsToCome
<1>. QED
  BY <1>1, <1>2, <1>4, <1>5

(* The steps from one key to the next that count nothing.                  *)
LEMMA PassingKeepsWInv ==
  ASSUME WInv, stage = "lookup", GoesOn, UNCHANGED <<allocs, log>>,
         curr \in Stored \/ disturbed,
         \A s \in stayed : s.key = curr => Handled(s)
  PROVE  WInv'
<1>1. WalkTypeOK /\ InWalkOrder(map) /\ MapIsOrdered /\ WalkIsSomewhere /\ CountedIsBehind
  BY DEF WInv, MapIsOrdered
<1>2. /\ stage' = "next" /\ prev' = curr /\ curr' = curr /\ result' = result
      /\ UNCHANGED <<settings, mapVars>> /\ shown' = shown /\ allocs' = allocs /\ log' = log
  BY DEF GoesOn, walkRest
<1>3. /\ MapIsOrdered'
      /\ map' = map /\ changes' = changes /\ stayed' = stayed /\ disturbed' = disturbed
      /\ kind' = kind /\ showAllocs' = showAllocs /\ bucket' = bucket /\ now' = now
      /\ skipped' = skipped /\ settings' = settings
  BY <1>2, WalkLeavesMap
<1>4. CountedIsSound' /\ CountedHasTotal' /\ TotalsAddUp' /\ CountedOnce'
  BY <1>2, CountsStay
<1>5. \A s : Handled(s) => Handled(s)'
  BY <1>2, <1>3, HandledStays
<1>6. RestIsToCome'
  BY <1>5, RestAfterCurr
<1>7. WalkTypeOK' /\ WalkIsSomewhere'
  BY <1>1, <1>2, <1>3 DEF WalkTypeOK, WalkIsSomewhere
<1>8. CountedIsBehind'
  BY <1>1, <1>2, <1>3 DEF CountedIsBehind, Stored
<1>. QED
  BY <1>3, <1>4, <1>6, <1>7, <1>8 DEF WInv

(* A key that is gone is passed over.                                      *)
LEMMA LookupGoneKeepsWInv ==
  ASSUME WInv, LookupGone
  PROVE  WInv'
<1>1. stage = "lookup" /\ GoesOn /\ UNCHANGED <<allocs, log>> /\ curr \notin Stored
  BY DEF LookupGone
<1>2. disturbed
  BY <1>1 DEF WInv, CountedIsBehind
<1>3. \A s \in stayed : s.key # curr
  BY <1>1 DEF WInv, MapIsOrdered, Range, Stored
<1>. QED
  BY <1>1, <1>2, <1>3, PassingKeepsWInv

(* What is filtered is too young or without a stack.                       *)
LEMMA FilterKeepsWInv ==
  ASSUME WInv, Filter
  PROVE  WInv'
<1>1. stage = "lookup" /\ GoesOn /\ UNCHANGED <<allocs, log>> /\ curr \in Stored /\ ~Counts(Found)
  BY DEF Filter
<1>2. Found \in Elements /\ \A s \in stayed : s.key = curr => s = Found
  BY <1>1, FoundIsIt
<1>3. Handled(Found)
  <2>1. kind = "each" /\ (TooYoung(Found) \/ ~(Found.stack >= 0))
    BY <1>1 DEF Counts, WInv, WalkTypeOK
  <2>2. OldEnough(Found) => ~TooYoung(Found)
    BY <1>2, AgeIsMeant DEF WInv
  <2>3. Found.stack \in Int
    BY <1>2, StackIsNumber
  <2>. QED
    BY <2>1, <2>2, <2>3 DEF Handled
<1>. QED
  BY <1>1, <1>2, <1>3, PassingKeepsWInv

(* A failing call ends the walk, and nothing is shown.                     *)
LEMMA WalkFailsKeepsWInv ==
  ASSUME WInv, WalkFails
  PROVE  WInv'
<1>1. WalkTypeOK /\ InWalkOrder(map) /\ MapIsOrdered /\ WalkIsSomewhere /\ CountedIsBehind
  BY DEF WInv, MapIsOrdered
<1>2. /\ stage # "done" /\ stage' = "done" /\ result' = "error"
      /\ prev' = prev /\ curr' = curr
      /\ UNCHANGED <<settings, mapVars>> /\ shown' = shown /\ allocs' = allocs /\ log' = log
  BY DEF WalkFails, walkRest
<1>3. /\ MapIsOrdered'
      /\ map' = map /\ changes' = changes /\ stayed' = stayed /\ disturbed' = disturbed
      /\ kind' = kind /\ showAllocs' = showAllocs /\ bucket' = bucket /\ now' = now
      /\ skipped' = skipped /\ settings' = settings
  BY <1>2, WalkLeavesMap
<1>4. CountedIsSound' /\ CountedHasTotal' /\ TotalsAddUp' /\ CountedOnce'
  BY <1>2, CountsStay
<1>5. WalkTypeOK' /\ WalkIsSomewhere'
  BY <1>1, <1>2, <1>3 DEF WalkTypeOK, WalkIsSomewhere
<1>6. CountedIsBehind' /\ RestIsToCome'
  BY <1>1, <1>2, <1>3 DEF CountedIsBehind, Stored, RestIsToCome
<1>. QED
  BY <1>3, <1>4, <1>5, <1>6 DEF WInv

(* TotalsAddUp of one line: its totals, and the blocks under it.           *)
BlocksIn(l, line) == {i \in DOMAIN l : l[i].stack = line.stack}

Adds(line, l) ==
  /\ line.count = Cardinality(BlocksIn(l, line))
  /\ line.size = Sum(l, BlocksIn(l, line))

Lists(line, l) ==
  /\ Len(line.nodes) = Cardinality(BlocksIn(l, line))
  /\ \A b \in BlocksIn(l, line) :
       line.nodes[Cardinality({c \in BlocksIn(l, line) : c >= b})] =
         [address |-> l[b].key, size |-> l[b].size]

LinesAddUp ==
  kind = "each" =>
    /\ \A i, j \in DOMAIN allocs : allocs[i].stack = allocs[j].stack => i = j
    /\ \A i \in DOMAIN allocs : Adds(allocs[i], log)
    /\ showAllocs /\ stage # "done" => \A i \in DOMAIN allocs : Lists(allocs[i], log)

(* TotalsAddUp says of every line what these definitions say.              *)
LEMMA TotalsInLines == TotalsAddUp <=> LinesAddUp
BY DEF TotalsAddUp, LinesAddUp, Adds, Lists, BlocksIn, BlocksOf

(* And it does in the next state.                                          *)
LEMMA TotalsInLinesNext == TotalsAddUp' <=> LinesAddUp'
BY DEF TotalsAddUp, LinesAddUp, Adds, Lists, BlocksIn, BlocksOf

(* Sorting moves the totals around.                                        *)
LEMMA ReportKeepsWInv ==
  ASSUME WInv, Report
  PROVE  WInv'
<1>1. /\ WalkTypeOK /\ InWalkOrder(map) /\ MapIsOrdered /\ WalkIsSomewhere /\ CountedIsBehind
      /\ CountedIsSound /\ CountedOnce /\ CountedHasTotal /\ TotalsAddUp
  BY DEF WInv, MapIsOrdered
<1>2. /\ stage = "report" /\ stage' = "free" /\ result' = result
      /\ prev' = prev /\ curr' = curr
      /\ UNCHANGED <<settings, mapVars>> /\ log' = log
      /\ shown' = IF Len(allocs) < TopStacks THEN Len(allocs) ELSE TopStacks
  BY DEF Report
<1>3. /\ MapIsOrdered'
      /\ map' = map /\ changes' = changes /\ stayed' = stayed /\ disturbed' = disturbed
      /\ kind' = kind /\ showAllocs' = showAllocs /\ bucket' = bucket /\ now' = now
      /\ skipped' = skipped /\ settings' = settings
  BY <1>2, WalkLeavesMap
<1>. DEFINE D == DOMAIN allocs
            Totals == [stack : Stacks, size : Nat, count : Nat,
                       nodes : Seq([address : Keys, size : Sizes])]
<1>4. allocs \in Seq(Totals) /\ Len(allocs) \in Nat /\ D = 1 .. Len(allocs)
  BY <1>1 DEF WalkTypeOK
<1>5. PICK f \in Bijection(D, D) : allocs' = [i \in D |-> allocs[f[i]]]
  BY DEF Report
<1>6. /\ f \in [D -> D] /\ (\A a, b \in D : f[a] = f[b] => a = b)
      /\ \A t \in D : \E s \in D : f[s] = t
  BY <1>5 DEF Bijection, Injection, Surjection, IsInjective
<1>7. /\ allocs' \in Seq(Totals) /\ Len(allocs') = Len(allocs) /\ DOMAIN allocs' = D
      /\ \A i \in D : f[i] \in D /\ allocs'[i] = allocs[f[i]]
  <2>. HIDE DEF Totals
  <2>1. \A i \in D : f[i] \in D /\ allocs[f[i]] \in Totals
    BY <1>4, <1>6
  <2>2. allocs' \in [1 .. Len(allocs) -> Totals]
    BY <1>4, <1>5, <2>1
  <2>3. allocs' \in Seq(Totals) /\ Len(allocs') = Len(allocs) /\ DOMAIN allocs' = 1 .. Len(allocs)
    BY <1>4, <2>2
  <2>. QED
    BY <1>4, <1>5, <2>1, <2>3
<1>8. WalkTypeOK'
  <2>1. shown' \in Nat
    BY <1>2, <1>4, OutstandingWalkAssumption
  <2>. QED
    BY <1>1, <1>2, <1>3, <1>7, <2>1 DEF WalkTypeOK
<1>. HIDE DEF D, Totals
<1>9. WalkIsSomewhere' /\ CountedIsBehind' /\ CountedOnce'
  BY <1>1, <1>2, <1>3 DEF WalkIsSomewhere, CountedIsBehind, CountedOnce, Stored
<1>10. CountedIsSound'
  BY <1>1, <1>2, <1>3 DEF CountedIsSound, Keyed, Counts, TooYoung
<1>11. RestIsToCome'
  <2>1. \A s \in stayed : Handled(s)
    BY <1>2 DEF WInv, RestIsToCome
  <2>2. \A s : Handled(s) => Handled(s)'
    BY <1>2, <1>3, HandledStays
  <2>. QED
    BY <1>3, <2>1, <2>2 DEF RestIsToCome
<1>12. CountedHasTotal'
  <2>1. ASSUME kind = "each", NEW l \in DOMAIN log
        PROVE  \E i \in D : allocs'[i].stack = log[l].stack
    <3>1. PICK t \in D : allocs[t].stack = log[l].stack
      BY <1>1, <2>1 DEF CountedHasTotal, D
    <3>2. PICK i \in D : f[i] = t
      BY <1>6
    <3>. QED
      BY <1>7, <3>1, <3>2
  <2>. QED
    BY <1>1, <1>2, <1>3, <1>7, <2>1 DEF CountedHasTotal
<1>13. TotalsAddUp'
  <2>. SUFFICES ASSUME kind = "each" PROVE LinesAddUp'
    BY <1>3, TotalsInLinesNext DEF LinesAddUp
  <2>1. /\ \A i, j \in D : allocs[i].stack = allocs[j].stack => i = j
        /\ \A i \in D : Adds(allocs[i], log)
        /\ showAllocs => \A i \in D : Lists(allocs[i], log)
    BY <1>1, <1>2, TotalsInLines DEF LinesAddUp, D
  <2>2. /\ \A i, j \in D : allocs'[i].stack = allocs'[j].stack => i = j
        /\ \A i \in D : Adds(allocs'[i], log)
        /\ showAllocs => \A i \in D : Lists(allocs'[i], log)
    <3>1. ASSUME NEW i \in D, NEW j \in D, allocs'[i].stack = allocs'[j].stack PROVE i = j
      <4>1. f[i] = f[j]
        BY <1>7, <2>1, <3>1
      <4>. QED
        BY <1>6, <4>1
    <3>2. \A i \in D : Adds(allocs'[i], log)
      BY <1>7, <2>1
    <3>3. showAllocs => \A i \in D : Lists(allocs'[i], log)
      BY <1>7, <2>1
    <3>. QED
      BY <3>1, <3>2, <3>3
  <2>. QED
    BY <1>2, <1>3, <1>7, <2>2 DEF LinesAddUp
<1>. QED
  BY <1>3, <1>8, <1>9, <1>10, <1>11, <1>12, <1>13 DEF WInv

(* Freeing the nodes leaves the totals.                                    *)
LEMMA FreeKeepsWInv ==
  ASSUME WInv, Free
  PROVE  WInv'
<1>1. /\ WalkTypeOK /\ InWalkOrder(map) /\ MapIsOrdered /\ WalkIsSomewhere /\ CountedIsBehind
      /\ CountedIsSound /\ CountedOnce /\ CountedHasTotal /\ TotalsAddUp
  BY DEF WInv, MapIsOrdered
<1>2. /\ stage = "free" /\ stage' = "done" /\ result' = "OK"
      /\ prev' = prev /\ curr' = curr /\ shown' = shown
      /\ UNCHANGED <<settings, mapVars>> /\ log' = log
      /\ allocs' = [i \in DOMAIN allocs |-> [allocs[i] EXCEPT !.nodes = <<>>]]
  BY DEF Free, walkRest
<1>3. /\ MapIsOrdered'
      /\ map' = map /\ changes' = changes /\ stayed' = stayed /\ disturbed' = disturbed
      /\ kind' = kind /\ showAllocs' = showAllocs /\ bucket' = bucket /\ now' = now
      /\ skipped' = skipped /\ settings' = settings
  BY <1>2, WalkLeavesMap
<1>. DEFINE D == DOMAIN allocs
            Node == [address : Keys, size : Sizes]
            Totals == [stack : Stacks, size : Nat, count : Nat, nodes : Seq(Node)]
<1>4. allocs \in Seq(Totals) /\ Len(allocs) \in Nat /\ D = 1 .. Len(allocs)
  BY <1>1 DEF WalkTypeOK
<1>5. \A i \in D : /\ allocs'[i] = [allocs[i] EXCEPT !.nodes = <<>>]
                   /\ allocs'[i].stack = allocs[i].stack /\ allocs'[i].size = allocs[i].size
                   /\ allocs'[i].count = allocs[i].count /\ allocs'[i] \in Totals
  <2>1. \A i \in D : allocs[i] \in Totals
    <3>. HIDE DEF Totals
    <3>. QED
      BY <1>4
  <2>2. <<>> \in Seq(Node)
    OBVIOUS
  <2>. HIDE DEF Node
  <2>. QED
    BY <1>2, <2>1, <2>2
<1>6. allocs' \in Seq(Totals) /\ Len(allocs') = Len(allocs) /\ DOMAIN allocs' = D
  <2>. HIDE DEF Totals
  <2>1. allocs' \in [1 .. Len(allocs) -> Totals]
    BY <1>2, <1>4, <1>5
  <2>. QED
    BY <1>4, <2>1
<1>7. WalkTypeOK'
  BY <1>1, <1>2, <1>3, <1>6 DEF WalkTypeOK
<1>. HIDE DEF D, Totals, Node
<1>8. WalkIsSomewhere' /\ CountedIsBehind' /\ CountedOnce'
  BY <1>1, <1>2, <1>3 DEF WalkIsSomewhere, CountedIsBehind, CountedOnce, Stored
<1>9. CountedIsSound'
  BY <1>1, <1>2, <1>3 DEF CountedIsSound, Keyed, Counts, TooYoung
<1>10. RestIsToCome'
  <2>1. \A s \in stayed : Handled(s)
    BY <1>2 DEF WInv, RestIsToCome
  <2>2. \A s : Handled(s) => Handled(s)'
    BY <1>2, <1>3, HandledStays
  <2>. QED
    BY <1>3, <2>1, <2>2 DEF RestIsToCome
<1>11. CountedHasTotal'
  BY <1>1, <1>2, <1>3, <1>5, <1>6 DEF CountedHasTotal, D
<1>12. TotalsAddUp'
  <2>. SUFFICES ASSUME kind = "each" PROVE LinesAddUp'
    BY <1>3, TotalsInLinesNext DEF LinesAddUp
  <2>1. /\ \A i, j \in D : allocs[i].stack = allocs[j].stack => i = j
        /\ \A i \in D : Adds(allocs[i], log)
    BY <1>1, TotalsInLines DEF LinesAddUp, D
  <2>2. /\ \A i, j \in D : allocs'[i].stack = allocs'[j].stack => i = j
        /\ \A i \in D : Adds(allocs'[i], log)
    <3>1. \A i \in D : BlocksIn(log, allocs'[i]) = BlocksIn(log, allocs[i])
      BY <1>5, Zenon DEF BlocksIn
    <3>2. ASSUME NEW i \in D, NEW j \in D, allocs'[i].stack = allocs'[j].stack PROVE i = j
      <4>1. allocs[i].stack = allocs[j].stack
        BY <1>5, <3>2
      <4>. QED
        BY <2>1, <4>1
    <3>3. ASSUME NEW i \in D PROVE Adds(allocs'[i], log)
      <4>1. Adds(allocs[i], log)
        BY <2>1
      <4>2. allocs'[i].size = allocs[i].size /\ allocs'[i].count = allocs[i].count
        BY <1>5
      <4>3. BlocksIn(log, allocs'[i]) = BlocksIn(log, allocs[i])
        BY <3>1
      <4>. QED
        BY <4>1, <4>2, <4>3, Zenon DEF Adds
    <3>. QED
      BY <3>2, <3>3
  <2>. QED
    BY <1>2, <1>6, <2>2 DEF LinesAddUp
<1>. QED
  BY <1>3, <1>7, <1>8, <1>9, <1>10, <1>11, <1>12 DEF WInv

(* A step that changes nothing keeps everything.                           *)
LEMMA NothingKeepsWInv ==
  ASSUME WInv, UNCHANGED walkVars
  PROVE  WInv'
<1>1. /\ stage' = stage /\ prev' = prev /\ curr' = curr
      /\ allocs' = allocs /\ shown' = shown /\ result' = result /\ log' = log
      /\ UNCHANGED <<settings, mapVars>>
  BY DEF walkVars, outputVars
<1>2. /\ MapIsOrdered'
      /\ map' = map /\ changes' = changes /\ stayed' = stayed /\ disturbed' = disturbed
      /\ kind' = kind /\ showAllocs' = showAllocs /\ bucket' = bucket /\ now' = now
      /\ skipped' = skipped /\ settings' = settings
  BY <1>1, WalkLeavesMap
<1>3. WalkTypeOK' /\ WalkIsSomewhere' /\ CountedOnce' /\ CountedHasTotal'
  BY <1>1, <1>2 DEF WInv, WalkTypeOK, WalkIsSomewhere, CountedOnce, CountedHasTotal
<1>4. CountedIsBehind'
  BY <1>1, <1>2 DEF WInv, CountedIsBehind, Stored
<1>5. CountedIsSound'
  BY <1>1, <1>2 DEF WInv, CountedIsSound, Keyed, Counts, TooYoung
<1>6. TotalsAddUp'
  BY <1>1, <1>2 DEF WInv, TotalsAddUp, BlocksOf
<1>7. RestIsToCome'
  <2>1. \A s : Handled(s)' <=> Handled(s)
    BY <1>1, <1>2, HandledStays
  <2>. QED
    BY <1>1, <1>2, <2>1 DEF WInv, RestIsToCome, Ahead
<1>. QED
  BY <1>2, <1>3, <1>4, <1>5, <1>6, <1>7 DEF WInv

-----------------------------------------------------------------------------
(* The lines of the output *)

(* The blocks of a line when one more is counted.                          *)
LEMMA BlocksAreFinite ==
  ASSUME NEW l \in Seq(Elements), NEW line
  PROVE  BlocksIn(l, line) \subseteq 1 .. Len(l) /\ IsFiniteSet(BlocksIn(l, line))
<1>1. BlocksIn(l, line) \subseteq 1 .. Len(l)
  BY DEF BlocksIn
<1>2. IsFiniteSet(1 .. Len(l))
  BY FS_Interval
<1>. QED
  BY <1>1, <1>2, FS_Subset

(* The block counted last is one of its own stack's only.                  *)
LEMMA BlocksGrow ==
  ASSUME NEW l \in Seq(Elements), NEW e \in Elements, NEW line
  PROVE  BlocksIn(Append(l, e), line) =
           IF e.stack = line.stack THEN BlocksIn(l, line) \cup {Len(l) + 1} ELSE BlocksIn(l, line)
<1>. DEFINE n == Len(l)
            r == Append(l, e)
<1>1. /\ n \in Nat /\ DOMAIN l = 1 .. n /\ DOMAIN r = 1 .. n + 1
      /\ r[n + 1] = e /\ \A i \in 1 .. n : r[i] = l[i]
  OBVIOUS
<1>. HIDE DEF n, r
<1>2. \A i : i \in 1 .. n + 1 <=> i \in 1 .. n \/ i = n + 1
  BY <1>1
<1>3. ~(n + 1 \in 1 .. n)
  BY <1>1
<1>4. \A i : i \in BlocksIn(r, line) <=>
        i \in BlocksIn(l, line) \/ (i = n + 1 /\ e.stack = line.stack)
  BY <1>1, <1>2, <1>3 DEF BlocksIn
<1>5. CASE e.stack = line.stack
  <2>1. BlocksIn(r, line) = BlocksIn(l, line) \cup {n + 1}
    BY <1>4, <1>5
  <2>. QED
    BY <1>5, <2>1 DEF n, r
<1>6. CASE e.stack # line.stack
  <2>1. BlocksIn(r, line) = BlocksIn(l, line)
    BY <1>4, <1>6
  <2>. QED
    BY <1>6, <2>1 DEF n, r
<1>. QED
  BY <1>5, <1>6

(* Another stack's line stays true.                                        *)
LEMMA OtherLineStays ==
  ASSUME NEW l \in Seq(Elements), NEW e \in Elements, NEW line, e.stack # line.stack
  PROVE  /\ Adds(line, l) => Adds(line, Append(l, e))
         /\ Lists(line, l) => Lists(line, Append(l, e))
<1>. DEFINE B == BlocksIn(l, line)
            r == Append(l, e)
<1>1. BlocksIn(r, line) = B /\ B \subseteq 1 .. Len(l)
  BY BlocksGrow, BlocksAreFinite
<1>2. /\ Len(l) \in Nat /\ DOMAIN l = 1 .. Len(l)
      /\ \A i \in 1 .. Len(l) : r[i] = l[i]
  OBVIOUS
<1>3. ~(Len(l) + 1 \in B)
  BY <1>1, <1>2
<1>4. Sum(r, B) = Sum(l, B)
  <2>1. Sum(r, B) = Sum(l, B) + IF Len(l) + 1 \in B THEN e.size ELSE 0
    <3>. HIDE DEF B
    <3>. QED
      BY SumOfAppend
  <2>2. Sum(l, B) \in Nat
    <3>. HIDE DEF B
    <3>1. PICK f : SumsUp(f, l, B)
      BY SumsExist
    <3>2. Sum(l, B) = f[Len(l)]
      BY <3>1, SumIsThat
    <3>. QED
      BY <1>2, <3>1, <3>2 DEF SumsUp
  <2>. QED
    BY <1>3, <2>1, <2>2
<1>. HIDE DEF r, B
<1>5. Adds(line, l) => Adds(line, r)
  BY <1>1, <1>4 DEF Adds, B
<1>6. Lists(line, l) => Lists(line, r)
  <2>. SUFFICES ASSUME Lists(line, l) PROVE Lists(line, r)
    OBVIOUS
  <2>1. /\ Len(line.nodes) = Cardinality(B)
        /\ \A b \in B : line.nodes[Cardinality({c \in B : c >= b})] =
                          [address |-> l[b].key, size |-> l[b].size]
    BY Zenon DEF Lists, B
  <2>2. \A b \in B : r[b] = l[b]
    BY <1>1, <1>2
  <2>3. \A b \in B : line.nodes[Cardinality({c \in B : c >= b})] =
                       [address |-> r[b].key, size |-> r[b].size]
    BY <2>1, <2>2
  <2>. QED
    BY <1>1, <2>1, <2>3, Zenon DEF Lists
<1>. QED
  BY <1>5, <1>6 DEF r

(* The line of the block's stack takes it in, or a new one starts with it. *)
LEMMA LineGrows ==
  ASSUME NEW l \in Seq(Elements), NEW e \in Elements, NEW line, e.stack = line.stack,
         NEW a, a.stack = line.stack, Adds(a, l),
         line.size = a.size + e.size, line.count = a.count + 1
  PROVE  Adds(line, Append(l, e))
<1>. DEFINE B == BlocksIn(l, line)
            r == Append(l, e)
            n == Len(l)
<1>1. BlocksIn(r, line) = B \cup {n + 1} /\ B \subseteq 1 .. n /\ IsFiniteSet(B)
  BY BlocksGrow, BlocksAreFinite
<1>2. n \in Nat /\ DOMAIN l = 1 .. n
  OBVIOUS
<1>3. BlocksIn(l, a) = B
  BY Zenon DEF BlocksIn
<1>4. a.count = Cardinality(B) /\ a.size = Sum(l, B)
  BY <1>3, Zenon DEF Adds
<1>. HIDE DEF B, n, r
<1>5. ~(n + 1 \in B)
  BY <1>1, <1>2
<1>6. Cardinality(B \cup {n + 1}) = Cardinality(B) + 1
  BY <1>1, <1>5, FS_AddElement
<1>. DEFINE Q == B \cup {n + 1}
<1>7. Sum(r, Q) = Sum(l, B) + e.size
  <2>1. \A k \in DOMAIN l : k \in Q <=> k \in B
    BY <1>2
  <2>2. n + 1 \in Q
    OBVIOUS
  <2>. HIDE DEF Q
  <2>3. Sum(r, Q) = Sum(l, B) + IF Len(l) + 1 \in Q THEN e.size ELSE 0
    BY <2>1, SumOfAppend DEF r
  <2>. QED
    BY <2>2, <2>3 DEF n
<1>8. line.count = Cardinality(Q) /\ line.size = Sum(r, Q)
  BY <1>4, <1>6, <1>7
<1>9. BlocksIn(r, line) = Q
  BY <1>1
<1>. HIDE DEF Q
<1>10. Adds(line, r)
  BY <1>8, <1>9, Zenon DEF Adds
<1>. QED
  BY <1>10 DEF r

(* A new line has its one block's totals.                                  *)
LEMMA LineStarts ==
  ASSUME NEW l \in Seq(Elements), NEW e \in Elements, NEW line, e.stack = line.stack,
         \A i \in DOMAIN l : l[i].stack # e.stack,
         line.size = e.size, line.count = 1
  PROVE  Adds(line, Append(l, e))
<1>. DEFINE n == Len(l)
            r == Append(l, e)
            Q == {n + 1}
<1>1. n \in Nat /\ DOMAIN l = 1 .. n /\ e.size \in Nat
  BY SizeIsNat
<1>2. BlocksIn(l, line) = {}
  BY DEF BlocksIn
<1>3. BlocksIn(r, line) = Q
  <2>1. BlocksIn(r, line) = BlocksIn(l, line) \cup {n + 1}
    BY BlocksGrow
  <2>. QED
    BY <1>2, <2>1
<1>4. Cardinality(Q) = 1
  BY FS_Singleton
<1>5. \A k \in DOMAIN l : k \notin Q
  BY <1>1
<1>6. n + 1 \in Q
  OBVIOUS
<1>. HIDE DEF Q
<1>7. Sum(l, Q) = 0
  BY <1>5, SumOfNone
<1>8. Sum(r, Q) = Sum(l, Q) + IF Len(l) + 1 \in Q THEN e.size ELSE 0
  BY SumOfAppend
<1>9. Sum(r, Q) = e.size
  BY <1>1, <1>6, <1>7, <1>8
<1>. HIDE DEF r
<1>10. Adds(line, r)
  BY <1>3, <1>4, <1>9, Zenon DEF Adds
<1>. QED
  BY <1>10 DEF r

(* Its block goes to the head of the list, the first of a new one too.     *)
LEMMA ListGrows ==
  ASSUME NEW l \in Seq(Elements), NEW e \in Elements, NEW line, e.stack = line.stack,
         NEW S, NEW nodes \in Seq(S), NEW node \in S,
         node = [address |-> e.key, size |-> e.size],
         line.nodes = <<node>> \o nodes,
         Len(nodes) = Cardinality(BlocksIn(l, line)),
         \A b \in BlocksIn(l, line) :
           nodes[Cardinality({c \in BlocksIn(l, line) : c >= b})] =
             [address |-> l[b].key, size |-> l[b].size]
  PROVE  Lists(line, Append(l, e))
<1>. DEFINE B == BlocksIn(l, line)
            r == Append(l, e)
            n == Len(l)
            Q == B \cup {n + 1}
            From(P, b) == {c \in P : c >= b}
<1>1. BlocksIn(r, line) = Q /\ B \subseteq 1 .. n /\ IsFiniteSet(B)
  BY BlocksGrow, BlocksAreFinite
<1>2. /\ n \in Nat /\ r[n + 1] = e /\ \A i \in 1 .. n : r[i] = l[i]
  OBVIOUS
<1>3. /\ Len(nodes) = Cardinality(B)
      /\ \A b \in B : nodes[Cardinality(From(B, b))] = [address |-> l[b].key, size |-> l[b].size]
  OBVIOUS
<1>4. /\ Len(line.nodes) = Len(nodes) + 1 /\ line.nodes[1] = node
      /\ \A k \in 1 .. Len(nodes) : line.nodes[k + 1] = nodes[k]
  OBVIOUS
<1>. HIDE DEF B, n, r
<1>5. ~(n + 1 \in B) /\ \A b \in B : b \in Nat /\ b < n + 1
  BY <1>1, <1>2
<1>6. Cardinality(Q) = Cardinality(B) + 1 /\ Cardinality(B) \in Nat
  BY <1>1, <1>5, FS_AddElement, FS_CardinalityType
<1>7. From(Q, n + 1) = {n + 1} /\ Cardinality({n + 1}) = 1
  <2>1. From(Q, n + 1) = {n + 1}
    BY <1>2, <1>5
  <2>. QED
    BY <2>1, FS_Singleton
<1>8. ASSUME NEW b \in B
      PROVE  /\ Cardinality(From(B, b)) \in 1 .. Len(nodes)
             /\ Cardinality(From(Q, b)) = Cardinality(From(B, b)) + 1
  <2>1. From(B, b) \subseteq B /\ b \in From(B, b) /\ ~(n + 1 \in From(B, b))
    BY <1>5
  <2>2. IsFiniteSet(From(B, b)) /\ Cardinality(From(B, b)) <= Cardinality(B)
    BY <1>1, <2>1, FS_Subset
  <2>3. Cardinality(From(B, b)) \in Nat /\ Cardinality(From(B, b)) # 0
    BY <2>1, <2>2, FS_CardinalityType, FS_EmptySet
  <2>4. From(Q, b) = From(B, b) \cup {n + 1}
    BY <1>2, <1>5
  <2>. HIDE DEF From
  <2>5. Cardinality(From(B, b) \cup {n + 1}) = Cardinality(From(B, b)) + 1
    BY <2>1, <2>2, FS_AddElement
  <2>6. Cardinality(From(Q, b)) = Cardinality(From(B, b)) + 1
    BY <2>4, <2>5
  <2>7. Len(nodes) = Cardinality(B) /\ Cardinality(B) \in Nat
    BY <1>3, <1>6
  <2>. HIDE DEF Q
  <2>8. Cardinality(From(B, b)) \in 1 .. Len(nodes)
    BY <2>2, <2>3, <2>7
  <2>. QED
    BY <2>6, <2>8
<1>. HIDE DEF From
<1>9. Len(line.nodes) = Cardinality(Q)
  BY <1>3, <1>4, <1>6
<1>10. \A b \in Q : line.nodes[Cardinality(From(Q, b))] = [address |-> r[b].key, size |-> r[b].size]
  <2>1. ASSUME NEW b \in B
        PROVE  line.nodes[Cardinality(From(Q, b))] = [address |-> r[b].key, size |-> r[b].size]
    <3>1. line.nodes[Cardinality(From(Q, b))] = nodes[Cardinality(From(B, b))]
      BY <1>4, <1>8
    <3>2. r[b] = l[b]
      BY <1>1, <1>2
    <3>. QED
      BY <1>3, <3>1, <3>2
  <2>2. line.nodes[Cardinality(From(Q, n + 1))] = [address |-> r[n + 1].key, size |-> r[n + 1].size]
    BY <1>2, <1>4, <1>7
  <2>. QED
    BY <2>1, <2>2
<1>. HIDE DEF Q
<1>11. Lists(line, r)
  BY <1>1, <1>9, <1>10, Zenon DEF Lists, From
<1>. QED
  BY <1>11 DEF r

(* A block under a line, and a line.                                       *)
Node == [address : Keys, size : Sizes]

Line == [stack : Stacks, size : Nat, count : Nat, nodes : Seq(Node)]

(* What a counted block adds has the types of a line.                      *)
LEMMA CountedIsTyped ==
  ASSUME WalkTypeOK, NEW e \in Elements, Keyed(e), Counts(e)
  PROVE  /\ e.stack \in Stacks /\ Fresh(e) \in Line /\ Nodes(e) \in Seq(Node)
         /\ \A a \in Line : Merged(a, e) \in Line
<1>1. e.stack \in Stacks
  <2>1. CASE kind = "each"
    BY <2>1, StackIsNumber DEF Counts
  <2>2. CASE kind = "combined"
    BY <2>2 DEF Keyed
  <2>. QED
    BY <2>1, <2>2 DEF WalkTypeOK
<1>2. e.size \in Nat /\ e.size \in Sizes /\ e.key \in Keys
  BY SizeIsNat DEF Elements
<1>3. Nodes(e) \in Seq(Node)
  <2>1. [address |-> e.key, size |-> e.size] \in Node
    BY <1>2 DEF Node
  <2>2. \A x \in Node : <<x>> \in Seq(Node)
    OBVIOUS
  <2>3. <<>> \in Seq(Node)
    OBVIOUS
  <2>. HIDE DEF Node
  <2>. QED
    BY <2>1, <2>2, <2>3, Zenon DEF Nodes
<1>4. Fresh(e) \in Line
  <2>. HIDE DEF Node
  <2>. QED
    BY <1>1, <1>2, <1>3 DEF Fresh, Line
<1>5. ASSUME NEW a \in Line PROVE Merged(a, e) \in Line
  <2>1. /\ a.stack \in Stacks /\ a.size \in Nat /\ a.count \in Nat /\ a.nodes \in Seq(Node)
        /\ a = [stack |-> a.stack, size |-> a.size, count |-> a.count, nodes |-> a.nodes]
    BY DEF Line
  <2>2. Nodes(e) \o a.nodes \in Seq(Node)
    BY <1>3, <2>1, ConcatProperties
  <2>3. Merged(a, e) = [stack |-> a.stack, size |-> a.size + e.size,
                        count |-> a.count + 1, nodes |-> Nodes(e) \o a.nodes]
    <3>1. ASSUME NEW s, NEW z, NEW c, NEW N,
                 a = [stack |-> s, size |-> z, count |-> c, nodes |-> N]
          PROVE  Merged(a, e) = [stack |-> s, size |-> z + e.size,
                                 count |-> c + 1, nodes |-> Nodes(e) \o N]
      <4>. DEFINE M == Nodes(e) \o N
      <4>1. a.nodes = N /\ a.size = z /\ a.count = c
        BY <3>1
      <4>2. Merged(a, e) = [a EXCEPT !.size = z + e.size, !.count = c + 1, !.nodes = M]
        BY <4>1, Zenon DEF Merged
      <4>. HIDE DEF M
      <4>3. Merged(a, e) = [stack |-> s, size |-> z + e.size, count |-> c + 1, nodes |-> M]
        BY <3>1, <4>2
      <4>. QED
        BY <4>3 DEF M
    <3>. QED
      BY <2>1, <3>1, Zenon
  <2>4. a.size + e.size \in Nat /\ a.count + 1 \in Nat
    BY <1>2, <2>1
  <2>. HIDE DEF Node
  <2>. QED
    BY <2>1, <2>2, <2>3, <2>4 DEF Line
<1>. QED
  BY <1>1, <1>3, <1>4, <1>5

(* The lines with a block counted in: every line says what is counted.     *)
GoodLines(A, l) ==
  /\ \A i, j \in DOMAIN A : A[i].stack = A[j].stack => i = j
  /\ \A i \in DOMAIN A : Adds(A[i], l)
  /\ showAllocs => \A i \in DOMAIN A : Lists(A[i], l)

HasLine(A, l) == \A k \in DOMAIN l : \E i \in DOMAIN A : A[i].stack = l[k].stack

(* The log is what it was and one more.                                    *)
LEMMA LogGrows ==
  ASSUME NEW l \in Seq(Elements), NEW e \in Elements
  PROVE  /\ Append(l, e) \in Seq(Elements) /\ Len(Append(l, e)) = Len(l) + 1
         /\ Len(l) \in Nat /\ DOMAIN l = 1 .. Len(l) /\ DOMAIN Append(l, e) = 1 .. Len(l) + 1
         /\ Append(l, e)[Len(l) + 1] = e
         /\ \A k \in DOMAIN l : k \in DOMAIN Append(l, e) /\ Append(l, e)[k] = l[k]
         /\ \A k \in DOMAIN Append(l, e) : k \in DOMAIN l \/ k = Len(l) + 1
OBVIOUS

(* A block of a stack that has a line.                                     *)
LEMMA KnownStackGrows ==
  ASSUME WalkTypeOK, kind = "each", NEW e \in Elements, Keyed(e), Counts(e),
         GoodLines(allocs, log), HasLine(allocs, log),
         NEW p \in DOMAIN allocs, allocs[p].stack = e.stack,
         NEW A, A = AddedBlock(e)
  PROVE  A \in Seq(Line) /\ GoodLines(A, Append(log, e)) /\ HasLine(A, Append(log, e))
<1>. DEFINE n == Len(allocs)
            r == Append(log, e)
<1>1. allocs \in Seq(Line) /\ log \in Seq(Elements) /\ n \in Nat /\ DOMAIN allocs = 1 .. n
  BY DEF WalkTypeOK, Line, Node
<1>2. A = [i \in 1 .. n |-> IF allocs[i].stack = e.stack THEN Merged(allocs[i], e) ELSE allocs[i]]
  BY <1>1 DEF AddedBlock
<1>3. \A i \in 1 .. n : allocs[i] \in Line
  BY <1>1
<1>4. \A a \in Line : Merged(a, e) \in Line
  BY CountedIsTyped
<1>5. A \in Seq(Line) /\ DOMAIN A = 1 .. n
  <2>. HIDE DEF n
  <2>1. \A i \in 1 .. n : A[i] \in Line
    BY <1>2, <1>3, <1>4
  <2>2. A \in [1 .. n -> Line]
    BY <1>2, <2>1
  <2>. QED
    BY <1>1, <2>2
<1>. HIDE DEF n
<1>6. ASSUME NEW a \in Line
      PROVE  /\ Merged(a, e).stack = a.stack /\ Merged(a, e).size = a.size + e.size
             /\ Merged(a, e).count = a.count + 1 /\ Merged(a, e).nodes = Nodes(e) \o a.nodes
  BY DEF Merged, Line
<1>7. \A i \in 1 .. n :
        A[i] = IF allocs[i].stack = e.stack THEN Merged(allocs[i], e) ELSE allocs[i]
  BY <1>2
<1>8. \A i \in 1 .. n : A[i].stack = allocs[i].stack
  BY <1>3, <1>6, <1>7
<1>9. \A i, j \in DOMAIN A : A[i].stack = A[j].stack => i = j
  BY <1>1, <1>5, <1>8 DEF GoodLines
<1>10. ASSUME NEW i \in 1 .. n
       PROVE  Adds(A[i], r)
  <2>1. Adds(allocs[i], log)
    BY <1>1, <1>10 DEF GoodLines
  <2>2. CASE allocs[i].stack = e.stack
    <3>1. /\ A[i].stack = allocs[i].stack /\ A[i].size = allocs[i].size + e.size
          /\ A[i].count = allocs[i].count + 1
      BY <1>3, <1>6, <1>7, <2>2
    <3>. QED
      BY <1>1, <2>1, <2>2, <3>1, LineGrows
  <2>3. CASE allocs[i].stack # e.stack
    <3>1. A[i] = allocs[i]
      BY <1>7, <2>3
    <3>. QED
      BY <1>1, <2>1, <2>3, <3>1, OtherLineStays
  <2>. QED
    BY <2>2, <2>3
<1>11. ASSUME showAllocs, NEW i \in 1 .. n
       PROVE  Lists(A[i], r)
  <2>1. Lists(allocs[i], log)
    BY <1>1, <1>11 DEF GoodLines
  <2>2. CASE allocs[i].stack = e.stack
    <3>. DEFINE node == [address |-> e.key, size |-> e.size]
                nodes == allocs[i].nodes
    <3>1. A[i].stack = allocs[i].stack /\ A[i].nodes = <<node>> \o nodes
      BY <1>3, <1>6, <1>7, <1>11, <2>2 DEF Nodes
    <3>2. nodes \in Seq(Node) /\ node \in Node
      <4>1. nodes \in Seq(Node)
        BY <1>3 DEF Line
      <4>. QED
        BY <4>1 DEF Elements, Node
    <3>3. BlocksIn(log, A[i]) = BlocksIn(log, allocs[i])
      BY <3>1, Zenon DEF BlocksIn
    <3>4. /\ Len(nodes) = Cardinality(BlocksIn(log, A[i]))
          /\ \A b \in BlocksIn(log, A[i]) :
               nodes[Cardinality({c \in BlocksIn(log, A[i]) : c >= b})] =
                 [address |-> log[b].key, size |-> log[b].size]
      BY <2>1, <3>3, Zenon DEF Lists
    <3>5. e.stack = A[i].stack
      BY <2>2, <3>1
    <3>6. node = [address |-> e.key, size |-> e.size]
      OBVIOUS
    <3>. HIDE DEF node, nodes, Node, r
    <3>7. Lists(A[i], Append(log, e))
      BY <1>1, <3>1, <3>2, <3>4, <3>5, <3>6, ListGrows
    <3>. QED
      BY <3>7 DEF r
  <2>3. CASE allocs[i].stack # e.stack
    <3>1. A[i] = allocs[i]
      BY <1>7, <2>3
    <3>. QED
      BY <1>1, <2>1, <2>3, <3>1, OtherLineStays
  <2>. QED
    BY <2>2, <2>3
<1>12. HasLine(A, r)
  <2>1. SUFFICES ASSUME NEW k \in DOMAIN r
                 PROVE  \E i \in DOMAIN A : A[i].stack = r[k].stack
    BY DEF HasLine
  <2>2. CASE k \in DOMAIN log
    <3>1. r[k] = log[k]
      BY <1>1, <2>2, LogGrows
    <3>. QED
      BY <1>1, <1>5, <1>8, <2>2, <3>1 DEF HasLine
  <2>3. CASE ~(k \in DOMAIN log)
    <3>1. r[k] = e
      BY <1>1, <2>1, <2>3, LogGrows
    <3>. QED
      BY <1>1, <1>5, <1>8, <3>1
  <2>. QED
    BY <2>2, <2>3
<1>13. GoodLines(A, r)
  <2>. HIDE DEF r
  <2>. QED
    BY <1>5, <1>9, <1>10, <1>11 DEF GoodLines
<1>. QED
  BY <1>5, <1>12, <1>13

(* The first block of a stack.                                             *)
LEMMA NewStackStarts ==
  ASSUME WalkTypeOK, kind = "each", NEW e \in Elements, Keyed(e), Counts(e),
         GoodLines(allocs, log), HasLine(allocs, log),
         \A i \in DOMAIN allocs : allocs[i].stack # e.stack,
         NEW A, A = Append(allocs, Fresh(e))
  PROVE  A \in Seq(Line) /\ GoodLines(A, Append(log, e)) /\ HasLine(A, Append(log, e))
<1>. DEFINE n == Len(allocs)
            r == Append(log, e)
            new == Fresh(e)
<1>1. allocs \in Seq(Line) /\ log \in Seq(Elements) /\ n \in Nat /\ DOMAIN allocs = 1 .. n
  BY DEF WalkTypeOK, Line, Node
<1>2. new \in Line
  BY CountedIsTyped
<1>3. new.stack = e.stack /\ new.size = e.size /\ new.count = 1 /\ new.nodes = Nodes(e)
  BY DEF Fresh
<1>. HIDE DEF new
<1>4. /\ A \in Seq(Line) /\ DOMAIN A = 1 .. n + 1 /\ A[n + 1] = new
      /\ \A i \in 1 .. n : A[i] = allocs[i]
  <2>. HIDE DEF Line
  <2>1. A = Append(allocs, new)
    BY DEF new
  <2>. QED
    BY <1>1, <1>2, <2>1
<1>. HIDE DEF n
<1>5. \A i \in 1 .. n + 1 : i = n + 1 \/ i \in 1 .. n
  BY <1>1
<1>6. n + 1 \in 1 .. n + 1 /\ 1 .. n \subseteq 1 .. n + 1
  BY <1>1
<1>7. \A k \in DOMAIN log : log[k].stack # e.stack
  BY DEF HasLine
<1>8. \A i, j \in DOMAIN A : A[i].stack = A[j].stack => i = j
  <2>1. \A i \in 1 .. n : A[i].stack # e.stack
    BY <1>1, <1>4
  <2>2. A[n + 1].stack = e.stack
    BY <1>3, <1>4
  <2>3. \A i, j \in 1 .. n : A[i].stack = A[j].stack => i = j
    BY <1>1, <1>4 DEF GoodLines
  <2>4. ASSUME NEW i \in 1 .. n + 1, NEW j \in 1 .. n + 1, A[i].stack = A[j].stack
        PROVE  i = j
    <3>1. CASE i \in 1 .. n /\ j \in 1 .. n
      BY <2>3, <2>4, <3>1
    <3>2. CASE i = n + 1 \/ j = n + 1
      BY <1>5, <2>1, <2>2, <2>4, <3>2
    <3>. QED
      BY <1>5, <3>1, <3>2
  <2>. QED
    BY <1>4, <2>4
<1>9. Adds(new, r)
  BY <1>1, <1>3, <1>7, LineStarts
<1>10. showAllocs => Lists(new, r)
  <2>. SUFFICES ASSUME showAllocs PROVE Lists(new, r)
    OBVIOUS
  <2>. DEFINE node == [address |-> e.key, size |-> e.size]
              none == <<>>
  <2>1. new.nodes = <<node>>
    BY <1>3 DEF Nodes
  <2>2. node \in Node /\ none \in Seq(Node) /\ Len(none) = 0
    BY DEF Elements, Node
  <2>3. <<node>> \o none = <<node>>
    <3>1. \A x \in Seq(Node) : x \o <<>> = x
      OBVIOUS
    <3>2. <<node>> \in Seq(Node)
      BY <2>2
    <3>. QED
      BY <3>1, <3>2
  <2>4. BlocksIn(log, new) = {}
    BY <1>3, <1>7 DEF BlocksIn
  <2>5. Len(none) = Cardinality(BlocksIn(log, new))
    BY <2>2, <2>4, FS_EmptySet
  <2>6. \A b \in BlocksIn(log, new) :
          none[Cardinality({c \in BlocksIn(log, new) : c >= b})] =
            [address |-> log[b].key, size |-> log[b].size]
    BY <2>4
  <2>7. node = [address |-> e.key, size |-> e.size]
    OBVIOUS
  <2>8. new.nodes = <<node>> \o none
    BY <2>1, <2>3
  <2>. HIDE DEF node, none, Node, r
  <2>9. Lists(new, Append(log, e))
    BY <1>1, <1>3, <2>2, <2>5, <2>6, <2>7, <2>8, ListGrows
  <2>. QED
    BY <2>9 DEF r
<1>11. ASSUME NEW i \in 1 .. n PROVE Adds(A[i], r) /\ (showAllocs => Lists(A[i], r))
  <2>1. A[i] = allocs[i] /\ e.stack # allocs[i].stack
    BY <1>1, <1>4, <1>11
  <2>2. Adds(allocs[i], log) /\ (showAllocs => Lists(allocs[i], log))
    BY <1>1, <1>11 DEF GoodLines
  <2>. QED
    BY <1>1, <2>1, <2>2, OtherLineStays
<1>12. HasLine(A, r)
  <2>1. SUFFICES ASSUME NEW k \in DOMAIN r
                 PROVE  \E i \in DOMAIN A : A[i].stack = r[k].stack
    BY DEF HasLine
  <2>2. CASE k \in DOMAIN log
    <3>1. r[k] = log[k]
      BY <1>1, <2>2, LogGrows
    <3>2. PICK i \in 1 .. n : allocs[i].stack = log[k].stack
      BY <1>1, <2>2 DEF HasLine
    <3>. QED
      BY <1>4, <1>6, <3>1, <3>2
  <2>3. CASE ~(k \in DOMAIN log)
    <3>1. r[k] = e
      BY <1>1, <2>1, <2>3, LogGrows
    <3>. QED
      BY <1>3, <1>4, <1>6, <3>1
  <2>. QED
    BY <2>2, <2>3
<1>13. GoodLines(A, r)
  <2>. HIDE DEF r
  <2>1. \A i \in 1 .. n + 1 : Adds(A[i], r)
    BY <1>4, <1>5, <1>9, <1>11
  <2>2. showAllocs => \A i \in 1 .. n + 1 : Lists(A[i], r)
    BY <1>4, <1>5, <1>10, <1>11
  <2>. QED
    BY <1>4, <1>8, <2>1, <2>2 DEF GoodLines
<1>. QED
  BY <1>4, <1>12, <1>13

(* A block is counted: its stack's line takes it in.                       *)
LEMMA TallyKeepsTotals ==
  ASSUME WInv, stage = "lookup", curr \in Stored, Counts(Found), Tally
  PROVE  allocs' \in Seq(Line) /\ CountedHasTotal' /\ TotalsAddUp'
<1>1. WalkTypeOK /\ CountedHasTotal /\ TotalsAddUp
  BY DEF WInv
<1>2. Found \in Elements /\ Keyed(Found)
  BY FoundIsIt
<1>. DEFINE e == Found
<1>3. /\ allocs' = Added(e) /\ log' = Append(log, e) /\ stage' = "next"
      /\ UNCHANGED <<settings, mapVars>>
  BY DEF Tally, GoesOn, walkRest
<1>. HIDE DEF e
<1>4. kind' = kind /\ showAllocs' = showAllocs
  BY <1>3, WalkLeavesMap
<1>5. e \in Elements /\ Keyed(e) /\ Counts(e)
  BY <1>2 DEF e
<1>6. CASE kind = "each"
  <2>1. GoodLines(allocs, log) /\ HasLine(allocs, log)
    BY <1>1, <1>6, TotalsInLines DEF LinesAddUp, GoodLines, HasLine, CountedHasTotal
  <2>2. allocs' \in Seq(Line) /\ GoodLines(allocs', log') /\ HasLine(allocs', log')
    <3>1. CASE \E i \in DOMAIN allocs : allocs[i].stack = e.stack
      <4>1. PICK p \in DOMAIN allocs : allocs[p].stack = e.stack
        BY <3>1
      <4>2. allocs' = AddedBlock(e)
        BY <1>3, <1>6 DEF Added
      <4>. QED
        BY <1>1, <1>3, <1>5, <1>6, <2>1, <4>1, <4>2, KnownStackGrows
    <3>2. CASE ~\E i \in DOMAIN allocs : allocs[i].stack = e.stack
      <4>1. allocs' = Append(allocs, Fresh(e))
        BY <1>3, <1>6, <3>2 DEF Added, AddedBlock
      <4>. QED
        BY <1>1, <1>3, <1>5, <1>6, <2>1, <3>2, <4>1, NewStackStarts
    <3>. QED
      BY <3>1, <3>2
  <2>3. LinesAddUp'
    BY <1>4, <1>6, <2>2 DEF LinesAddUp, GoodLines
  <2>4. CountedHasTotal'
    BY <1>4, <1>6, <2>2 DEF CountedHasTotal, HasLine
  <2>. QED
    BY <2>2, <2>3, <2>4, TotalsInLinesNext
<1>7. CASE kind = "combined"
  <2>1. allocs' = Append(allocs, Fresh(e))
    BY <1>3, <1>7 DEF Added, AddedStack
  <2>2. allocs \in Seq(Line) /\ log \in Seq(Elements)
    BY <1>1 DEF WalkTypeOK, Line, Node
  <2>3. Fresh(e) \in Line
    BY <1>1, <1>5, CountedIsTyped
  <2>4. allocs' \in Seq(Line) /\ Len(allocs') = Len(allocs) + 1 /\ Len(log') = Len(log) + 1
    <3>. HIDE DEF Line
    <3>1. \A f \in Line : Append(allocs, f) \in Seq(Line) /\ Len(Append(allocs, f)) = Len(allocs) + 1
      BY <2>2
    <3>2. Len(log') = Len(log) + 1
      BY <1>3, <1>5, <2>2, LogGrows
    <3>. QED
      BY <2>1, <2>3, <3>1, <3>2
  <2>5. CountedHasTotal'
    BY <1>1, <1>4, <1>7, <2>4 DEF CountedHasTotal
  <2>6. TotalsAddUp'
    BY <1>4, <1>7 DEF TotalsAddUp
  <2>. QED
    BY <2>4, <2>5, <2>6
<1>. QED
  BY <1>1, <1>6, <1>7 DEF WalkTypeOK

-----------------------------------------------------------------------------
(* The walk *)

(* A block or a stack is counted.                                          *)
LEMMA TallyKeepsWInv ==
  ASSUME WInv, Tally
  PROVE  WInv'
<1>1. /\ WalkTypeOK /\ InWalkOrder(map) /\ MapIsOrdered /\ WalkIsSomewhere /\ CountedIsBehind
      /\ CountedIsSound /\ CountedOnce
  BY DEF WInv, MapIsOrdered
<1>2. /\ stage = "lookup" /\ curr \in Stored /\ Counts(Found) /\ GoesOn
      /\ log' = Append(log, Found)
  BY DEF Tally
<1>3. /\ stage' = "next" /\ prev' = curr /\ curr' = curr /\ result' = result /\ shown' = shown
      /\ UNCHANGED <<settings, mapVars>>
  BY <1>2 DEF GoesOn, walkRest
<1>4. /\ MapIsOrdered'
      /\ map' = map /\ changes' = changes /\ stayed' = stayed /\ disturbed' = disturbed
      /\ kind' = kind /\ showAllocs' = showAllocs /\ bucket' = bucket /\ now' = now
      /\ skipped' = skipped /\ settings' = settings
  BY <1>3, WalkLeavesMap
<1>5. /\ Found \in Elements /\ Found.key = curr /\ Keyed(Found) /\ ~Ahead(map, curr, curr)
      /\ \A s \in stayed : s.key = curr => s = Found
  BY <1>2, FoundIsIt
<1>6. allocs' \in Seq(Line) /\ CountedHasTotal' /\ TotalsAddUp'
  BY <1>2, TallyKeepsTotals
<1>. DEFINE n == Len(log)
            e == Found
<1>7. /\ log' \in Seq(Elements) /\ n \in Nat /\ DOMAIN log = 1 .. n /\ DOMAIN log' = 1 .. n + 1
      /\ log'[n + 1] = e
      /\ \A k \in DOMAIN log : k \in DOMAIN log' /\ log'[k] = log[k]
      /\ \A k \in DOMAIN log' : k \in DOMAIN log \/ k = n + 1
  <2>1. log \in Seq(Elements)
    BY <1>1 DEF WalkTypeOK
  <2>. QED
    BY <1>2, <1>5, <2>1, LogGrows
<1>8. n + 1 \in DOMAIN log'
  BY <1>7
<1>. HIDE DEF n, e
<1>9. WalkTypeOK' /\ WalkIsSomewhere'
  <2>1. curr \in Keys
    BY <1>1, <1>2 DEF WalkIsSomewhere
  <2>2. WalkIsSomewhere'
    BY <1>1, <1>2, <1>3, <2>1 DEF WalkIsSomewhere
  <2>3. allocs' \in Seq([stack : Stacks, size : Nat, count : Nat,
                         nodes : Seq([address : Keys, size : Sizes])])
    BY <1>6 DEF Line, Node
  <2>. QED
    BY <1>1, <1>3, <1>4, <1>7, <2>1, <2>2, <2>3 DEF WalkTypeOK
<1>10. e.key = curr /\ Keyed(e) /\ Counts(e)
  BY <1>2, <1>5 DEF e
<1>11. RestIsToCome'
  <2>1. KeysIn(Range(log)) \subseteq KeysIn(Range(log'))
    BY <1>7 DEF KeysIn, Range
  <2>2. \A s \in stayed : Handled(s) => Handled(s)'
    BY <1>4, <2>1 DEF Handled, OldEnough
  <2>3. e.key \in KeysIn(Range(log'))
    BY <1>7, <1>8 DEF KeysIn, Range
  <2>4. \A s \in stayed : s.key = curr => Handled(s)'
    BY <1>10, <2>3 DEF Handled
  <2>. QED
    BY <1>2, <2>2, <2>4, RestAfterCurr
<1>12. CountedIsSound'
  <2>1. \A k \in DOMAIN log' : Keyed(log'[k]) /\ Counts(log'[k])
    BY <1>1, <1>7, <1>10 DEF CountedIsSound
  <2>. QED
    BY <1>4, <2>1 DEF CountedIsSound, Keyed, Counts, TooYoung
<1>13. CountedOnce' /\ CountedIsBehind'
  <2>. SUFFICES ASSUME ~disturbed PROVE CountedOnce' /\ CountedIsBehind'
    BY <1>4 DEF CountedOnce, CountedIsBehind
  <2>1. \A k \in DOMAIN log : log[k].key \in Stored /\ log[k].key # curr
                                /\ ~Ahead(map, curr, log[k].key)
    BY <1>1, <1>2 DEF CountedIsBehind
  <2>2. \A k \in DOMAIN log' : log'[k].key \in Stored /\ ~Ahead(map, curr, log'[k].key)
    BY <1>2, <1>5, <1>7, <1>10, <2>1
  <2>3. CountedIsBehind'
    BY <1>2, <1>3, <1>4, <2>2 DEF CountedIsBehind, Stored
  <2>4. ASSUME NEW i \in DOMAIN log', NEW j \in DOMAIN log', log'[i].key = log'[j].key
        PROVE  i = j
    <3>1. CASE i \in DOMAIN log /\ j \in DOMAIN log
      BY <1>1, <1>7, <2>4, <3>1 DEF CountedOnce
    <3>2. CASE i = n + 1 \/ j = n + 1
      BY <1>7, <1>10, <2>1, <2>4, <3>2
    <3>. QED
      BY <1>7, <3>1, <3>2
  <2>5. CountedOnce'
    BY <2>4 DEF CountedOnce
  <2>. QED
    BY <2>3, <2>5
<1>. QED
  BY <1>4, <1>6, <1>9, <1>11, <1>12, <1>13 DEF WInv

(* The walk begins with nothing counted and all of the map to come, but    *)
(* for what lies up to key 0.                                              *)
LEMMA InitWInv == WalkInit => WInv
<1>. SUFFICES ASSUME WalkInit PROVE WInv
  OBVIOUS
<1>1. /\ kind \in {"each", "combined"} /\ showAllocs \in BOOLEAN
      /\ (kind = "combined" => ~showAllocs)
      /\ bucket \in Hashes /\ now \in 0 .. MaxTime
      /\ InWalkOrder(map) /\ changes = 0
      /\ stage = "first" /\ prev = 0 /\ curr = 0
      /\ allocs = <<>> /\ shown = 0 /\ result = "none"
      /\ stayed = Range(map) /\ disturbed = FALSE /\ log = <<>>
  BY DEF WalkInit
<1>2. skipped = IF 0 \in Stored THEN {map[i] : i \in 1 .. Position(0)} ELSE {}
  BY DEF WalkInit
<1>. DEFINE Old == {[x EXCEPT !.time = t] : x \in Storable, t \in {0, now}}
<1>3. PICK n \in 0 .. MapSize : map \in [1 .. n -> Old]
  BY DEF WalkInit
<1>4. \A x \in Storable : x \in Elements /\ Keyed(x)
  <2>1. CASE kind = "each"
    BY <1>1, <2>1, OutstandingWalkAssumption DEF Storable, Elements, Keyed, Keys
  <2>2. CASE kind = "combined"
    BY <1>1, <2>2, OutstandingWalkAssumption DEF Storable, Elements, Keyed, Keys
  <2>. QED
    BY <1>1, <2>1, <2>2
<1>5. \A x \in Old : x \in Elements /\ Keyed(x)
  <2>1. ASSUME NEW x \in Elements, Keyed(x), NEW t \in {0, now}
        PROVE  [x EXCEPT !.time = t] \in Elements /\ Keyed([x EXCEPT !.time = t])
    <3>1. t \in 0 .. MaxTime
      BY <1>1, OutstandingWalkAssumption
    <3>2. [x EXCEPT !.time = t] \in Elements
      BY <3>1 DEF Elements
    <3>3. /\ [x EXCEPT !.time = t].key = x.key
          /\ [x EXCEPT !.time = t].stack = x.stack
      BY DEF Elements
    <3>. QED
      BY <2>1, <3>2, <3>3 DEF Keyed
  <2>. DEFINE At(x, t) == [x EXCEPT !.time = t]
  <2>2. Old = {At(x, t) : x \in Storable, t \in {0, now}}
    OBVIOUS
  <2>3. \A x \in Elements, t \in {0, now} : Keyed(x) => At(x, t) \in Elements /\ Keyed(At(x, t))
    BY <2>1
  <2>. HIDE DEF At, Old
  <2>4. ASSUME NEW x \in Storable, NEW t \in {0, now}
        PROVE  At(x, t) \in Elements /\ Keyed(At(x, t))
    BY <1>4, <2>3
  <2>5. \A y \in {At(x, t) : x \in Storable, t \in {0, now}} : y \in Elements /\ Keyed(y)
    BY <2>4
  <2>6. \A y \in Old : y \in Elements /\ Keyed(y)
    BY <2>2, <2>5
  <2>. QED
    BY <2>6 DEF Old
<1>. HIDE DEF Old
<1>6. /\ map \in Seq(Elements) /\ Len(map) <= MapSize /\ DOMAIN map = 1 .. n
      /\ \A i \in DOMAIN map : map[i] \in Elements /\ Keyed(map[i])
  <2>1. \A i \in 1 .. n : map[i] \in Elements /\ Keyed(map[i])
    BY <1>3, <1>5
  <2>2. map \in [1 .. n -> Elements] /\ n \in Nat
    BY <1>3, <2>1
  <2>3. map \in Seq(Elements) /\ Len(map) = n
    BY <2>2
  <2>. QED
    BY <1>3, <2>1, <2>3, OutstandingWalkAssumption
<1>7. 0 \in Stored => Position(0) \in DOMAIN map /\ map[Position(0)].key = 0
  BY DEF Stored, Position
<1>8. skipped \subseteq Elements
  BY <1>2, <1>6, <1>7
<1>9. stayed \subseteq Elements
  BY <1>1, <1>6 DEF Range
<1>10. WalkTypeOK
  <2>1. allocs \in Seq([stack : Stacks, size : Nat, count : Nat,
                        nodes : Seq([address : Keys, size : Sizes])])
    BY <1>1
  <2>2. log \in Seq(Elements) /\ 0 \in 0 .. MaxChanges
    BY <1>1, OutstandingWalkAssumption
  <2>. QED
    BY <1>1, <1>6, <1>8, <1>9, <2>1, <2>2 DEF WalkTypeOK
<1>11. MapIsOrdered /\ WalkIsSomewhere
  BY <1>1, <1>6 DEF MapIsOrdered, WalkIsSomewhere
<1>12. RestIsToCome
  <2>1. SUFFICES ASSUME NEW s \in stayed, ~Handled(s)
                 PROVE  s.key # 0 /\ ~Ahead(map, s.key, 0)
    BY <1>1 DEF RestIsToCome
  <2>2. s.key \notin KeysIn(skipped)
    BY <2>1 DEF Handled
  <2>3. CASE 0 \notin Stored
    <3>1. \A i \in DOMAIN map : map[i].key # 0
      BY <2>3 DEF Stored
    <3>. QED
      BY <1>1, <3>1 DEF Range, Ahead
  <2>4. CASE 0 \in Stored
    <3>1. \A i \in DOMAIN map : i <= Position(0) => map[i].key # s.key
      BY <1>2, <1>6, <2>2, <2>4 DEF KeysIn
    <3>2. \A j \in DOMAIN map : map[j].key = 0 => j = Position(0)
      BY <1>1, <1>6, <1>7, <2>4, OnePlace
    <3>3. s.key # 0
      BY <1>6, <1>7, <2>4, <3>1
    <3>4. ~Ahead(map, s.key, 0)
      <4>1. SUFFICES ASSUME NEW i \in DOMAIN map, NEW j \in DOMAIN map, i < j,
                            map[i].key = s.key, map[j].key = 0
                     PROVE  FALSE
        BY DEF Ahead
      <4>2. j = Position(0)
        BY <3>2, <4>1
      <4>. HIDE DEF Position
      <4>3. i <= j
        BY <1>6, <4>1
      <4>. QED
        BY <3>1, <4>1, <4>2, <4>3
    <3>. QED
      BY <3>3, <3>4
  <2>. QED
    BY <2>3, <2>4
<1>13. CountedIsSound /\ CountedIsBehind /\ CountedOnce /\ CountedHasTotal /\ TotalsAddUp
  BY <1>1 DEF CountedIsSound, CountedIsBehind, CountedOnce, CountedHasTotal, TotalsAddUp
<1>. QED
  BY <1>10, <1>11, <1>12, <1>13 DEF WInv

(* Every step keeps the invariant.                                         *)
LEMMA StepWInv == WInv /\ [WalkNext]_walkVars => WInv'
<1>. SUFFICES ASSUME WInv, [WalkNext]_walkVars PROVE WInv'
  OBVIOUS
<1>1. ASSUME NEW e \in Storable, Store(e) PROVE WInv'
  BY <1>1, StoreKeepsWInv
<1>2. ASSUME NEW e \in Storable, Count(e) PROVE WInv'
  BY <1>2, CountKeepsWInv
<1>3. ASSUME NEW k \in Keys, Delete(k) PROVE WInv'
  BY <1>3, DeleteKeepsWInv
<1>4. CASE GetNextKey
  BY <1>4, GetNextKeyKeepsWInv
<1>5. CASE LookupGone
  BY <1>5, LookupGoneKeepsWInv
<1>6. CASE Filter
  BY <1>6, FilterKeepsWInv
<1>7. CASE Tally
  BY <1>7, TallyKeepsWInv
<1>8. CASE WalkFails
  BY <1>8, WalkFailsKeepsWInv
<1>9. CASE Report
  BY <1>9, ReportKeepsWInv
<1>10. CASE Free
  BY <1>10, FreeKeepsWInv
<1>11. CASE UNCHANGED walkVars
  BY <1>11, NothingKeepsWInv
<1>. QED
  BY <1>1, <1>2, <1>3, <1>4, <1>5, <1>6, <1>7, <1>8, <1>9, <1>10, <1>11
     DEF WalkNext, Probes, Walk

(* What the walk maintains.                                                *)
THEOREM AlwaysWInv == WalkSpec => []WInv
<1>1. WalkInit => WInv
  BY InitWInv
<1>2. WInv /\ [WalkNext]_walkVars => WInv'
  BY StepWInv
<1>. QED
  BY <1>1, <1>2, PTL DEF WalkSpec

(* The variables of the walk have their types: map[], keys and totals of   *)
(* memleak_dwunw_user.c:1022-1215.                                         *)
THEOREM WalkTypeCorrect == WalkSpec => []WalkTypeOK
<1>1. WInv => WalkTypeOK
  BY DEF WInv
<1>. QED
  BY <1>1, AlwaysWInv, PTL

(* A walk that is at its end has handled all that stayed.                  *)
LEMMA WInvCounts == WInv => OutstandingAreCounted
<1>. SUFFICES ASSUME WInv PROVE OutstandingAreCounted
  OBVIOUS
<1>1. WalkTypeOK /\ CountedIsSound /\ WalkIsSomewhere /\ RestIsToCome
  BY DEF WInv
<1>2. ASSUME Completed, NEW e \in stayed PROVE Handled(e)
  <2>1. stage \in {"report", "free"} \/ (stage = "done" /\ result = "OK")
    BY <1>1, <1>2 DEF Completed, WalkIsSomewhere
  <2>. QED
    BY <1>1, <2>1 DEF RestIsToCome
<1>3. ASSUME kind = "each", now >= MinAge, NEW e \in Range(log)
      PROVE  OldEnough(e) /\ e.stack >= 0
  <2>1. PICK i \in DOMAIN log : log[i] = e
    BY DEF Range
  <2>2. log \in Seq(Elements)
    BY <1>1 DEF WalkTypeOK
  <2>3. e \in Elements
    BY <2>1, <2>2
  <2>4. ~TooYoung(e) /\ e.stack >= 0
    BY <1>1, <1>3, <2>1 DEF CountedIsSound, Counts
  <2>. QED
    BY <1>1, <1>3, <2>3, <2>4, AgeIsMeant
<1>. QED
  BY <1>2, <1>3 DEF OutstandingAreCounted, Handled

(* A block that is there all the while and old enough is counted, however  *)
(* often a deletion makes get_next_key start over, and nothing too young   *)
(* is (memleak_dwunw_user.c:1034-1064, :1160-1182).                        *)
THEOREM WalkCounts == WalkSpec => []OutstandingAreCounted
BY WInvCounts, AlwaysWInv, PTL

(* While nothing is deleted or replaced no key is counted twice, and none  *)
(* of the statistics ever (memleak_dwunw_user.c:1034-1121, :1160-1190).    *)
THEOREM WalkCountsOnce == WalkSpec => []CountedOnce
<1>1. WInv => CountedOnce
  BY DEF WInv
<1>. QED
  BY <1>1, AlwaysWInv, PTL

(* The totals and the blocks shown under a stack are those of the blocks   *)
(* counted for it (memleak_dwunw_user.c:1066-1120).                        *)
THEOREM WalkTotals == WalkSpec => []TotalsAddUp
<1>1. WInv => TotalsAddUp
  BY DEF WInv
<1>. QED
  BY <1>1, AlwaysWInv, PTL

(* A sequence whose values are apart is no longer than the set they are in *)
(* is large.                                                               *)
LEMMA ApartFit ==
  ASSUME NEW n \in Nat, NEW S, IsFiniteSet(S), NEW f \in [1 .. n -> S],
         \A i, j \in 1 .. n : f[i] = f[j] => i = j
  PROVE  n <= Cardinality(S)
<1>1. f \in Injection(1 .. n, S)
  BY DEF Injection, IsInjective
<1>2. Cardinality(1 .. n) <= Cardinality(S)
  BY <1>1, FS_Injection
<1>3. Cardinality(1 .. n) = n
  BY FS_Interval
<1>. QED
  BY <1>2, <1>3

(* Lines are of stacks that differ, or of keys that are all in the map.    *)
LEMMA WInvFits == WInv => ArrayIsNotOverrun
<1>. SUFFICES ASSUME WInv PROVE ArrayIsNotOverrun
  OBVIOUS
<1>1. /\ WalkTypeOK /\ InWalkOrder(map) /\ MapIsOrdered /\ CountedIsBehind /\ CountedOnce
      /\ CountedHasTotal /\ TotalsAddUp
  BY DEF WInv, MapIsOrdered
<1>2. CASE kind = "each"
  <2>. DEFINE n == Len(allocs)
              f == [i \in 1 .. n |-> allocs[i].stack]
  <2>1. allocs \in Seq(Line) /\ n \in Nat /\ DOMAIN allocs = 1 .. n
    BY <1>1 DEF WalkTypeOK, Line, Node
  <2>2. \A i \in 1 .. n : allocs[i].stack \in Stacks
    <3>1. \A i \in 1 .. n : allocs[i] \in Line
      BY <2>1
    <3>. QED
      BY <3>1 DEF Line
  <2>3. \A i, j \in 1 .. n : allocs[i].stack = allocs[j].stack => i = j
    BY <1>1, <1>2, <2>1 DEF TotalsAddUp
  <2>. HIDE DEF n
  <2>4. f \in [1 .. n -> Stacks] /\ \A i, j \in 1 .. n : f[i] = f[j] => i = j
    BY <2>2, <2>3
  <2>5. IsFiniteSet(Stacks)
    BY OutstandingWalkAssumption
  <2>. HIDE DEF f
  <2>6. n <= Cardinality(Stacks)
    BY <2>1, <2>4, <2>5, ApartFit
  <2>. QED
    BY <1>2, <2>6 DEF ArrayIsNotOverrun, n
<1>3. CASE kind = "combined"
  <2>. DEFINE n == Len(log)
              m == Len(map)
              f == [i \in 1 .. n |-> Position(log[i].key)]
  <2>1. /\ n \in Nat /\ DOMAIN log = 1 .. n /\ m \in Nat /\ DOMAIN map = 1 .. m /\ m <= MapSize
        /\ Len(allocs) = n
    BY <1>1, <1>3 DEF WalkTypeOK, CountedHasTotal
  <2>2. ~disturbed
    BY <1>1, <1>3 DEF MapIsOrdered
  <2>3. \A i \in 1 .. n : log[i].key \in Stored
    BY <1>1, <2>1, <2>2 DEF CountedIsBehind
  <2>4. \A k \in Stored : Position(k) \in 1 .. m /\ map[Position(k)].key = k
    BY <1>1, <2>1, PlaceOfKey
  <2>5. \A i, j \in 1 .. n : log[i].key = log[j].key => i = j
    BY <1>1, <2>1, <2>2 DEF CountedOnce
  <2>. HIDE DEF n, m
  <2>6. f \in [1 .. n -> 1 .. m]
    BY <2>3, <2>4
  <2>7. \A i, j \in 1 .. n : f[i] = f[j] => i = j
    BY <2>3, <2>4, <2>5
  <2>8. IsFiniteSet(1 .. m) /\ Cardinality(1 .. m) = m
    BY <2>1, FS_Interval
  <2>. HIDE DEF f
  <2>9. n <= m
    BY <2>1, <2>6, <2>7, <2>8, ApartFit
  <2>10. Len(allocs) <= MapSize
    BY <2>1, <2>9, OutstandingWalkAssumption
  <2>. QED
    BY <1>3, <2>10 DEF ArrayIsNotOverrun
<1>. QED
  BY <1>1, <1>2, <1>3 DEF WalkTypeOK

(* allocs[] has room for all that the walk appends, though no test keeps   *)
(* it inside (memleak_dwunw_user.c:1119, :1190).                           *)
THEOREM WalkFitsArray == WalkSpec => []ArrayIsNotOverrun
BY WInvFits, AlwaysWInv, PTL

=============================================================================
