-------------------------- MODULE StackReaderProofs --------------------------
(***************************************************************************)
(* Proofs about StackReader, for every set of stack contents.              *)
(***************************************************************************)
EXTENDS StackReader, TLAPS

(* A session that is attached has its thread in a ptrace stop or dead, so  *)
(* that what was read is still what the stack holds.                       *)
Frozen ==
  attached =>
    /\ call = "none"
    /\ target \in {"tracestop", "gone"}
    /\ seen \subseteq {memory}

(* While attach waits, the session is empty.                               *)
Waiting == call = "waiting" => ~attached /\ memFd = NoFd /\ seen = {}

(* The descriptor belongs to the attached session alone.                   *)
Descriptor ==
  /\ StdIn \in openFds
  /\ MemFd \in openFds <=> attached /\ memFd = MemFd
  /\ attached => memFd # StdIn

(* A stopped tracee has somebody to let it go.                             *)
Tracee ==
  /\ target = "gone" => ~traced
  /\ traced => attached \/ call = "waiting" \/ abandoned

IInv == TypeOK /\ Frozen /\ Waiting /\ Descriptor /\ Tracee

-----------------------------------------------------------------------------
(* The invariant is inductive *)

(* A detach changes nothing but the thread, and ends the trace of a thread *)
(* that is stopped.                                                        *)
LEMMA DetachEndsTrace ==
  ASSUME TypeOK, Tracee, PtraceDetach
  PROVE  /\ target' \in {"running", "tracestop", "jobstop", "gone"}
         /\ traced' \in BOOLEAN
         /\ reported' \in {"none", "STOP", "OTHER", "JOB"}
         /\ pending' = pending
         /\ target \in {"tracestop", "gone"} => ~traced'
         /\ traced' => traced
         /\ target' = "gone" => ~traced'
BY DEF TypeOK, Tracee, PtraceDetach, kernelVars

(* An initialised reader satisfies the invariant.                          *)
LEMMA InitIInv == Init => IInv
<1>. SUFFICES ASSUME Init PROVE IInv
  OBVIOUS
<1>1. TypeOK
  BY DEF Init, TypeOK
<1>2. Frozen /\ Waiting /\ Tracee
  BY DEF Init, Frozen, Waiting, Tracee
<1>3. Descriptor
  BY DEF Init, Descriptor, StdIn, MemFd
<1>. QED
  BY <1>1, <1>2, <1>3 DEF IInv

(* Nothing the thread or the kernel does reaches the session.              *)
LEMMA EnvironmentIInv == IInv /\ Environment => IInv'
<1>. SUFFICES ASSUME IInv, Environment PROVE IInv'
  OBVIOUS
<1>. USE DEF IInv, TypeOK, Frozen, Waiting, Descriptor, Tracee, callerVars,
             sessionVars, kernelVars, historyVars
<1>1. CASE Run
  BY <1>1 DEF Run
<1>2. CASE Signal
  BY <1>2 DEF Signal
<1>3. ASSUME NEW s \in {"STOP", "OTHER"}, TakeSignal(s) PROVE IInv'
  BY <1>3 DEF TakeSignal
<1>4. CASE Trap
  BY <1>4 DEF Trap
<1>5. CASE Exit
  BY <1>5 DEF Exit
<1>. QED
  BY <1>1, <1>2, <1>3, <1>4, <1>5 DEF Environment

(* The two halves of attach keep the invariant, failures included.         *)
LEMMA AttachIInv == IInv /\ (Attach \/ AttachRefused \/ AttachReturn) => IInv'
<1>. SUFFICES ASSUME IInv, Attach \/ AttachRefused \/ AttachReturn PROVE IInv'
  OBVIOUS
<1>. USE DEF IInv, TypeOK, Frozen, Waiting, Descriptor, Tracee, Idle, ClearSession,
             sessionVars, kernelVars, historyVars, NoFd, StdIn, MemFd
<1>1. CASE Attach
  BY <1>1 DEF Attach
<1>2. CASE AttachRefused
  BY <1>2 DEF AttachRefused
<1>3. CASE WaitStopped
  BY <1>3 DEF WaitStopped
<1>4. CASE WaitExited
  BY <1>4, DetachEndsTrace DEF WaitExited
<1>5. CASE WaitFails
  BY <1>5, DetachEndsTrace DEF WaitFails
<1>. QED
  BY <1>1, <1>2, <1>3, <1>4, <1>5 DEF AttachReturn

(* The thread is frozen, so a read adds the contents that were there       *)
(* before; /proc/<pid>/mem is opened into the session at most once.        *)
LEMMA ReadIInv ==
  ASSUME IInv, NEW r \in {"OK", "IO"}, Read(r)
  PROVE  IInv'
<1>. USE DEF IInv, TypeOK, Frozen, Waiting, Descriptor, Tracee, Copies,
             sessionVars, kernelVars, NoFd, StdIn, MemFd
<1>1. CASE ReadByVm(r)
  BY <1>1 DEF ReadByVm
<1>2. CASE ReadByMem(r)
  BY <1>2 DEF ReadByMem
<1>. QED
  BY <1>1, <1>2 DEF Read

(* Detaching a session keeps the invariant.                                *)
LEMMA DetachIInv == IInv /\ attached /\ Detach => IInv'
<1>. SUFFICES ASSUME IInv, attached, Detach PROVE IInv'
  OBVIOUS
<1>1. PtraceDetach
  BY DEF Detach
<1>2. ~attached' /\ memFd' = StdIn /\ openFds' = openFds \ {memFd} /\ ~traced'
  <2>1. target \in {"tracestop", "gone"}
    BY DEF IInv, Frozen
  <2>. QED
    BY <1>1, <2>1, DetachEndsTrace
       DEF IInv, TypeOK, Descriptor, Detach, ClearSession, NoFd, StdIn, MemFd
<1>3. TypeOK'
  BY <1>1, <1>2, DetachEndsTrace
     DEF IInv, TypeOK, Detach, ClearSession, historyVars
<1>4. Frozen' /\ Waiting' /\ Tracee'
  BY <1>2 DEF Frozen, Waiting, Tracee, Detach
<1>5. Descriptor'
  BY <1>2 DEF IInv, TypeOK, Descriptor, NoFd, StdIn, MemFd
<1>. QED
  BY <1>3, <1>4, <1>5 DEF IInv

(* Every step of the reader, the thread and the kernel keeps it.           *)
LEMMA StepIInv == IInv /\ Next => IInv'
BY EnvironmentIInv, AttachIInv, ReadIInv, DetachIInv DEF Next

LEMMA StutterIInv == IInv /\ UNCHANGED readerVars => IInv'
BY DEF readerVars, sessionVars, kernelVars, historyVars, IInv, TypeOK, Frozen, Waiting,
       Descriptor, Tracee

LEMMA NextIInv == IInv /\ [Next]_readerVars => IInv'
BY StepIInv, StutterIInv

(* Every reachable state satisfies the invariant.                          *)
THEOREM AlwaysIInv == Spec => []IInv
BY InitIInv, NextIInv, PTL DEF Spec

-----------------------------------------------------------------------------
(* Theorems *)

(* The session, the thread and the descriptors keep their types            *)
(* (stack_reader.c:102-200).                                               *)
THEOREM TypeCorrect == Spec => []TypeOK
BY AlwaysIInv, PTL DEF IInv

(* One session reads one snapshot of the stack, whatever signals arrive    *)
(* and whichever backend is in use (stack_reader.c:127-147, :182-197).     *)
THEOREM SnapshotCorrect == Spec => []OneSnapshot
<1>1. IInv => OneSnapshot
  BY DEF IInv, Frozen, OneSnapshot
<1>. QED
  BY <1>1, AlwaysIInv, PTL

(* The reader closes the descriptor it opened, once, and never standard    *)
(* input, whose number a cleared session holds (stack_reader.c:157-167).   *)
THEOREM DescriptorsCorrect == Spec => []OwnDescriptors
<1>1. IInv => OwnDescriptors
  BY DEF IInv, TypeOK, Descriptor, OwnDescriptors, Idle, StdIn, MemFd
<1>. QED
  BY <1>1, AlwaysIInv, PTL

(* A session that is over has let its thread go, unless the wait for it    *)
(* failed before it had stopped (stack_reader.c:133-143, :162-165).        *)
THEOREM TraceCorrect == Spec => []TraceEnds
<1>1. IInv => TraceEnds
  BY DEF IInv, Tracee, TraceEnds, Idle
<1>. QED
  BY <1>1, AlwaysIInv, PTL

=============================================================================
