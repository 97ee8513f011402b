----------------------------- MODULE StackReader -----------------------------
(***************************************************************************)
(* The stack reader of src/utils/stack_reader.c: a session freezes one     *)
(* thread with ptrace, reads its memory with process_vm_readv or, once     *)
(* that is refused, through /proc/<pid>/mem, and lets the thread go.       *)
(*                                                                         *)
(* The thread and the kernel's side of ptrace are external and run at any  *)
(* time: it writes its stack, takes signals, stops and exits.  A reader    *)
(* call is one step, except attach, which blocks in waitpid between two.   *)
(***************************************************************************)
EXTENDS Integers

CONSTANT Contents            \* what the thread's stack can hold

ASSUME ContentsAssumption == Contents # {}

VARIABLES
  attached, backend, memFd,  \* the session's fields
  call,      \* "waiting" while attach is in waitpid, else "none"
  result,    \* what the last reader call returned
  openFds,   \* descriptors open in the process
  target,    \* the thread: running, in a ptrace stop, job-stopped or gone
  traced,    \* the thread is our tracee
  reported,  \* the signal its ptrace stop is for
  pending,   \* signals it has not taken yet
  memory,    \* what its stack holds now
  seen,      \* history: the contents this session's reads returned
  abandoned  \* history: a failed wait left it without being stopped

sessionVars == <<attached, backend, memFd>>
kernelVars == <<target, traced, reported, pending>>
historyVars == <<seen, abandoned>>
readerVars == <<sessionVars, call, result, openFds, kernelVars, memory, historyVars>>

NoFd == -1
StdIn == 0
MemFd == 3

TypeOK ==
  /\ attached \in BOOLEAN
  /\ backend \in {"NONE", "PROCESS_VM", "PROC_MEM"}
  /\ memFd \in {NoFd, StdIn, MemFd}
  /\ call \in {"none", "waiting"}
  /\ result \in {"OK", "IO"}
  /\ openFds \subseteq {StdIn, MemFd}
  /\ target \in {"running", "tracestop", "jobstop", "gone"}
  /\ traced \in BOOLEAN /\ abandoned \in BOOLEAN
  /\ reported \in {"none", "STOP", "OTHER", "JOB"}
  /\ pending \subseteq {"STOP", "OTHER"}
  /\ memory \in Contents /\ seen \subseteq Contents

(* A session on the caller's stack, not initialised, and a running thread. *)
Init ==
  /\ attached = FALSE /\ backend = "NONE" /\ memFd = StdIn
  /\ call = "none" /\ result = "OK"
  /\ openFds = {StdIn}
  /\ target = "running" /\ traced = FALSE
  /\ reported = "none" /\ pending = {}
  /\ memory \in Contents /\ seen = {}
  /\ abandoned = FALSE

Idle == ~attached /\ call = "none"

-----------------------------------------------------------------------------
(* The thread and the kernel *)

callerVars == <<sessionVars, call, result, openFds, historyVars>>

(* The thread runs and changes its stack.                                  *)
Run ==
  /\ target = "running"
  /\ memory' \in Contents
  /\ UNCHANGED <<callerVars, kernelVars>>

(* Somebody sends the thread a signal.                                     *)
Signal ==
  /\ target # "gone"
  /\ pending' = pending \cup {"OTHER"}
  /\ UNCHANGED <<callerVars, target, traced, reported, memory>>

(* A traced thread stops to report a signal, an untraced one takes it.     *)
TakeSignal(s) ==
  /\ target = "running" /\ s \in pending
  /\ pending' = pending \ {s}
  /\ IF traced
     THEN target' = "tracestop" /\ reported' = s
     ELSE /\ target' = IF s = "STOP" THEN "jobstop" ELSE "running"
          /\ UNCHANGED reported
  /\ UNCHANGED <<callerVars, traced, memory>>

(* Attaching to a job-stopped thread turns its stop into a ptrace stop.    *)
Trap ==
  /\ target = "jobstop" /\ traced
  /\ target' = "tracestop" /\ reported' = "JOB"
  /\ UNCHANGED <<callerVars, traced, pending, memory>>

Exit ==
  /\ target # "gone"
  /\ target' = "gone" /\ traced' = FALSE
  /\ reported' = "none" /\ pending' = {}
  /\ UNCHANGED <<callerVars, memory>>

(* PTRACE_DETACH with no signal: a thread in a ptrace stop runs on without *)
(* the signal it reported; for any other thread the request fails.         *)
PtraceDetach ==
  IF target = "tracestop"
  THEN /\ target' = IF reported = "JOB" THEN "jobstop" ELSE "running"
       /\ traced' = FALSE /\ reported' = "none"
       /\ UNCHANGED pending
  ELSE UNCHANGED kernelVars

-----------------------------------------------------------------------------
(* dwunw_stack_reader_attach *)

(* memset of the whole session: the descriptor becomes 0.                  *)
ClearSession ==
  attached' = FALSE /\ backend' = "NONE" /\ memFd' = StdIn

AttachKeepsFd ==
  /\ Idle /\ target # "gone" /\ ~traced
  /\ traced' = TRUE /\ pending' = pending \cup {"STOP"}
  /\ ClearSession
  /\ call' = "waiting" /\ seen' = {}
  /\ UNCHANGED <<result, openFds, target, reported, memory, abandoned>>

Attach ==
  /\ Idle /\ target # "gone" /\ ~traced
  /\ traced' = TRUE /\ pending' = pending \cup {"STOP"}
  /\ attached' = FALSE /\ backend' = "NONE" /\ memFd' = NoFd
  /\ call' = "waiting" /\ seen' = {}
  /\ UNCHANGED <<result, openFds, target, reported, memory, abandoned>>

(* PTRACE_ATTACH is refused, or there is no such thread.                   *)
AttachRefused ==
  /\ Idle
  /\ ClearSession
  /\ result' = "IO"
  /\ UNCHANGED <<call, openFds, kernelVars, memory, historyVars>>

WaitsForStopSignal ==
  /\ call = "waiting" /\ target = "tracestop" /\ reported = "STOP"
  /\ attached' = TRUE /\ backend' = "PROCESS_VM"
  /\ call' = "none" /\ result' = "OK"
  /\ UNCHANGED <<memFd, openFds, kernelVars, memory, historyVars>>

DoesNotWait ==
  /\ call = "waiting"
  /\ attached' = TRUE /\ backend' = "PROCESS_VM"
  /\ call' = "none" /\ result' = "OK"
  /\ UNCHANGED <<memFd, openFds, kernelVars, memory, historyVars>>

(* waitpid reports a stop, whatever signal it is for.                      *)
WaitStopped ==
  /\ call = "waiting" /\ target = "tracestop"
  /\ attached' = TRUE /\ backend' = "PROCESS_VM"
  /\ call' = "none" /\ result' = "OK"
  /\ UNCHANGED <<memFd, openFds, kernelVars, memory, historyVars>>

(* waitpid reports that the thread has exited.                             *)
WaitExited ==
  /\ call = "waiting" /\ target = "gone"
  /\ PtraceDetach /\ ClearSession
  /\ call' = "none" /\ result' = "IO"
  /\ UNCHANGED <<openFds, memory, historyVars>>

WaitFailsWithoutDetach ==
  /\ call = "waiting"
  /\ ClearSession
  /\ call' = "none" /\ result' = "IO"
  /\ abandoned' = (abandoned \/ target \notin {"tracestop", "gone"})
  /\ UNCHANGED <<openFds, kernelVars, memory, seen>>

(* waitpid fails for a reason other than EINTR.                            *)
WaitFails ==
  /\ call = "waiting"
  /\ PtraceDetach /\ ClearSession
  /\ call' = "none" /\ result' = "IO"
  /\ abandoned' = (abandoned \/ target \notin {"tracestop", "gone"})
  /\ UNCHANGED <<openFds, memory, seen>>

-----------------------------------------------------------------------------
(* dwunw_stack_reader_read and dwunw_stack_reader_detach *)

(* A read that succeeds returns what the stack of a live thread holds.     *)
Copies(r) ==
  /\ r = "OK" => target # "gone"
  /\ seen' = IF r = "OK" THEN seen \cup {memory} ELSE seen
  /\ result' = r

(* process_vm_readv copies everything, or part of it.                      *)
ReadByVm(r) ==
  /\ attached /\ backend = "PROCESS_VM"
  /\ Copies(r)
  /\ UNCHANGED <<sessionVars, call, openFds, kernelVars, memory, abandoned>>

(* process_vm_readv is refused now or was before: /proc/<pid>/mem is       *)
(* opened on the first such read, if it can be, and kept.                  *)
ReadByMem(r) ==
  /\ attached /\ backend' = "PROC_MEM"
  /\ memFd' \in IF memFd >= 0 THEN {memFd} ELSE {NoFd, MemFd}
  /\ openFds' = IF memFd' >= 0 THEN openFds \cup {memFd'} ELSE openFds
  /\ r = "OK" => memFd' >= 0
  /\ Copies(r)
  /\ UNCHANGED <<attached, call, kernelVars, memory, abandoned>>

Read(r) == ReadByVm(r) \/ ReadByMem(r)

(* Detach closes the session's descriptor whatever it is; the callers only *)
(* detach a session they attached.                                         *)
Detach ==
  /\ call = "none"
  /\ openFds' = IF memFd >= 0 THEN openFds \ {memFd} ELSE openFds
  /\ IF attached THEN PtraceDetach ELSE UNCHANGED kernelVars
  /\ ClearSession
  /\ UNCHANGED <<call, result, memory, historyVars>>

-----------------------------------------------------------------------------
Environment ==
  \/ Run
  \/ Signal
  \/ \E s \in {"STOP", "OTHER"} : TakeSignal(s)
  \/ Trap
  \/ Exit

AttachReturn == WaitStopped \/ WaitExited \/ WaitFails

Next ==
  \/ Environment
  \/ Attach \/ AttachRefused \/ AttachReturn
  \/ \E r \in {"OK", "IO"} : Read(r)
  \/ attached /\ Detach

(* The kernel delivers signals to a running thread and stops a tracee; a   *)
(* thread in waitpid wakes up once there is something to report.           *)
KernelFairness ==
  /\ WF_readerVars(\E s \in {"STOP", "OTHER"} : TakeSignal(s))
  /\ WF_readerVars(Trap)

Spec ==
  /\ Init /\ [][Next]_readerVars
  /\ KernelFairness
  /\ WF_readerVars(WaitStopped \/ WaitExited)

-----------------------------------------------------------------------------
(* Properties *)

(* Everything one session reads is one snapshot: what its reads returned   *)
(* is what the stack holds until it detaches, whichever backend read it    *)
(* (stack_reader.c:127-147).                                               *)
OneSnapshot == attached => seen \subseteq {memory}

(* The reader closes what it opened and nothing else: standard input stays *)
(* open although a cleared session holds descriptor 0 (:117-123, :157-167).*)
OwnDescriptors ==
  /\ StdIn \in openFds
  /\ attached => (memFd = MemFd <=> MemFd \in openFds)
  /\ Idle => openFds = {StdIn}

(* A reader that is not attached has no tracee, unless a wait failed       *)
(* before the thread had stopped (:133-137).                               *)
TraceEnds == Idle /\ traced => abandoned

(* attach never blocks for ever, and whichever stop or exit comes first    *)
(* ends it (:127-143).                                                     *)
AttachReturns == call = "waiting" ~> call = "none"

(* "PTRACE_DETACH 恢复" (specs/2025-12-01-dwarf-ebpf-stack-unwinder.md:61): *)
(* a thread that was stopped and let go runs on, unless it exits or is     *)
(* attached again.                                                         *)
TargetResumes ==
  (Idle /\ ~abandoned) ~> (target \in {"running", "gone"} \/ ~Idle)

=============================================================================
