------------------------------- MODULE Capture -------------------------------
(***************************************************************************)
(* dwunw_capture (src/unwinder/dwunw_unwind.c): one event's registers are  *)
(* turned into frames with a module handle from the cache and, when the    *)
(* caller names a process, a reader session over the frozen thread.        *)
(*                                                                         *)
(* The cache is the promise of ModuleCacheSpec, the reader and the thread  *)
(* are StackReader.  The library takes no lock and is called by one thread *)
(* at a time, so only the traced thread and the kernel run during a call;  *)
(* between two calls other users of the context may hold handles.  A frame *)
(* is abstracted to its PARTIAL flag, the registers to what the thread's   *)
(* stack held when the event took them.                                    *)
(***************************************************************************)
EXTENDS Integers, Sequences

CONSTANTS
  Capacity,   \* slots of the module cache
  Paths,      \* modules events lie in
  Indexed,    \* modules whose index has FDEs (handle->index.fde_count > 0)
  Self,       \* the capture, as a user of the cache
  Others,     \* callers that hold handles of their own between captures
  NoPath,
  MaxFrames,  \* bound on the request's max_frames
  Contents    \* what the thread's stack can hold

ASSUME CaptureAssumption ==
  /\ MaxFrames \in Nat \ {0}
  /\ Indexed \subseteq Paths /\ NoPath \notin Paths
  /\ Self \notin Others
  /\ Contents # {}

VARIABLES
  (* of StackReader *)
  attached, backend, memFd, call, result, openFds, target, traced, reported,
  pending, memory, seen, abandoned,
  (* of ModuleCacheSpec *)
  using, warm, answer,
  (* of the context and the call *)
  ready,         \* module_cache_ready and stack_reader_ready
  snapshot,      \* what the stack held when the event took the registers
  phase,         \* how far the call is, "idle" between calls
  request,       \* the caller's request
  usesReader,    \* using_stack_reader
  readerFailed,  \* reader_status # DWUNW_OK
  status,        \* status, and the return value once idle
  produced,      \* produced, and *frames_written once idle
  buffer,        \* flags of the caller's frames
  ended          \* history: why the unwinding stopped

Reader == INSTANCE StackReader
Cache == INSTANCE ModuleCacheSpec WITH Clients <- {Self} \cup Others

readerVars == <<attached, backend, memFd, call, result, openFds, target, traced,
                reported, pending, memory, seen, abandoned>>
cacheVars == <<using, warm, answer>>
outputVars == <<produced, buffer, ended>>
localVars == <<request, usesReader, readerFailed>>
vars == <<readerVars, cacheVars, ready, snapshot, phase, localVars, status, outputVars>>

Requests == [path : Paths, pid : BOOLEAN, max : 1 .. MaxFrames]

Errors == {"IO", "CACHE_FULL", "LOAD_ERROR", "UNSUPPORTED_ARCH", "CFI_ERROR",
           "INVALID_ARG"}

TypeOK ==
  /\ Reader!TypeOK
  /\ answer \in {"OK"} \cup Errors
  /\ using \in [{Self} \cup Others -> Paths \cup {NoPath}]
  /\ ready \in BOOLEAN
  /\ snapshot \in Contents
  /\ phase \in {"idle", "attach", "acquire", "root", "loop", "restore", "finish"}
  /\ request \in Requests
  /\ usesReader \in BOOLEAN /\ readerFailed \in BOOLEAN
  /\ status \in {"OK"} \cup Errors
  /\ produced \in 0 .. MaxFrames
  /\ buffer \in [0 .. MaxFrames - 1 -> {"unset", "partial", "whole"}]
  /\ ended \in {"none", "limit", "gap", "read", "cfi", "single"}

Blank == [i \in 0 .. MaxFrames - 1 |-> "unset"]

Init ==
  /\ Reader!Init /\ Cache!Init
  /\ ready = TRUE
  /\ snapshot = memory
  /\ phase = "idle"
  /\ request \in [path : Paths, pid : {FALSE}, max : {1}]
  /\ usesReader = FALSE /\ readerFailed = FALSE
  /\ status = "OK"
  /\ produced = 0 /\ buffer = Blank /\ ended = "none"

-----------------------------------------------------------------------------
(* Around the call *)

(* The thread takes the event: its registers fit the stack of this moment. *)
Event ==
  /\ phase = "idle" /\ target = "running"
  /\ snapshot' = memory
  /\ UNCHANGED <<readerVars, cacheVars, ready, phase, localVars, status, outputVars>>

(* Another user of the context acquires or releases a handle.              *)
OtherUser ==
  /\ phase = "idle" /\ ready
  /\ \E c \in Others :
       \/ \E p \in Paths : \/ Cache!UseLoaded(c, p) \/ Cache!Load(c, p)
                           \/ Cache!FailToLoad(c, p) \/ Cache!Refuse(c, p)
       \/ Cache!Done(c)
  /\ UNCHANGED <<readerVars, ready, snapshot, phase, localVars, status, outputVars>>

(* dwunw_shutdown flushes the cache, called when no handle is out.         *)
Shutdown ==
  /\ phase = "idle" /\ ready
  /\ Cache!Clear
  /\ ready' = FALSE
  /\ UNCHANGED <<readerVars, snapshot, phase, localVars, status, outputVars>>

(* dwunw_init on a context that was shut down.                             *)
InitContext ==
  /\ phase = "idle" /\ ~ready
  /\ ready' = TRUE
  /\ UNCHANGED <<readerVars, cacheVars, snapshot, phase, localVars, status, outputVars>>

callVars == <<cacheVars, ready, snapshot, phase, localVars, status, outputVars>>

(* The thread and the kernel run at any time.                              *)
Thread == Reader!Environment /\ UNCHANGED callVars

Delivery ==
  (\E s \in {"STOP", "OTHER"} : Reader!TakeSignal(s)) /\ UNCHANGED callVars

StopTrap == Reader!Trap /\ UNCHANGED callVars

-----------------------------------------------------------------------------
(* Entering the call *)

(* A context that is not ready refuses the request.                        *)
CaptureRefused ==
  /\ phase = "idle" /\ ~ready
  /\ status' = "INVALID_ARG" /\ produced' = 0 /\ ended' = "none"
  /\ UNCHANGED <<readerVars, cacheVars, ready, snapshot, phase, localVars, buffer>>

Begin(r) ==
  /\ phase = "idle" /\ ready
  /\ request' = r
  /\ phase' = IF r.pid /\ r.max > 1 THEN "attach" ELSE "acquire"
  /\ usesReader' = FALSE /\ readerFailed' = FALSE
  /\ status' = "OK" /\ produced' = 0 /\ buffer' = Blank /\ ended' = "none"
  /\ UNCHANGED <<readerVars, cacheVars, ready, snapshot>>

(* dwunw_stack_reader_attach blocks between PTRACE_ATTACH and the stop.    *)
AttachStarts ==
  /\ phase = "attach" /\ Reader!Attach
  /\ UNCHANGED <<cacheVars, ready, snapshot, phase, localVars, status, outputVars>>

AttachSucceeds ==
  /\ phase = "attach" /\ Reader!WaitStopped
  /\ phase' = "acquire" /\ usesReader' = TRUE
  /\ UNCHANGED <<cacheVars, ready, snapshot, request, readerFailed, status, outputVars>>

(* A failed attach is remembered and the capture goes on without a reader. *)
AttachFails ==
  /\ phase = "attach"
  /\ Reader!AttachRefused \/ Reader!WaitExited \/ Reader!WaitFails
  /\ phase' = "acquire" /\ readerFailed' = TRUE
  /\ UNCHANGED <<cacheVars, ready, snapshot, request, usesReader, status, outputVars>>

-----------------------------------------------------------------------------
(* The module and the root frame *)

Acquire ==
  /\ phase = "acquire"
  /\ Cache!UseLoaded(Self, request.path) \/ Cache!Load(Self, request.path)
  /\ phase' = "root"
  /\ UNCHANGED <<readerVars, ready, snapshot, localVars, status, outputVars>>

AcquireFailsAttached ==
  /\ phase = "acquire"
  /\ Cache!FailToLoad(Self, request.path) \/ Cache!Refuse(Self, request.path)
  /\ status' = answer' /\ phase' = "idle"
  /\ UNCHANGED <<readerVars, ready, snapshot, localVars, outputVars>>

ReleasesThread == IF usesReader THEN Reader!Detach ELSE UNCHANGED readerVars

(* No module, no frames: the thread is let go and the error returned.      *)
AcquireFails ==
  /\ phase = "acquire"
  /\ Cache!FailToLoad(Self, request.path) \/ Cache!Refuse(Self, request.path)
  /\ ReleasesThread
  /\ status' = answer' /\ phase' = "idle"
  /\ UNCHANGED <<ready, snapshot, localVars, outputVars>>

(* The condition of the unwinding loop.                                    *)
MayContinue == produced < request.max

RootFrameReaderless ==
  /\ phase = "root"
  /\ buffer' = [buffer EXCEPT ![0] = "partial"]
  /\ produced' = 1
  /\ IF request.max > 1 /\ request.path \in Indexed
     THEN phase' = "loop" /\ UNCHANGED ended
     ELSE phase' = "finish" /\ ended' = "single"
  /\ UNCHANGED <<readerVars, cacheVars, ready, snapshot, localVars, status>>

(* Frame 0 comes from the event's registers alone.                         *)
RootFrame ==
  /\ phase = "root"
  /\ buffer' = [buffer EXCEPT ![0] = "partial"]
  /\ produced' = 1
  /\ IF request.max > 1 /\ request.path \in Indexed /\ usesReader
     THEN phase' = "loop" /\ UNCHANGED ended
     ELSE phase' = "finish" /\ ended' = "single"
  /\ UNCHANGED <<readerVars, cacheVars, ready, snapshot, localVars, status>>

(* prepare_root_frame finds no architecture for the registers.             *)
RootFails ==
  /\ phase = "root"
  /\ status' = "UNSUPPORTED_ARCH"
  /\ phase' = "finish"
  /\ UNCHANGED <<readerVars, cacheVars, ready, snapshot, localVars, outputVars>>

-----------------------------------------------------------------------------
(* The unwinding loop *)

LimitReached ==
  /\ phase = "loop" /\ ~MayContinue
  /\ phase' = "finish" /\ ended' = "limit"
  /\ UNCHANGED <<readerVars, cacheVars, ready, snapshot, localVars, status, produced, buffer>>

(* dwunw_cfi_find_fde has nothing for the cursor's pc.                     *)
Gap ==
  /\ phase = "loop" /\ MayContinue
  /\ phase' = "finish" /\ ended' = "gap"
  /\ UNCHANGED <<readerVars, cacheVars, ready, snapshot, localVars, status, produced, buffer>>

(* dwunw_cfi_eval cannot run the CFI program or lacks a rule.              *)
EvalFails ==
  /\ phase = "loop" /\ MayContinue
  /\ status' = "CFI_ERROR" /\ phase' = "finish" /\ ended' = "cfi"
  /\ UNCHANGED <<readerVars, cacheVars, ready, snapshot, localVars, produced, buffer>>

(* The return address stays in its register or is read from the stack, and *)
(* the frame is written before the other registers are restored.           *)
EvalReturnAddress ==
  /\ phase = "loop" /\ MayContinue
  /\ UNCHANGED readerVars \/ Reader!Read("OK")
  /\ buffer' = [buffer EXCEPT ![produced] = "whole"]
  /\ phase' = "restore"
  /\ UNCHANGED <<cacheVars, ready, snapshot, localVars, status, produced, ended>>

(* The caller's registers are restored, with one read standing for all.    *)
Restore ==
  /\ phase = "restore"
  /\ UNCHANGED readerVars \/ Reader!Read("OK")
  /\ produced' = produced + 1 /\ phase' = "loop"
  /\ UNCHANGED <<cacheVars, ready, snapshot, localVars, status, buffer, ended>>

ReadFailsCounted ==
  /\ phase = "restore" \/ (phase = "loop" /\ MayContinue)
  /\ Reader!Read("IO")
  /\ status' = "IO" /\ phase' = "finish" /\ ended' = "read"
  /\ produced' = produced + 1
  /\ UNCHANGED <<cacheVars, ready, snapshot, localVars, buffer>>

(* A read of the return address or of another register fails.              *)
ReadFails ==
  /\ phase = "restore" \/ (phase = "loop" /\ MayContinue)
  /\ Reader!Read("IO")
  /\ status' = "IO" /\ phase' = "finish" /\ ended' = "read"
  /\ UNCHANGED <<cacheVars, ready, snapshot, localVars, produced, buffer>>

-----------------------------------------------------------------------------
(* Leaving the call *)

FinishKeepsStatus ==
  /\ phase = "finish"
  /\ Cache!Done(Self) /\ ReleasesThread
  /\ phase' = "idle"
  /\ UNCHANGED <<ready, snapshot, localVars, status, outputVars>>

FinishDetachesAlways ==
  /\ phase = "finish"
  /\ Cache!Done(Self) /\ Reader!Detach
  /\ status' = IF status = "OK" /\ readerFailed THEN "IO" ELSE status
  /\ phase' = "idle"
  /\ UNCHANGED <<ready, snapshot, localVars, outputVars>>

(* The handle is released, the thread let go, and a failed attach reported *)
(* unless something else failed.                                           *)
Finish ==
  /\ phase = "finish"
  /\ Cache!Done(Self) /\ ReleasesThread
  /\ status' = IF status = "OK" /\ readerFailed THEN "IO" ELSE status
  /\ phase' = "idle"
  /\ UNCHANGED <<ready, snapshot, localVars, outputVars>>

-----------------------------------------------------------------------------
Attaching == AttachStarts \/ AttachSucceeds \/ AttachFails

Unwinding ==
  \/ Acquire \/ AcquireFails
  \/ RootFrame \/ RootFails
  \/ LimitReached \/ Gap \/ EvalFails
  \/ EvalReturnAddress \/ Restore \/ ReadFails
  \/ Finish

Next ==
  \/ Event \/ OtherUser \/ Shutdown \/ InitContext
  \/ Thread
  \/ CaptureRefused
  \/ \E r \in Requests : Begin(r)
  \/ Attaching \/ Unwinding

(* The calling thread is scheduled, so it goes on whenever it is not       *)
(* blocked in waitpid; the kernel delivers the signals it has queued.      *)
Fairness ==
  /\ WF_vars(Unwinding \/ AttachStarts \/ AttachSucceeds)
  /\ WF_vars(phase = "attach" /\ call = "none" /\ AttachFails)
  /\ WF_vars(phase = "attach" /\ target = "gone" /\ AttachFails)
  /\ WF_vars(Delivery)
  /\ WF_vars(StopTrap)

Spec == Init /\ [][Next]_vars /\ Fairness

-----------------------------------------------------------------------------
(* Properties *)

Returned == phase = "idle"

(* A capture that has returned, on whichever path, keeps neither the       *)
(* module nor the thread nor a descriptor, and has not closed one that was *)
(* not its own; only a thread whose wait failed stays traced (:105-113,    *)
(* :166-170).                                                              *)
NothingHeld ==
  Returned =>
    /\ using[Self] = NoPath
    /\ ~attached /\ call = "none"
    /\ openFds = {Reader!StdIn}
    /\ traced => abandoned

(* A capture whose attach or whose reads failed never returns OK, so the   *)
(* caller can tell a short trace from a whole one (:100-102, :147-150,     *)
(* :172-174).                                                              *)
FailureSurfaces ==
  Returned /\ (readerFailed \/ ended \in {"read", "cfi"}) => status # "OK"

(* Every frame the caller is told of was written by this call, the first   *)
(* one PARTIAL; no frame beyond the request's max_frames was touched       *)
(* (:115-163).                                                             *)
FramesAreWritten ==
  /\ Returned => \A i \in 0 .. produced - 1 :
                   buffer[i] = IF i = 0 THEN "partial" ELSE "whole"
  /\ \A i \in 0 .. MaxFrames - 1 : i >= request.max => buffer[i] = "unset"

(* All that one capture reads is a single snapshot of the stack, whatever  *)
(* else the call does between the reads (:141-146).                        *)
CaptureReadsOneSnapshot == usesReader /\ ~Returned => attached /\ seen \subseteq {memory}

(* The contract this module's callers rely on: while a call runs, what it  *)
(* will answer is hidden.                                                  *)
Contract == INSTANCE CaptureSpec WITH
  calling <- ~Returned,
  asked <- [pid |-> request.pid, max |-> request.max],
  told <- IF Returned THEN [status |-> status, frames |-> produced]
                      ELSE [status |-> "OK", frames |-> 0]

(* Whatever the cache, the thread and the kernel do, a call answers with a *)
(* status and a number of frames that belong together, and it returns: no  *)
(* full trace next to an error, no error without its reason, one frame     *)
(* when no stack is read (:62-180).                                        *)
ImplementsContract == Contract!Spec

=============================================================================
