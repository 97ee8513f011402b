----------------------------- MODULE CaptureProofs -----------------------------
(***************************************************************************)
(* Proofs about Capture, for every cache, set of callers and modules,      *)
(* length of the caller's buffer and contents of the thread's stack.  What *)
(* the reader session and the thread do is taken over from the invariant   *)
(* of StackReaderProofs.                                                   *)
(***************************************************************************)
EXTENDS Capture, TLAPS

ReaderProof == INSTANCE StackReaderProofs

(* The call holds its module from the acquire to the release, and has a    *)
(* session when the caller asked for a stack and attaching did not fail.   *)
HoldsModule == phase \in {"root", "loop", "restore", "finish"}

WantsStack == request.pid /\ request.max > 1

Session ==
  /\ attached <=> usesReader /\ phase # "idle"
  /\ call # "none" => phase = "attach"
  /\ using[Self] # NoPath <=> HoldsModule
  /\ usesReader \/ readerFailed => WantsStack
  /\ ~(usesReader /\ readerFailed)
  /\ phase = "attach" => WantsStack /\ ~usesReader /\ ~readerFailed
  /\ phase \notin {"idle", "attach"} /\ WantsStack => usesReader \/ readerFailed

(* The status is OK until something fails, and tells why the loop ended.   *)
Answers ==
  /\ phase \in {"attach", "acquire", "root", "loop", "restore"} =>
       status = "OK" /\ ended = "none"
  /\ ended = "read" => status = "IO"
  /\ ended = "cfi" => status = "CFI_ERROR"
  /\ phase = "idle" /\ readerFailed => status # "OK"

(* Frames are written in order, one ahead of the count while the registers *)
(* of the next one are restored.                                           *)
Frames ==
  /\ produced <= request.max
  /\ \A i \in 0 .. produced - 1 : buffer[i] = IF i = 0 THEN "partial" ELSE "whole"
  /\ \A i \in 0 .. MaxFrames - 1 : i >= request.max => buffer[i] = "unset"
  /\ phase \in {"attach", "acquire", "root"} => produced = 0
  /\ phase \in {"loop", "restore"} => produced >= 1 /\ usesReader
  /\ phase = "restore" => produced < request.max /\ buffer[produced] = "whole"

(* The answer a call is about to give.                                     *)
Outcome ==
  phase = "finish" =>
    \/ status = "UNSUPPORTED_ARCH" /\ produced = 0
    \/ status = "OK" /\ produced >= 1 /\ (~usesReader => produced = 1)
    \/ status \in {"IO", "CFI_ERROR"} /\ usesReader /\ produced \in 1 .. request.max - 1

CallTypes ==
  /\ answer \in {"OK"} \cup Errors
  /\ using \in [{Self} \cup Others -> Paths \cup {NoPath}]
  /\ ready \in BOOLEAN
  /\ snapshot \in Contents
  /\ phase \in {"idle", "attach", "acquire", "root", "loop", "restore", "finish"}
  /\ request \in Requests
  /\ usesReader \in BOOLEAN /\ readerFailed \in BOOLEAN
  /\ status \in {"OK"} \cup Errors
  /\ produced \in 0 .. MaxFrames
  /\ buffer \in [0 .. MaxFrames - 1 -> {"unset", "partial", "whole"}]
  /\ ended \in {"none", "limit", "gap", "read", "cfi", "single"}

CallInv == CallTypes /\ Session /\ Answers /\ Frames /\ Outcome

IInv == ReaderProof!IInv /\ CallInv

-----------------------------------------------------------------------------
(* The reader of Capture is the reader of StackReaderProofs *)

LEMMA SameTypes == ReaderProof!TypeOK => Reader!TypeOK
BY Zenon DEF ReaderProof!TypeOK, Reader!TypeOK, ReaderProof!NoFd, Reader!NoFd,
             ReaderProof!StdIn, Reader!StdIn, ReaderProof!MemFd, Reader!MemFd

LEMMA SameInit == Reader!Init => ReaderProof!Init
BY Zenon DEF Reader!Init, ReaderProof!Init, Reader!StdIn, ReaderProof!StdIn

LEMMA SameEnvironment == Reader!Environment => ReaderProof!Environment
<1>. USE DEF Reader!callerVars, ReaderProof!callerVars, Reader!kernelVars,
             ReaderProof!kernelVars, Reader!sessionVars, ReaderProof!sessionVars,
             Reader!historyVars, ReaderProof!historyVars
<1>1. Reader!Run => ReaderProof!Run
  BY Zenon DEF Reader!Run, ReaderProof!Run
<1>2. Reader!Signal => ReaderProof!Signal
  BY Zenon DEF Reader!Signal, ReaderProof!Signal
<1>3. \A s \in {"STOP", "OTHER"} : Reader!TakeSignal(s) => ReaderProof!TakeSignal(s)
  BY Zenon DEF Reader!TakeSignal, ReaderProof!TakeSignal
<1>4. Reader!Trap => ReaderProof!Trap
  BY Zenon DEF Reader!Trap, ReaderProof!Trap
<1>5. Reader!Exit => ReaderProof!Exit
  BY Zenon DEF Reader!Exit, ReaderProof!Exit
<1>. QED
  BY <1>1, <1>2, <1>3, <1>4, <1>5, Zenon DEF Reader!Environment, ReaderProof!Environment

LEMMA SameAttach ==
  Reader!Attach \/ Reader!AttachRefused \/ Reader!WaitStopped \/ Reader!WaitExited
    \/ Reader!WaitFails => ReaderProof!Next
<1>. USE DEF Reader!kernelVars, ReaderProof!kernelVars, Reader!historyVars,
             ReaderProof!historyVars, Reader!Idle, ReaderProof!Idle,
             Reader!ClearSession, ReaderProof!ClearSession, Reader!NoFd,
             ReaderProof!NoFd, Reader!StdIn, ReaderProof!StdIn,
             Reader!PtraceDetach, ReaderProof!PtraceDetach
<1>1. Reader!Attach => ReaderProof!Attach
  BY Zenon DEF Reader!Attach, ReaderProof!Attach
<1>2. Reader!AttachRefused => ReaderProof!AttachRefused
  BY Zenon DEF Reader!AttachRefused, ReaderProof!AttachRefused
<1>3. Reader!WaitStopped => ReaderProof!WaitStopped
  BY Zenon DEF Reader!WaitStopped, ReaderProof!WaitStopped
<1>4. Reader!WaitExited => ReaderProof!WaitExited
  BY Zenon DEF Reader!WaitExited, ReaderProof!WaitExited
<1>5. Reader!WaitFails => ReaderProof!WaitFails
  BY Zenon DEF Reader!WaitFails, ReaderProof!WaitFails
<1>. QED
  BY <1>1, <1>2, <1>3, <1>4, <1>5, Zenon DEF ReaderProof!Next, ReaderProof!AttachReturn

LEMMA SameRead ==
  \A r \in {"OK", "IO"} : Reader!Read(r) => ReaderProof!Next
<1>1. \A r \in {"OK", "IO"} : Reader!Read(r) => ReaderProof!Read(r)
  BY Zenon DEF Reader!Read, ReaderProof!Read, Reader!ReadByVm, ReaderProof!ReadByVm,
               Reader!ReadByMem, ReaderProof!ReadByMem, Reader!Copies,
               ReaderProof!Copies, Reader!kernelVars, ReaderProof!kernelVars,
               Reader!sessionVars, ReaderProof!sessionVars, Reader!NoFd,
               ReaderProof!NoFd, Reader!MemFd, ReaderProof!MemFd
<1>. QED
  BY <1>1, Zenon DEF ReaderProof!Next

LEMMA SameDetach == attached /\ Reader!Detach => ReaderProof!Next
<1>1. Reader!Detach => ReaderProof!Detach
  BY Zenon DEF Reader!Detach, ReaderProof!Detach, Reader!kernelVars,
               ReaderProof!kernelVars, Reader!historyVars, ReaderProof!historyVars,
               Reader!ClearSession, ReaderProof!ClearSession, Reader!StdIn,
               ReaderProof!StdIn, Reader!PtraceDetach, ReaderProof!PtraceDetach
<1>. QED
  BY <1>1, Zenon DEF ReaderProof!Next

(* Whatever the call does with the reader keeps the reader's invariant.    *)
LEMMA ReaderStep ==
  ASSUME ReaderProof!IInv,
         ReaderProof!Environment \/ ReaderProof!Next \/ UNCHANGED readerVars
  PROVE  ReaderProof!IInv'
<1>1. ReaderProof!Environment => ReaderProof!Next
  BY Zenon DEF ReaderProof!Next
<1>2. UNCHANGED readerVars => UNCHANGED ReaderProof!readerVars
  BY DEF readerVars, ReaderProof!readerVars, ReaderProof!sessionVars,
         ReaderProof!kernelVars, ReaderProof!historyVars
<1>. QED
  BY <1>1, <1>2, CaptureAssumption, ReaderProof!StepIInv, ReaderProof!StutterIInv

(* What each reader action does to the session.                            *)
LEMMA EnvironmentKeepsSession ==
  Reader!Environment => UNCHANGED <<attached, call>>
BY DEF Reader!Environment, Reader!Run, Reader!Signal, Reader!TakeSignal, Reader!Trap,
       Reader!Exit, Reader!callerVars, Reader!sessionVars

LEMMA ReadKeepsSession ==
  \A r \in {"OK", "IO"} : Reader!Read(r) => attached' = attached /\ call' = call
BY DEF Reader!Read, Reader!ReadByVm, Reader!ReadByMem, Reader!sessionVars

(* What each request to the cache does to the call's module.               *)
LEMMA CacheAcquires ==
  ASSUME CallTypes, NEW c \in {Self} \cup Others, NEW p \in Paths,
         Cache!UseLoaded(c, p) \/ Cache!Load(c, p)
  PROVE  using' = [using EXCEPT ![c] = p] /\ answer' = "OK"
BY DEF Cache!UseLoaded, Cache!Load

LEMMA CacheRefuses ==
  ASSUME NEW c, NEW p, Cache!FailToLoad(c, p) \/ Cache!Refuse(c, p)
  PROVE  using' = using /\ answer' \in {"LOAD_ERROR", "CACHE_FULL"}
BY DEF Cache!FailToLoad, Cache!Refuse

LEMMA CacheReleases ==
  ASSUME NEW c, Cache!Done(c)
  PROVE  using' = [using EXCEPT ![c] = NoPath] /\ answer' = "OK"
BY DEF Cache!Done

-----------------------------------------------------------------------------
(* The invariant is inductive *)

LEMMA InitIInv == Init => IInv
<1>. SUFFICES ASSUME Init PROVE IInv
  OBVIOUS
<1>. USE CaptureAssumption
<1>1. ReaderProof!IInv
  BY SameInit, ReaderProof!InitIInv DEF Init
<1>2. memory \in Contents /\ attached = FALSE /\ call = "none"
  BY DEF Init, Reader!Init
<1>3. using = [c \in {Self} \cup Others |-> NoPath] /\ answer = "OK"
  BY DEF Init, Cache!Init
<1>4. request.pid = FALSE /\ request.max = 1 /\ request \in Requests
  <2>1. {1} \subseteq 1 .. MaxFrames /\ {FALSE} \subseteq BOOLEAN
    OBVIOUS
  <2>2. request \in [path : Paths, pid : {FALSE}, max : {1}]
    BY DEF Init
  <2>3. request.pid = FALSE /\ request.max = 1
    BY <2>2, Zenon
  <2>4. request \in Requests
    BY <2>1, <2>2, Zenon DEF Requests
  <2>. QED
    BY <2>3, <2>4, Zenon
<1>5. CallTypes
  <2>1. /\ using \in [{Self} \cup Others -> Paths \cup {NoPath}]
        /\ answer \in {"OK"} \cup Errors /\ snapshot \in Contents
    BY <1>2, <1>3 DEF Init
  <2>2. buffer \in [0 .. MaxFrames - 1 -> {"unset", "partial", "whole"}]
    BY DEF Init, Blank
  <2>3. ready \in BOOLEAN /\ usesReader \in BOOLEAN /\ readerFailed \in BOOLEAN
    BY Zenon DEF Init
  <2>. QED
    BY <1>4, <2>1, <2>2, <2>3 DEF Init, CallTypes
<1>6. Session
  BY <1>2, <1>3, <1>4 DEF Init, Session, HoldsModule
<1>7. Answers /\ Frames /\ Outcome
  BY <1>4 DEF Init, Answers, Frames, Outcome, Blank
<1>. QED
  BY <1>1, <1>5, <1>6, <1>7 DEF IInv, CallInv

(* Between two calls.                                                      *)
LEMMA BetweenIInv ==
  IInv /\ (Event \/ OtherUser \/ Shutdown \/ InitContext \/ CaptureRefused) => IInv'
<1>. SUFFICES ASSUME IInv,
                     Event \/ OtherUser \/ Shutdown \/ InitContext \/ CaptureRefused
              PROVE  IInv'
  OBVIOUS
<1>. USE CaptureAssumption
<1>0. ReaderProof!IInv'
  BY ReaderStep DEF IInv, Event, OtherUser, Shutdown, InitContext, CaptureRefused
<1>. USE DEF IInv, CallInv, CallTypes, Session, Answers, Frames, Outcome, HoldsModule,
             WantsStack, readerVars, cacheVars, localVars, outputVars, Errors
<1>1. CASE Event
  <2>1. memory \in Contents
    BY DEF ReaderProof!IInv, ReaderProof!TypeOK
  <2>. QED
    BY <1>0, <1>1, <2>1 DEF Event
<1>2. CASE OtherUser
  <2>1. PICK c \in Others :
           \/ \E p \in Paths : \/ Cache!UseLoaded(c, p) \/ Cache!Load(c, p)
                               \/ Cache!FailToLoad(c, p) \/ Cache!Refuse(c, p)
           \/ Cache!Done(c)
    BY <1>2 DEF OtherUser
  <2>. DEFINE KeepsSelf ==
         /\ using' \in [{Self} \cup Others -> Paths \cup {NoPath}]
         /\ using'[Self] = using[Self] /\ answer' \in {"OK"} \cup Errors
  <2>2. KeepsSelf
    <3>1. CASE Cache!Done(c)
      BY <2>1, <3>1, CacheReleases
    <3>2. ASSUME NEW p \in Paths, Cache!UseLoaded(c, p) \/ Cache!Load(c, p)
          PROVE  KeepsSelf
      BY <2>1, <3>2, CacheAcquires
    <3>3. ASSUME NEW p \in Paths, Cache!FailToLoad(c, p) \/ Cache!Refuse(c, p)
          PROVE  KeepsSelf
      BY <2>1, <3>3, CacheRefuses
    <3>. QED
      BY <2>1, <3>1, <3>2, <3>3
  <2>. QED
    BY <1>0, <1>2, <2>2 DEF OtherUser
<1>3. CASE Shutdown
  BY <1>0, <1>3 DEF Shutdown, Cache!Clear
<1>4. CASE InitContext
  BY <1>0, <1>4 DEF InitContext
<1>5. CASE CaptureRefused
  <2>1. request.max \in 1 .. MaxFrames
    BY DEF Requests
  <2>2. CallTypes' /\ Session' /\ Answers' /\ Outcome'
    BY <1>5 DEF CaptureRefused
  <2>3. Frames'
    BY <1>5, <2>1 DEF CaptureRefused
  <2>. QED
    BY <1>0, <2>2, <2>3
<1>. QED
  BY <1>1, <1>2, <1>3, <1>4, <1>5

(* The thread and the kernel reach the reader only.                        *)
LEMMA ThreadIInv == IInv /\ Thread => IInv'
<1>. SUFFICES ASSUME IInv, Thread PROVE IInv'
  OBVIOUS
<1>1. ReaderProof!IInv'
  BY SameEnvironment, ReaderStep DEF IInv, Thread
<1>2. UNCHANGED <<attached, call, callVars>>
  BY EnvironmentKeepsSession DEF Thread
<1>. QED
  BY <1>1, <1>2 DEF IInv, CallInv, CallTypes, Session, Answers, Frames, Outcome,
     HoldsModule, WantsStack, callVars, cacheVars, localVars, outputVars

LEMMA BeginIInv ==
  ASSUME IInv, NEW r \in Requests, Begin(r)
  PROVE  IInv'
<1>. USE CaptureAssumption
<1>1. ReaderProof!IInv'
  BY ReaderStep DEF IInv, Begin
<1>2. r.max \in 1 .. MaxFrames /\ request' = r /\ (r.pid /\ r.max > 1 <=> WantsStack')
  BY DEF Requests, Begin, WantsStack
<1>3. CallTypes'
  <2>1. buffer' \in [0 .. MaxFrames - 1 -> {"unset", "partial", "whole"}]
    BY DEF Begin, Blank
  <2>2. usesReader' \in BOOLEAN /\ readerFailed' \in BOOLEAN
    BY Zenon DEF Begin
  <2>. QED
    BY <1>2, <2>1, <2>2 DEF IInv, CallInv, CallTypes, Begin, cacheVars
<1>4. Session'
  BY <1>2 DEF IInv, CallInv, CallTypes, Session, Begin, HoldsModule, readerVars, cacheVars
<1>5. Answers' /\ Frames' /\ Outcome'
  BY <1>2 DEF Answers, Frames, Outcome, Begin, Blank
<1>. QED
  BY <1>1, <1>3, <1>4, <1>5 DEF IInv, CallInv

LEMMA AttachingIInv == IInv /\ Attaching => IInv'
<1>. SUFFICES ASSUME IInv, Attaching PROVE IInv'
  OBVIOUS
<1>. USE DEF CallInv, CallTypes, Session, Answers, Frames, Outcome, HoldsModule,
             WantsStack, cacheVars, outputVars, localVars
<1>0. ReaderProof!IInv'
  BY SameAttach, ReaderStep DEF IInv, Attaching, AttachStarts, AttachSucceeds, AttachFails
<1>1. CASE AttachStarts
  <2>1. phase = "attach" /\ UNCHANGED phase /\ attached' = FALSE /\ ~usesReader
    BY <1>1 DEF IInv, AttachStarts, Reader!Attach
  <2>. QED
    BY <1>0, <1>1, <2>1 DEF IInv, AttachStarts
<1>2. CASE AttachSucceeds
  <2>1. phase = "attach" /\ phase' = "acquire" /\ attached' = TRUE /\ call' = "none"
    BY <1>2 DEF AttachSucceeds, Reader!WaitStopped
  <2>. QED
    BY <1>0, <1>2, <2>1 DEF IInv, AttachSucceeds
<1>3. CASE AttachFails
  <2>1. phase = "attach" /\ phase' = "acquire" /\ attached' = FALSE
    BY <1>3 DEF AttachFails, Reader!AttachRefused, Reader!WaitExited, Reader!WaitFails,
                Reader!ClearSession
  <2>2. call' = "none"
    BY <1>3 DEF AttachFails, Reader!AttachRefused, Reader!WaitExited, Reader!WaitFails,
                Reader!Idle
  <2>. QED
    BY <1>0, <1>3, <2>1, <2>2 DEF IInv, AttachFails
<1>. QED
  BY <1>1, <1>2, <1>3 DEF Attaching

(* A session the call has is detached, one it does not have is left alone. *)
LEMMA ReleasesThreadIInv ==
  ASSUME IInv, phase # "idle", ReleasesThread
  PROVE  ReaderProof!IInv' /\ attached' = FALSE /\ call' = call
<1>1. CASE usesReader
  <2>1. attached /\ Reader!Detach
    BY <1>1 DEF IInv, CallInv, Session, ReleasesThread
  <2>2. ReaderProof!IInv'
    BY <2>1, SameDetach, ReaderStep DEF IInv
  <2>3. attached' = FALSE /\ call' = call
    BY <2>1 DEF Reader!Detach, Reader!ClearSession
  <2>. QED
    BY <2>2, <2>3
<1>2. CASE ~usesReader
  <2>1. UNCHANGED readerVars
    BY <1>2 DEF ReleasesThread
  <2>2. attached = FALSE
    BY <1>2 DEF IInv, CallInv, Session, ReaderProof!IInv, ReaderProof!TypeOK
  <2>3. ReaderProof!IInv'
    BY <2>1, ReaderStep DEF IInv
  <2>. QED
    BY <2>1, <2>2, <2>3 DEF readerVars
<1>. QED
  BY <1>1, <1>2

LEMMA ModuleIInv ==
  IInv /\ (Acquire \/ AcquireFails \/ RootFrame \/ RootFails) => IInv'
<1>. SUFFICES ASSUME IInv, Acquire \/ AcquireFails \/ RootFrame \/ RootFails PROVE IInv'
  OBVIOUS
<1>. USE CaptureAssumption
<1>. USE DEF CallInv, CallTypes, Session, Answers, Frames, Outcome, HoldsModule,
             WantsStack, cacheVars, outputVars, localVars, Errors
<1>0. request.path \in Paths /\ request.max \in 1 .. MaxFrames
  BY DEF IInv, Requests
<1>1. CASE Acquire
  <2>1. using' = [using EXCEPT ![Self] = request.path] /\ answer' = "OK"
    BY <1>0, <1>1, CacheAcquires DEF IInv, Acquire
  <2>2. ReaderProof!IInv'
    BY <1>1, ReaderStep DEF IInv, Acquire
  <2>3. using' \in [{Self} \cup Others -> Paths \cup {NoPath}] /\ using'[Self] # NoPath
    BY <1>0, <2>1 DEF IInv
  <2>. QED
    BY <1>1, <2>1, <2>2, <2>3 DEF IInv, Acquire, readerVars
<1>2. CASE AcquireFails
  <2>1. using' = using /\ answer' \in {"LOAD_ERROR", "CACHE_FULL"}
    BY <1>2, CacheRefuses DEF AcquireFails
  <2>2. ReaderProof!IInv' /\ attached' = FALSE /\ call' = call
    BY <1>2, ReleasesThreadIInv DEF AcquireFails
  <2>. QED
    BY <1>2, <2>1, <2>2 DEF IInv, AcquireFails
<1>3. CASE RootFrame
  <2>1. ReaderProof!IInv'
    BY <1>3, ReaderStep DEF IInv, RootFrame
  <2>2. CallTypes' /\ Session'
    BY <1>0, <1>3 DEF IInv, RootFrame, readerVars
  <2>3. Answers' /\ Outcome'
    BY <1>0, <1>3 DEF IInv, RootFrame
  <2>4. Frames'
    BY <1>0, <1>3 DEF IInv, RootFrame
  <2>. QED
    BY <2>1, <2>2, <2>3, <2>4 DEF IInv
<1>4. CASE RootFails
  <2>1. ReaderProof!IInv'
    BY <1>4, ReaderStep DEF IInv, RootFails
  <2>. QED
    BY <1>0, <1>4, <2>1 DEF IInv, RootFails, readerVars
<1>. QED
  BY <1>1, <1>2, <1>3, <1>4

LEMMA LoopIInv ==
  IInv /\ (LimitReached \/ Gap \/ EvalFails \/ EvalReturnAddress \/ Restore \/ ReadFails)
    => IInv'
<1>. SUFFICES ASSUME IInv, LimitReached \/ Gap \/ EvalFails \/ EvalReturnAddress
                             \/ Restore \/ ReadFails
              PROVE  IInv'
  OBVIOUS
<1>. USE CaptureAssumption
<1>1. ReaderProof!IInv' /\ attached' = attached /\ call' = call
  <2>1. UNCHANGED readerVars \/ Reader!Read("OK") \/ Reader!Read("IO")
    BY DEF LimitReached, Gap, EvalFails, EvalReturnAddress, Restore, ReadFails
  <2>2. CASE UNCHANGED readerVars
    BY <2>2, ReaderStep DEF IInv, readerVars
  <2>3. CASE Reader!Read("OK") \/ Reader!Read("IO")
    BY <2>3, SameRead, ReadKeepsSession, ReaderStep DEF IInv
  <2>. QED
    BY <2>1, <2>2, <2>3
<1>. USE DEF CallInv, CallTypes, Session, Answers, Frames, Outcome, HoldsModule,
             WantsStack, cacheVars, outputVars, localVars, Errors, MayContinue
<1>2. request.max \in 1 .. MaxFrames
  BY DEF IInv, Requests
<1>3. CASE LimitReached
  BY <1>1, <1>2, <1>3 DEF IInv, LimitReached
<1>4. CASE Gap
  BY <1>1, <1>2, <1>4 DEF IInv, Gap
<1>5. CASE EvalFails
  BY <1>1, <1>2, <1>5 DEF IInv, EvalFails
<1>6. CASE EvalReturnAddress
  BY <1>1, <1>2, <1>6 DEF IInv, EvalReturnAddress
<1>7. CASE Restore
  BY <1>1, <1>2, <1>7 DEF IInv, Restore
<1>8. CASE ReadFails
  BY <1>1, <1>2, <1>8 DEF IInv, ReadFails
<1>. QED
  BY <1>3, <1>4, <1>5, <1>6, <1>7, <1>8

LEMMA FinishIInv == IInv /\ Finish => IInv'
<1>. SUFFICES ASSUME IInv, Finish PROVE IInv'
  OBVIOUS
<1>. USE CaptureAssumption
<1>1. using' = [using EXCEPT ![Self] = NoPath] /\ answer' = "OK"
  BY CacheReleases DEF Finish
<1>2. ReaderProof!IInv' /\ attached' = FALSE /\ call' = call
  BY ReleasesThreadIInv DEF Finish
<1>3. using' \in [{Self} \cup Others -> Paths \cup {NoPath}] /\ using'[Self] = NoPath
  BY <1>1 DEF IInv, CallInv, CallTypes
<1>4. CallTypes'
  BY <1>1, <1>3 DEF IInv, CallInv, CallTypes, Finish, localVars, outputVars, Errors
<1>5. Session'
  BY <1>2, <1>3 DEF IInv, CallInv, CallTypes, Session, Finish, localVars, HoldsModule,
                    WantsStack
<1>6. Answers' /\ Frames' /\ Outcome'
  BY DEF IInv, CallInv, CallTypes, Answers, Frames, Outcome, Finish, localVars, outputVars
<1>. QED
  BY <1>2, <1>4, <1>5, <1>6 DEF IInv, CallInv

LEMMA StutterIInv == IInv /\ UNCHANGED vars => IInv'
<1>. SUFFICES ASSUME IInv, UNCHANGED vars PROVE IInv'
  OBVIOUS
<1>1. ReaderProof!IInv'
  BY ReaderStep DEF IInv, vars
<1>. QED
  BY <1>1 DEF vars, readerVars, cacheVars, localVars, outputVars, IInv, CallInv,
     CallTypes, Session, Answers, Frames, Outcome, HoldsModule, WantsStack

LEMMA NextIInv == IInv /\ [Next]_vars => IInv'
BY BetweenIInv, ThreadIInv, BeginIInv, AttachingIInv, ModuleIInv, LoopIInv, FinishIInv,
   StutterIInv
   DEF Next, Unwinding

(* Every reachable state satisfies the invariant.                          *)
THEOREM AlwaysIInv == Spec => []IInv
BY InitIInv, NextIInv, PTL DEF Spec

-----------------------------------------------------------------------------
(* Theorems *)

(* The call, the cache and the reader keep their types                     *)
(* (dwunw_unwind.c:62-180).                                                *)
THEOREM TypeCorrect == Spec => []TypeOK
<1>1. IInv => TypeOK
  BY SameTypes DEF IInv, ReaderProof!IInv, CallInv, CallTypes, TypeOK
<1>. QED
  BY <1>1, AlwaysIInv, PTL

(* A call that has returned holds no module, no thread and no descriptor,  *)
(* on whichever path it returned (dwunw_unwind.c:105-113, :166-170).       *)
THEOREM NothingIsHeld == Spec => []NothingHeld
<1>1. IInv => NothingHeld
  BY DEF IInv, ReaderProof!IInv, ReaderProof!TypeOK, ReaderProof!Descriptor,
         ReaderProof!Tracee, ReaderProof!StdIn, ReaderProof!MemFd, Reader!StdIn,
         CallInv, CallTypes, Session, HoldsModule, NothingHeld, Returned
<1>. QED
  BY <1>1, AlwaysIInv, PTL

(* A failed attach, read or rule reaches the caller                        *)
(* (dwunw_unwind.c:100-102, :147-150, :172-174).                           *)
THEOREM FailuresSurface == Spec => []FailureSurfaces
<1>1. IInv => FailureSurfaces
  BY DEF IInv, CallInv, Answers, FailureSurfaces, Returned
<1>. QED
  BY <1>1, AlwaysIInv, PTL

(* The frames the caller is told of are the frames that were written, and  *)
(* none beyond max_frames is (dwunw_unwind.c:115-163).                     *)
THEOREM FramesCorrect == Spec => []FramesAreWritten
<1>1. IInv => FramesAreWritten
  BY DEF IInv, CallInv, Frames, FramesAreWritten
<1>. QED
  BY <1>1, AlwaysIInv, PTL

(* One capture reads one snapshot of the stack, because the reader's       *)
(* session lasts as long as the call (dwunw_unwind.c:141-146).             *)
THEOREM SnapshotCorrect == Spec => []CaptureReadsOneSnapshot
<1>1. IInv => CaptureReadsOneSnapshot
  BY DEF IInv, ReaderProof!IInv, ReaderProof!Frozen, CallInv, Session,
         CaptureReadsOneSnapshot, Returned
<1>. QED
  BY <1>1, AlwaysIInv, PTL

-----------------------------------------------------------------------------
(* Capture keeps the contract's safety part *)

(* Steps inside a call, and steps between two calls that leave the answer  *)
(* alone, change nothing the contract speaks of.                           *)
LEMMA Hidden ==
  ASSUME UNCHANGED <<ready, request>>,
         \/ phase # "idle" /\ phase' # "idle"
         \/ UNCHANGED <<phase, status, produced>>
  PROVE  UNCHANGED Contract!specVars
BY Zenon DEF Contract!specVars, Returned

(* The answer of a call that had its module is one of the contract's.      *)
LEMMA FinishAnswers ==
  ASSUME IInv, phase = "finish",
         NEW st, st = IF status = "OK" /\ readerFailed THEN "IO" ELSE status
  PROVE  [status |-> st, frames |-> produced]
           \in Contract!Outcomes([pid |-> request.pid, max |-> request.max])
<1>. USE CaptureAssumption
<1>. DEFINE asked == [pid |-> request.pid, max |-> request.max]
            told == [status |-> st, frames |-> produced]
<1>1. /\ request.max \in 1 .. MaxFrames /\ produced \in Nat /\ produced <= request.max
      /\ usesReader \in BOOLEAN /\ readerFailed \in BOOLEAN
  BY DEF IInv, CallInv, CallTypes, Requests, Frames
<1>2. Contract!ReadsStack(asked) <=> WantsStack
  BY DEF Contract!ReadsStack, WantsStack
<1>3. CASE status = "UNSUPPORTED_ARCH" /\ produced = 0
  BY <1>3 DEF Contract!Outcomes, Contract!NoRoot, Contract!Answer
<1>4. CASE status = "OK" /\ produced >= 1 /\ ~WantsStack
  <2>1. ~usesReader /\ ~readerFailed
    BY <1>4 DEF IInv, CallInv, Session
  <2>2. told = Contract!Answer("OK", 1)
    BY <1>4, <2>1 DEF IInv, CallInv, Outcome, Contract!Answer
  <2>. QED
    BY <1>2, <1>4, <2>2 DEF Contract!Outcomes
<1>5. CASE status = "OK" /\ produced >= 1 /\ WantsStack /\ ~readerFailed
  <2>1. told = Contract!Answer("OK", produced) /\ produced \in 1 .. asked.max
    BY <1>1, <1>5 DEF Contract!Answer
  <2>. QED
    BY <1>2, <1>5, <2>1 DEF Contract!Outcomes, Contract!Traces
<1>6. CASE status = "OK" /\ WantsStack /\ readerFailed
  <2>1. ~usesReader
    BY <1>6 DEF IInv, CallInv, Session
  <2>2. told = Contract!Answer("IO", 1) /\ 1 \in 1 .. asked.max - 1
    BY <1>1, <1>6, <2>1 DEF IInv, CallInv, Outcome, Contract!Answer, WantsStack
  <2>. QED
    BY <1>2, <1>6, <2>2 DEF Contract!Outcomes, Contract!Traces
<1>7. CASE status \in {"IO", "CFI_ERROR"} /\ usesReader /\ produced \in 1 .. request.max - 1
  <2>1. WantsStack
    BY <1>7 DEF IInv, CallInv, Session
  <2>2. told = Contract!Answer(status, produced) /\ produced \in 1 .. asked.max - 1
    BY <1>7 DEF Contract!Answer
  <2>. QED
    BY <1>2, <1>7, <2>1, <2>2 DEF Contract!Outcomes, Contract!Traces
<1>. QED
  BY <1>1, <1>3, <1>4, <1>5, <1>6, <1>7 DEF IInv, CallInv, Outcome

LEMMA InitRefines == Init => Contract!Init
<1>. SUFFICES ASSUME Init PROVE Contract!Init
  OBVIOUS
<1>0. 1 \in 1 .. MaxFrames
  BY CaptureAssumption
<1>1. request \in [path : Paths, pid : {FALSE}, max : {1}]
  BY Zenon DEF Init
<1>2. [pid |-> request.pid, max |-> request.max] \in Contract!Requests
  <2>1. request.pid = FALSE /\ request.max = 1
    BY <1>1, Zenon
  <2>. QED
    BY <1>0, <2>1 DEF Contract!Requests
<1>3. ready = TRUE /\ Returned /\ status = "OK" /\ produced = 0
  BY DEF Init, Returned
<1>. QED
  BY <1>2, <1>3, Zenon DEF Contract!Init, Contract!Unanswered, Contract!Answer

(* The calls between captures are the contract's, or hidden.               *)
LEMMA BetweenRefines ==
  ASSUME IInv, Event \/ OtherUser \/ Shutdown \/ InitContext \/ CaptureRefused
  PROVE  [Contract!Next]_(Contract!specVars)
<1>1. CASE Event
  BY <1>1, Hidden DEF Event, localVars, outputVars
<1>2. CASE OtherUser
  BY <1>2, Hidden DEF OtherUser, localVars, outputVars
<1>3. ASSUME Shutdown \/ InitContext PROVE Contract!Toggle
  <2>1. Returned /\ UNCHANGED <<phase, request, status, produced>>
    BY <1>3 DEF Shutdown, InitContext, Returned, localVars, outputVars
  <2>2. ready' = ~ready
    BY <1>3, Zenon DEF Shutdown, InitContext
  <2>. QED
    BY <2>1, <2>2, Zenon DEF Contract!Toggle, Returned
<1>4. ASSUME CaptureRefused PROVE Contract!Refuse
  BY <1>4, Zenon DEF CaptureRefused, Contract!Refuse, Contract!Answer, Returned, localVars
<1>. QED
  BY <1>1, <1>2, <1>3, <1>4, Zenon DEF Contract!Next

(* A call that begins is the contract's Start.                             *)
LEMMA BeginRefines ==
  ASSUME NEW r \in Requests, Begin(r)
  PROVE  Contract!Next
<1>. DEFINE asked == [pid |-> r.pid, max |-> r.max]
<1>1. asked \in Contract!Requests
  BY DEF Requests, Contract!Requests
<1>2. Returned /\ ~Returned' /\ ready /\ UNCHANGED ready /\ request' = r
  BY DEF Begin, Returned
<1>3. Contract!Start(asked)
  BY <1>2, Zenon DEF Contract!Start, Contract!Unanswered, Contract!Answer
<1>. QED
  BY <1>1, <1>3, Zenon DEF Contract!Next

(* A call that returns with an error of the cache, or at its end, is the   *)
(* contract's Return.                                                      *)
LEMMA ReturnRefines ==
  ASSUME IInv, AcquireFails \/ Finish
  PROVE  Contract!Return
<1>1. ~Returned /\ Returned' /\ UNCHANGED <<ready, request, produced>>
  BY DEF AcquireFails, Finish, Returned, localVars, outputVars
<1>2. [status |-> status', frames |-> produced']
        \in Contract!Outcomes([pid |-> request.pid, max |-> request.max])
  <2>1. CASE AcquireFails
    <3>1. status' \in {"LOAD_ERROR", "CACHE_FULL"}
      BY <2>1, CacheRefuses DEF AcquireFails
    <3>2. produced' = 0
      BY <1>1, <2>1 DEF AcquireFails, IInv, CallInv, Frames
    <3>. QED
      BY <3>1, <3>2 DEF Contract!Outcomes, Contract!NoRoot, Contract!Answer
  <2>2. CASE Finish
    BY <1>1, <2>2, FinishAnswers DEF Finish
  <2>. QED
    BY <2>1, <2>2
<1>. QED
  BY <1>1, <1>2, Zenon DEF Contract!Return

LEMMA StepRefines ==
  ASSUME IInv, [Next]_vars
  PROVE  [Contract!Next]_(Contract!specVars)
<1>1. CASE Event \/ OtherUser \/ Shutdown \/ InitContext \/ CaptureRefused
  BY <1>1, BetweenRefines
<1>2. CASE Thread
  BY <1>2, Hidden DEF Thread, callVars, localVars, outputVars
<1>3. CASE \E r \in Requests : Begin(r)
  BY <1>3, BeginRefines
<1>4. CASE Attaching
  BY <1>4, Hidden DEF Attaching, AttachStarts, AttachSucceeds, AttachFails, localVars,
                      outputVars
<1>5. CASE Acquire \/ RootFrame \/ RootFails
  BY <1>5, Hidden DEF Acquire, RootFrame, RootFails, localVars, outputVars
<1>6. CASE LimitReached \/ Gap \/ EvalFails \/ EvalReturnAddress \/ Restore \/ ReadFails
  BY <1>6, Hidden DEF LimitReached, Gap, EvalFails, EvalReturnAddress, Restore, ReadFails,
                      localVars, outputVars
<1>7. CASE AcquireFails \/ Finish
  BY <1>7, ReturnRefines DEF Contract!Next
<1>8. CASE UNCHANGED vars
  BY <1>8, Hidden DEF vars, localVars, outputVars
<1>. QED
  BY <1>1, <1>2, <1>3, <1>4, <1>5, <1>6, <1>7, <1>8 DEF Next, Unwinding

(* Every answer a call gives is one the contract allows for its request,   *)
(* and nothing but a call changes it (dwunw_unwind.c:62-180).              *)
THEOREM KeepsContract ==
  Spec => Contract!Init /\ [][Contract!Next]_(Contract!specVars)
BY InitRefines, StepRefines, AlwaysIInv, PTL DEF Spec

=============================================================================
