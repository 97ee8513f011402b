----------------------------- MODULE MemleakTools -----------------------------
(***************************************************************************)
(* The two user programs that turn probe events into traces: "bcc" is      *)
(* examples/memleak_bcc_dwunw/memleak_dwunw_user.c, "basic" is             *)
(* examples/bpf_memleak/memleak_user.c.  A program sets its probes up,     *)
(* polls a ring buffer and hands every event to dwunw_capture, which is    *)
(* the contract of CaptureSpec; "bcc" may also fork the program it traces, *)
(* hold it back until the probes are in place and reap it in the end.      *)
(*                                                                         *)
(* The probes, the child, the kernel's signals and the user run beside the *)
(* one thread of the program.  One event is watched, the others are alike. *)
(* Its registers and names, the time and what is printed are left out; so  *)
(* is the summary of each interval, which is OutstandingWalk.              *)
(***************************************************************************)
EXTENDS Integers, Sequences

CONSTANTS
  RingSize,      \* events that fit into the ring buffer
  MaxFrames,     \* length of the handler's frames[]
  MaxIntervals   \* bound on the nr_intervals of the command line

ASSUME MemleakToolsAssumption ==
  /\ RingSize \in Nat \ {0}
  /\ MaxFrames \in Nat \ {0, 1}
  /\ MaxIntervals \in Nat \ {0}

VARIABLES
  (* of the command line *)
  tool, mode, spawns,
  (* of the program *)
  intervals,     \* nr_intervals, counted down; Forever when none is given
  phase, ret,
  exiting, childExited,
  ring,          \* the ring_buffer exists
  tries,         \* captures made for the event at the head of the queue
  trace,         \* history: what the last trace printed rests on
  (* of the probes and the child *)
  queue,         \* events in the ring, the one being handled first
  watched,       \* what became of the watched event
  child, go,     \* the forked program, and the eventfd it waits for
  killed,        \* SIGTERM was sent to it
  (* of CaptureSpec *)
  ready, calling, asked, told

Contract == INSTANCE CaptureSpec

captureVars == <<ready, calling, asked, told>>
options == <<tool, mode, spawns>>
handlerVars == <<tries, trace>>
signalVars == <<exiting, childExited>>
childVars == <<child, go, killed>>
eventVars == <<queue, watched>>
vars == <<options, intervals, phase, ret, signalVars, ring, handlerVars,
          eventVars, childVars, captureVars>>

(* -1 counted down never meets 0.                                          *)
Forever == -1

Phases == {"start", "forked", "runtime", "notify", "symbols", "loop", "poll",
           "handle", "stop", "reaping", "cleanup", "done"}

TypeOK ==
  /\ tool \in {"bcc", "basic"} /\ mode \in {"off", "fallback", "force"}
  /\ spawns \in BOOLEAN
  /\ intervals \in Forever .. MaxIntervals
  /\ phase \in Phases /\ ret \in {"OK", "error"}
  /\ exiting \in BOOLEAN /\ childExited \in BOOLEAN /\ ring \in BOOLEAN
  /\ tries \in 0 .. 2
  /\ trace \in [pid : BOOLEAN, frames : 0 .. MaxFrames, tries : 0 .. 2]
  /\ queue \in Seq({"watched", "other"}) /\ Len(queue) <= RingSize
  /\ watched \in {"unseen", "lost", "queued", "failed", "reported"}
  /\ child \in {"none", "waiting", "running", "zombie", "reaped"}
  /\ go \in BOOLEAN /\ killed \in BOOLEAN
  /\ ready \in BOOLEAN /\ calling \in BOOLEAN
  /\ asked \in Contract!Requests
  /\ told.frames \in 0 .. MaxFrames

(* "basic" always reads the stack and falls back; it has no child and no   *)
(* count of intervals.                                                     *)
Init ==
  /\ \/ /\ tool = "bcc" /\ mode \in {"off", "fallback", "force"}
        /\ spawns \in BOOLEAN
        /\ intervals \in {Forever} \cup 1 .. MaxIntervals
     \/ tool = "basic" /\ mode = "fallback" /\ spawns = FALSE /\ intervals = Forever
  /\ phase = "start" /\ ret = "OK"
  /\ exiting = FALSE /\ childExited = FALSE /\ ring = FALSE
  /\ tries = 0 /\ trace = [pid |-> FALSE, frames |-> 0, tries |-> 0]
  /\ queue = <<>> /\ watched = "unseen"
  /\ child = "none" /\ go = FALSE /\ killed = FALSE
  /\ ready = FALSE /\ calling = FALSE
  /\ asked = [pid |-> FALSE, max |-> 1] /\ told = Contract!Unanswered

-----------------------------------------------------------------------------
(* Signals to "bcc" *)

(* sig_handler tells SIGCHLD from the others by its number only, and a     *)
(* stop of a traced thread raises it as well as the end of the child.      *)
ChildSignal ==
  IF tool = "bcc" THEN exiting' = TRUE /\ childExited' = TRUE ELSE UNCHANGED signalVars

-----------------------------------------------------------------------------
(* Setting up *)

setupRest == <<options, intervals, signalVars, handlerVars, eventVars, killed>>

(* The child is forked and waits for the eventfd.                          *)
Fork ==
  /\ phase = "start" /\ tool = "bcc"
  /\ child' = IF spawns THEN "waiting" ELSE child
  /\ phase' = "forked"
  /\ UNCHANGED <<setupRest, ret, ring, go, captureVars>>

(* event_init fails and ret stays 0, or fork fails.                        *)
ForkFails ==
  /\ phase = "start" /\ tool = "bcc" /\ spawns
  /\ phase' = "cleanup" /\ ret' \in {"OK", "error"}
  /\ UNCHANGED <<setupRest, ring, child, go, captureVars>>

(* The buffers are allocated, the programs opened, loaded and attached.    *)
AttachProbes ==
  /\ phase = "forked" /\ tool = "bcc"
  /\ phase' = "runtime"
  /\ UNCHANGED <<setupRest, ret, ring, child, go, captureVars>>

(* setup_dwunw_runtime makes the context and the ring buffer.              *)
SetUpRuntime ==
  /\ phase = "runtime" /\ tool = "bcc"
  /\ ring' = (mode # "off")
  /\ IF mode # "off" THEN Contract!Toggle ELSE UNCHANGED captureVars
  /\ phase' = "notify"
  /\ UNCHANGED <<setupRest, ret, child, go>>

(* event_notify lets the child go.                                         *)
Notify ==
  /\ phase = "notify"
  /\ go' = spawns
  /\ phase' = "symbols"
  /\ UNCHANGED <<setupRest, ret, ring, child, captureVars>>

LoadSymbols ==
  /\ phase = "symbols"
  /\ phase' = "loop"
  /\ UNCHANGED <<setupRest, ret, ring, child, go, captureVars>>

SetupFailsQuietly ==
  /\ tool = "bcc" /\ phase \in {"forked", "runtime", "symbols"}
  /\ phase' = "cleanup"
  /\ UNCHANGED <<setupRest, ret, ring, child, go, captureVars>>

(* Each step of the setup may fail, the runtime's after dwunw_init as well *)
(* as in it.  The child, if any, is left as it is.                         *)
SetupFails ==
  /\ tool = "bcc"
  /\ phase \in {"forked", "runtime", "symbols"} \/ (phase = "notify" /\ spawns)
  /\ phase' = "cleanup" /\ ret' = "error"
  /\ \/ phase = "runtime" /\ mode # "off" /\ Contract!Toggle
     \/ UNCHANGED captureVars
  /\ UNCHANGED <<setupRest, ring, child, go>>

(* "basic" calls dwunw_init first and returns 1 if that fails.             *)
InitBasic ==
  /\ phase = "start" /\ tool = "basic"
  /\ \/ Contract!Toggle /\ phase' = "forked" /\ UNCHANGED ret
     \/ UNCHANGED captureVars /\ phase' = "done" /\ ret' = "error"
  /\ UNCHANGED <<setupRest, ring, child, go>>

AttachBasic ==
  /\ phase = "forked" /\ tool = "basic"
  /\ phase' = "runtime"
  /\ UNCHANGED <<setupRest, ret, ring, child, go, captureVars>>

NewRingBasic ==
  /\ phase = "runtime" /\ tool = "basic"
  /\ phase' = "loop" /\ ring' = TRUE
  /\ UNCHANGED <<setupRest, ret, child, go, captureVars>>

(* A later step that fails ends in 0 as well.                              *)
FailBasic ==
  /\ tool = "basic" /\ phase \in {"forked", "runtime"}
  /\ phase' = "cleanup"
  /\ UNCHANGED <<setupRest, ret, ring, child, go, captureVars>>

-----------------------------------------------------------------------------
(* The probes *)

(* Probes fire in some process, in the child alone if there is one.        *)
Armed ==
  /\ mode # "off" /\ phase \notin {"start", "forked", "done"}
  /\ spawns => child = "running"

(* emit_dwunw_event: without room in the ring the event is lost.           *)
Emit(e) ==
  /\ Armed
  /\ e = "watched" => watched = "unseen"
  /\ queue' = IF Len(queue) < RingSize THEN Append(queue, e) ELSE queue
  /\ watched' = IF e # "watched" THEN watched
                ELSE IF Len(queue) < RingSize THEN "queued" ELSE "lost"
  /\ UNCHANGED <<options, intervals, phase, ret, signalVars, ring, handlerVars,
                 childVars, captureVars>>

-----------------------------------------------------------------------------
(* The main loop *)

loopRest == <<options, ret, ring, childVars>>

MayTurnTold == intervals # 0

MayTurn == ~exiting /\ intervals # 0

OneLess == IF intervals = Forever THEN Forever ELSE intervals - 1

(* ring_buffer__poll finds events.                                         *)
Poll ==
  /\ phase = "loop" /\ MayTurn /\ queue # <<>> /\ ring
  /\ phase' = "poll" /\ intervals' = OneLess
  /\ UNCHANGED <<loopRest, signalVars, handlerVars, eventVars, captureVars>>

(* It finds none or is interrupted, or there is no ring buffer to poll.    *)
PollIdle ==
  /\ phase = "loop" /\ MayTurn /\ (queue = <<>> \/ ~ring)
  /\ intervals' = OneLess
  /\ UNCHANGED <<loopRest, phase, signalVars, handlerVars, eventVars, captureVars>>

(* It fails, which ends the loop in mode force.                            *)
PollFails ==
  /\ phase = "loop" /\ MayTurn /\ ring /\ tool = "bcc"
  /\ intervals' = OneLess
  /\ exiting' = (exiting \/ mode = "force")
  /\ UNCHANGED <<loopRest, phase, childExited, handlerVars, eventVars, captureVars>>

(* It goes on until the ring is empty, whatever the signal handler says.   *)
PollReturns ==
  /\ phase = "poll" /\ queue = <<>>
  /\ phase' = "loop"
  /\ UNCHANGED <<loopRest, intervals, signalVars, handlerVars, eventVars, captureVars>>

LoopEnds ==
  /\ phase = "loop" /\ ~MayTurn /\ tool = "bcc"
  /\ phase' = "stop"
  /\ UNCHANGED <<loopRest, intervals, signalVars, handlerVars, eventVars, captureVars>>

(* "basic" leaves its loop when it is told to, when its time is up or when *)
(* a poll fails.                                                           *)
LoopEndsBasic ==
  /\ phase = "loop" /\ tool = "basic"
  /\ phase' = "cleanup"
  /\ UNCHANGED <<loopRest, intervals, signalVars, handlerVars, eventVars, captureVars>>

-----------------------------------------------------------------------------
(* The handler of one event *)

handlerRest == <<options, intervals, ret, signalVars, ring, childVars>>

(* handle_dwunw_event, handle_event: the first capture reads the stack of  *)
(* the thread the event comes from.                                        *)
Handle ==
  /\ phase = "poll" /\ queue # <<>>
  /\ Contract!Start([pid |-> TRUE, max |-> MaxFrames])
  /\ tries' = 1 /\ phase' = "handle"
  /\ UNCHANGED <<handlerRest, trace, eventVars>>

CaptureReturns ==
  /\ Contract!Return
  /\ UNCHANGED <<handlerRest, phase, handlerVars, eventVars>>

Judging == phase = "handle" /\ ~calling

Failed == told.status # "OK"

RetryAsBefore ==
  /\ Judging /\ Failed /\ tries = 1 /\ mode = "fallback"
  /\ Contract!Start(asked)
  /\ tries' = 2
  /\ UNCHANGED <<handlerRest, phase, trace, eventVars>>

RetryForever ==
  /\ Judging /\ Failed /\ mode = "fallback"
  /\ Contract!Start([asked EXCEPT !.pid = FALSE])
  /\ tries' = 2
  /\ UNCHANGED <<handlerRest, phase, trace, eventVars>>

(* A failed capture is repeated without a reader, except in mode force.    *)
Retry ==
  /\ Judging /\ Failed /\ asked.pid /\ mode = "fallback"
  /\ Contract!Start([asked EXCEPT !.pid = FALSE])
  /\ tries' = 2
  /\ UNCHANGED <<handlerRest, phase, trace, eventVars>>

(* The callback returns and libbpf frees the event's room in the ring.     *)
Consume(outcome) ==
  /\ queue' = Tail(queue)
  /\ watched' = IF Head(queue) = "watched" THEN outcome ELSE watched
  /\ phase' = "poll"
  /\ UNCHANGED <<handlerRest, captureVars>>

GiveUp ==
  /\ Judging /\ Failed /\ ~(asked.pid /\ mode = "fallback")
  /\ Consume("failed")
  /\ UNCHANGED handlerVars

PrintTrace ==
  /\ Judging /\ ~Failed
  /\ Consume("reported")
  /\ trace' = [pid |-> asked.pid, frames |-> told.frames, tries |-> tries]
  /\ UNCHANGED tries

-----------------------------------------------------------------------------
(* What a capture that attaches does to the program's process *)

Attaching == calling /\ Contract!ReadsStack(asked)

attachRest == <<options, intervals, phase, ret, ring, handlerVars, eventVars,
                go, killed, captureVars>>

(* The traced thread stops; its tracer gets SIGCHLD.                       *)
TracedStops ==
  /\ Attaching /\ (spawns => child = "running")
  /\ ChildSignal
  /\ UNCHANGED <<attachRest, child>>

(* The child exits while the reader waits for it to stop: the reader's     *)
(* waitpid reaps it.                                                       *)
ReaderReaps ==
  /\ Attaching /\ child = "running"
  /\ child' = "reaped"
  /\ ChildSignal
  /\ UNCHANGED attachRest

-----------------------------------------------------------------------------
(* The child and the user *)

(* A signal may interrupt the program's own waitpid.                       *)
MayInterrupt ==
  \/ UNCHANGED <<phase, ret>>
  \/ phase = "reaping" /\ phase' = "cleanup" /\ ret' = "error"

childRest == <<options, intervals, ring, handlerVars, eventVars, go, killed, captureVars>>

(* event_wait returns and execl succeeds.                                  *)
ChildExecs ==
  /\ child = "waiting" /\ go
  /\ child' = "running"
  /\ UNCHANGED <<childRest, phase, ret, signalVars>>

(* The child ends: its event_wait is interrupted, its execl fails, or the  *)
(* program it runs is over.                                                *)
ChildEnds ==
  /\ \/ child = "waiting" /\ (go \/ exiting)
     \/ child = "running"
  /\ child' = "zombie"
  /\ IF phase = "done" THEN UNCHANGED <<phase, ret, signalVars>>
     ELSE ChildSignal /\ MayInterrupt
  /\ UNCHANGED childRest

(* SIGINT or SIGTERM.                                                      *)
Interrupt ==
  /\ phase # "done"
  /\ exiting' = TRUE
  /\ MayInterrupt
  /\ UNCHANGED <<childRest, child, childExited>>

-----------------------------------------------------------------------------
(* Shutting down *)

endRest == <<options, intervals, signalVars, handlerVars, eventVars, go>>

StopKillsAlways ==
  /\ phase = "stop"
  /\ killed' = spawns
  /\ phase' = IF spawns THEN "reaping" ELSE "cleanup"
  /\ UNCHANGED <<endRest, ret, ring, child, captureVars>>

StopTrustsFlag ==
  /\ phase = "stop"
  /\ killed' = (spawns /\ ~childExited)
  /\ phase' = IF killed' THEN "reaping" ELSE "cleanup"
  /\ UNCHANGED <<endRest, ret, ring, child, captureVars>>

(* A child that is not known to have ended is told to, and waited for.     *)
Stop ==
  /\ phase = "stop"
  /\ killed' = (spawns /\ ~childExited)
  /\ phase' = IF spawns THEN "reaping" ELSE "cleanup"
  /\ UNCHANGED <<endRest, ret, ring, child, captureVars>>

(* kill fails where the child may not be signalled.                        *)
StopFails ==
  /\ phase = "stop" /\ spawns /\ ~childExited
  /\ phase' = "cleanup" /\ ret' = "error"
  /\ UNCHANGED <<endRest, ring, child, killed, captureVars>>

(* waitpid blocks until the child has ended, and fails if there is none.   *)
Reap ==
  /\ phase = "reaping" /\ child \in {"zombie", "reaped"}
  /\ child' = "reaped" /\ phase' = "cleanup"
  /\ ret' = IF child = "zombie" THEN ret ELSE "error"
  /\ UNCHANGED <<endRest, ring, killed, captureVars>>

(* The ring goes before the context; the probes are detached.              *)
Teardown ==
  /\ phase = "cleanup"
  /\ phase' = "done" /\ ring' = FALSE
  /\ IF ready THEN Contract!Toggle ELSE UNCHANGED captureVars
  /\ UNCHANGED <<endRest, ret, child, killed>>

-----------------------------------------------------------------------------
SettingUp ==
  \/ Fork \/ ForkFails \/ AttachProbes \/ SetUpRuntime
  \/ Notify \/ LoadSymbols \/ SetupFails
  \/ InitBasic \/ AttachBasic \/ NewRingBasic \/ FailBasic

Looping ==
  \/ Poll \/ PollIdle \/ PollFails \/ PollReturns
  \/ LoopEnds \/ LoopEndsBasic
  \/ Handle \/ CaptureReturns \/ Retry \/ GiveUp \/ PrintTrace

Ending == Stop \/ StopFails \/ Reap \/ Teardown

(* What the program's thread does next; it has no step only while it is    *)
(* blocked in waitpid, and in the end.                                     *)
Program == SettingUp \/ Looping \/ Ending

Others ==
  \/ \E e \in {"watched", "other"} : Emit(e)
  \/ TracedStops \/ ReaderReaps
  \/ ChildExecs \/ ChildEnds \/ Interrupt

Over == phase = "done" /\ UNCHANGED vars

Next == Program \/ Others \/ Over

(* The program is scheduled; polls do not fail for ever, and one that      *)
(* finds the ring empty again and again returns; the time of "basic"       *)
(* passes; a child that was let go gets on, and one that was sent SIGTERM  *)
(* ends.                                                                   *)
Fairness ==
  /\ WF_vars(Program)
  /\ SF_vars(Poll) /\ SF_vars(PollReturns) /\ SF_vars(LoopEndsBasic)
  /\ WF_vars(child = "waiting" /\ (ChildExecs \/ ChildEnds))
  /\ WF_vars(killed /\ ChildEnds)

Spec == Init /\ [][Next]_vars /\ Fairness

-----------------------------------------------------------------------------
(* Properties *)

(* SIGTERM goes to the program's own child and never to whoever got its    *)
(* process id later: when the stack reader's waitpid has reaped the child, *)
(* the signal handler has run before the loop ends                         *)
(* (memleak_dwunw_user.c:471-481, stack_reader.c:129).                     *)
KillsOnlyItsChild ==
  [][killed' /\ ~killed => child \in {"waiting", "running", "zombie"}]_vars

(* A program that ends with success has left no child behind, whichever of *)
(* the user, the child, a traced stop and the reader's waitpid came first  *)
(* (memleak_dwunw_user.c:471-490).                                         *)
ChildAccountedFor ==
  phase = "done" /\ ret = "OK" => child \in {"none", "reaped"}

(* A trace that is printed is the answer of one capture: what a failed     *)
(* capture had found before the fallback is not in it, so a fallback is    *)
(* the root frame alone, and mode force prints no fallback                 *)
(* (memleak_dwunw_user.c:782-822, memleak_user.c:150-186).                 *)
TraceIsHonest ==
  /\ trace.tries = 2 => ~trace.pid /\ trace.frames = 1
  /\ trace.frames > 1 => trace.pid
  /\ mode = "force" => trace.tries # 2

(* The forked child does not wait for its eventfd for ever, unless the     *)
(* program gave up before it let it go, which it reports                   *)
(* (memleak_dwunw_user.c:414-423, 694-717).                                *)
ChildIsLetGo ==
  child = "waiting" ~> child # "waiting" \/ (phase = "done" /\ ret = "error")

(* An event that got into the ring is handled, for as long as the program  *)
(* has not left its loop; a full ring, failed captures and other events    *)
(* only delay it (memleak_dwunw_user.c:458-469, memleak_user.c:262-271).   *)
EventsAreHandled ==
  watched = "queued" ~>
    watched # "queued" \/ phase \in {"stop", "reaping", "cleanup", "done"}

(* Blocked in waitpid for a child nobody has told to end: a traced stop    *)
(* made the program believe it had.                                        *)
Misled == phase = "reaping" /\ ~killed /\ childExited /\ child = "running"

(* A program told to exit does so as soon as the probes leave the ring     *)
(* empty once, unless it was misled about its child                        *)
(* (memleak_dwunw_user.c:458-509, memleak_user.c:262-283).                 *)
EndsOnceQuiet ==
  []<>(phase \notin {"poll", "handle"} \/ queue = <<>>) =>
    (exiting ~> phase = "done" \/ Misled)

=============================================================================
