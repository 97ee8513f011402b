----------------------------- MODULE CaptureSpec -----------------------------
(***************************************************************************)
(* What dwunw_capture promises its callers, without modules, readers or    *)
(* signals: a call returns one of a few pairs of a status and a number of  *)
(* frames that depend on the request, and it always returns.  Capture      *)
(* implements this contract; MemleakTools calls it.                        *)
(***************************************************************************)
EXTENDS Integers

CONSTANT MaxFrames   \* bound on the request's max_frames

VARIABLES
  ready,    \* dwunw_init was called, and no dwunw_shutdown since
  calling,  \* a call is running
  asked,    \* its request, or the last one
  told      \* what the last call answered, Unanswered while one runs

specVars == <<ready, calling, asked, told>>

Requests == [pid : BOOLEAN, max : 1 .. MaxFrames]

Answer(status, frames) == [status |-> status, frames |-> frames]

Unanswered == Answer("OK", 0)

(* Without a process to read, or with room for one frame only, no stack is *)
(* read: the root frame or an error that has nothing to do with the stack. *)
ReadsStack(r) == r.pid /\ r.max > 1

(* The module, the architecture: no frame at all.                          *)
NoRoot == {Answer(s, 0) : s \in {"CACHE_FULL", "LOAD_ERROR", "UNSUPPORTED_ARCH"}}

(* A stack that is read gives up to max frames, or fewer and the reason.   *)
Traces(r) ==
  {Answer("OK", n) : n \in 1 .. r.max} \cup
  {Answer(s, n) : s \in {"IO", "CFI_ERROR"}, n \in 1 .. r.max - 1}

Outcomes(r) ==
  NoRoot \cup (IF ReadsStack(r) THEN Traces(r) ELSE {Answer("OK", 1)})

Init ==
  /\ ready = TRUE /\ calling = FALSE
  /\ asked \in Requests
  /\ told = Unanswered

Start(r) ==
  /\ ~calling /\ ready
  /\ calling' = TRUE /\ asked' = r /\ told' = Unanswered
  /\ UNCHANGED ready

Return ==
  /\ calling
  /\ calling' = FALSE
  /\ told' \in Outcomes(asked)
  /\ UNCHANGED <<ready, asked>>

(* A context that is not ready refuses every request.                      *)
Refuse ==
  /\ ~calling /\ ~ready
  /\ told' = Answer("INVALID_ARG", 0)
  /\ UNCHANGED <<ready, calling, asked>>

(* dwunw_init and dwunw_shutdown, between calls.                           *)
Toggle ==
  /\ ~calling
  /\ ready' = ~ready
  /\ UNCHANGED <<calling, asked, told>>

Next == (\E r \in Requests : Start(r)) \/ Return \/ Refuse \/ Toggle

Spec == Init /\ [][Next]_specVars /\ (calling ~> ~calling)

=============================================================================
