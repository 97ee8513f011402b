--------------------------- MODULE ModuleCacheSpec ---------------------------
(***************************************************************************)
(* What the module cache promises its clients, without slots, reference    *)
(* counts or sequence numbers: a module stays loaded while a client uses   *)
(* it; when its last user is done it joins the end of a queue of warm      *)
(* modules; when a file that is not loaded is asked for and there is no    *)
(* room, the head of that queue goes, whether or not the file then loads.  *)
(***************************************************************************)
EXTENDS Integers, Sequences, SequencesExt, FiniteSets

CONSTANTS Capacity, Paths, Clients, NoPath

VARIABLES
  using,   \* the path whose module each client uses
  warm,    \* loaded modules nobody uses, longest unused first
  answer   \* what the last request was told

absVars == <<using, warm, answer>>

Used == {using[c] : c \in Clients} \ {NoPath}

Loaded == Used \cup Range(warm)

Init ==
  /\ using = [c \in Clients |-> NoPath]
  /\ warm = <<>>
  /\ answer = "OK"

(* A module asked for again leaves the queue, wherever it stands.          *)
UseLoaded(c, p) ==
  /\ using[c] = NoPath
  /\ \/ p \in Used /\ warm' = warm
     \/ \E i \in DOMAIN warm : warm[i] = p /\ warm' = RemoveAt(warm, i)
  /\ using' = [using EXCEPT ![c] = p]
  /\ answer' = "OK"

HasRoom == Cardinality(Loaded) < Capacity

(* The warm queue after room was made for one more module.                 *)
MakesRoom ==
  \/ HasRoom /\ warm' = warm
  \/ ~HasRoom /\ warm # <<>> /\ warm' = Tail(warm)

Load(c, p) ==
  /\ using[c] = NoPath /\ p \notin Loaded
  /\ MakesRoom
  /\ using' = [using EXCEPT ![c] = p]
  /\ answer' = "OK"

FailToLoad(c, p) ==
  /\ using[c] = NoPath /\ p \notin Loaded
  /\ MakesRoom
  /\ answer' = "LOAD_ERROR"
  /\ UNCHANGED using

Refuse(c, p) ==
  /\ using[c] = NoPath /\ p \notin Loaded
  /\ ~HasRoom /\ warm = <<>>
  /\ answer' = "CACHE_FULL"
  /\ UNCHANGED <<using, warm>>

Done(c) ==
  /\ using[c] # NoPath
  /\ using' = [using EXCEPT ![c] = NoPath]
  /\ warm' = IF \E d \in Clients \ {c} : using[d] = using[c]
             THEN warm ELSE Append(warm, using[c])
  /\ answer' = "OK"

DoneTwice ==
  /\ answer' = "INVALID_ARG"
  /\ UNCHANGED <<using, warm>>

Clear ==
  /\ Used = {}
  /\ warm' = <<>>
  /\ answer' = "OK"
  /\ UNCHANGED using

Next ==
  \/ \E c \in Clients, p \in Paths :
       UseLoaded(c, p) \/ Load(c, p) \/ FailToLoad(c, p) \/ Refuse(c, p)
  \/ \E c \in Clients : Done(c)
  \/ DoneTwice
  \/ Clear

Spec == Init /\ [][Next]_absVars

=============================================================================
