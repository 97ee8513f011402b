----------------------------- MODULE MCCfiTables -----------------------------
(* Instances of CfiTables over every short pair of sections.               *)
EXTENDS CfiTables, SequencesExt

Cie == [kind |-> "cie", parent |-> 0, decodes |-> "OK"]
BadCie == [Cie EXCEPT !.decodes = "BAD_FORMAT"]
Fde(k) == [kind |-> "fde", parent |-> k, decodes |-> "OK"]
UnknownEncoding(k) == [Fde(k) EXCEPT !.decodes = "NOT_IMPLEMENTED"]
Overrun == [Cie EXCEPT !.kind = "overrun"]
End == [Cie EXCEPT !.kind = "end"]

FilesOf(eh, debug) ==
  { [eh_frame |-> e, debug_frame |-> d] : e \in eh, d \in debug }

(* .debug_frame of up to four entries after the kinds of .eh_frame that    *)
(* differ to the build.                                                    *)
MCFiles ==
  FilesOf({<<>>, <<Cie>>, <<Cie, End>>, <<Cie, Fde(1)>>, <<BadCie>>},
          SeqOf({Cie, Fde(1), Fde(2), UnknownEncoding(1), Overrun}, 4))

(* What a compiler writes into .debug_frame: three CIEs, with FDEs.        *)
DebugFrameFiles ==
  FilesOf({<<>>}, SeqOf({Cie, Fde(1), Fde(2)}, 4))

(* What a compiler writes into .eh_frame, with nothing else.               *)
EhFrameFiles ==
  FilesOf(SeqOf({Cie, Fde(1), Fde(2), End}, 4), {<<>>})

=============================================================================
