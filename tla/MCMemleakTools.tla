---------------------------- MODULE MCMemleakTools ----------------------------
(* A ring of two events, so that the watched one can be behind another and *)
(* can be lost; two frames, the root and one that needs the stack; one     *)
(* interval, or no end of them.                                            *)
EXTENDS MemleakTools

=============================================================================
