------------------------------ MODULE MCCfiEval ------------------------------
(* Three registers (a general one, the stack pointer, the return address)  *)
(* and one number without a slot; FDE programs of up to three instructions *)
(* over two pcs, the first of which some programs stop before.  One         *)
(* register number does not fit 16 bits.                                   *)
EXTENDS CfiEval, SequencesExt

I(op, reg, n) == [op |-> op, reg |-> reg, n |-> n]

MCCiePrograms ==
  { <<>>,
    <<I("def_cfa", 1, 8), I("offset", 2, 1)>>,
    <<I("def_cfa", 1, 8), I("unknown", 0, 0), I("offset", 2, 1)>>,
    <<I("offset", 0, 3), I("restore", 0, 0), I("def_cfa_sf", 3, -2)>> }

MCInstructions ==
  { I("advance", 0, 1), I("set_loc", 0, 101), I("offset", 0, 2), I("offset", 3, 1),
    I("restore", 2, 0), I("offset", 2, 3), I("def_cfa", 0, 16),
    I("def_cfa_register", 0, 0), I("def_cfa_register", 65536, 0), I("def_cfa_offset", 0, 24),
    I("def_cfa_offset_sf", 0, -3), I("nop", 0, 0), I("unknown", 0, 0),
    I("truncated", 0, 0) }

MCFdePrograms == SeqOf(MCInstructions, 3)

MCCalleeRegs == [r \in 0 .. 2 |-> <<1000, 2000, 3000>>[r + 1]]

MCDataAlign == -8

MCMemory(a) == (10000 + a) % 16384

=============================================================================
