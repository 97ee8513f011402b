------------------------------- MODULE CfiEval -------------------------------
(***************************************************************************)
(* One unwinding step, dwunw_cfi_eval of src/dwarf/cfi.c: the programs of  *)
(* the CIE and of the FDE are run up to a pc, which gives a row of rules;  *)
(* the row and the callee's registers give the caller's.  One instruction, *)
(* then one register, is one step; memory is read through the reader,      *)
(* which may fail at any read.                                             *)
(*                                                                         *)
(* Instructions are decoded: the encodings that do the same are one (the   *)
(* four advance_loc, offset and offset_extended, restore and its extended  *)
(* form), "unknown" is an opcode the code does not implement, and          *)
(* "truncated" one whose operands do not decode.                           *)
(***************************************************************************)
EXTENDS Integers, Sequences, FiniteSetsExt

CONSTANTS
  CiePrograms, FdePrograms,  \* instruction sequences
  Slots,                     \* DWUNW_REGSET_SLOTS (32 in the code)
  WordSize,                  \* 2^64 in the code
  ReturnReg,                 \* cie->return_reg
  SpReg,                     \* the stack pointer's DWARF number
  CodeAlign, DataAlign,      \* of the CIE
  PcBegin, Pcs,              \* where the FDE begins, and pcs to unwind from
  CalleeRegs,                \* register values of the callee
  Memory(_)                  \* what the frozen stack holds at an address

Operations ==
  {"advance", "set_loc", "offset", "restore", "def_cfa", "def_cfa_register",
   "def_cfa_offset", "def_cfa_sf", "def_cfa_offset_sf", "nop", "unknown", "truncated"}

Instructions == [op : Operations, reg : Nat, n : Int]

ASSUME ProgramsAssumption == CiePrograms \cup FdePrograms \subseteq Seq(Instructions)
ASSUME SizesAssumption == Slots \in Nat \ {0} /\ WordSize \in Nat \ {0}
ASSUME RegsAssumption ==
  /\ ReturnReg \in 0 .. Slots - 1 /\ SpReg \in 0 .. Slots - 1
  /\ CalleeRegs \in [0 .. Slots - 1 -> 0 .. WordSize - 1]
ASSUME AlignAssumption == CodeAlign \in Nat /\ DataAlign \in Int
(* An FDE is evaluated for a pc it covers only (cfi.c:875).                *)
ASSUME PcAssumption ==
  /\ {PcBegin} \cup Pcs \subseteq 0 .. WordSize - 1
  /\ \A p \in Pcs : PcBegin <= p
ASSUME MemoryAssumption ==
  \A a \in 0 .. WordSize - 1 : Memory(a) \in 0 .. WordSize - 1

VARIABLES
  cie, fde,   \* the two programs
  target,     \* the pc to unwind from
  phase,      \* "cie", "fde", "row", "restore", then "done"
  at,         \* the instruction to run next
  offset,     \* pc_offset of the running program
  row,        \* struct cfa_state current
  initial,    \* struct cfa_state initial
  cfa, ra,    \* cfa_value and ra_value, in the frame once it is written
  slot,       \* the register to restore next
  regs, sp, pc,  \* the caller's regset, updated in place
  status,
  cut         \* history: a program ended at an unknown opcode

vars == <<cie, fde, target, phase, at, offset, row, initial, cfa, ra, slot,
          regs, sp, pc, status, cut>>
programVars == <<cie, fde, target>>
regsetVars == <<regs, sp, pc>>

Registers == 0 .. Slots - 1

Words == 0 .. WordSize - 1

(* uint64_t arithmetic, and int64_t added to it.                           *)
Word(n) == n % WordSize

NoReg == 65535    \* UINT16_MAX, no CFA register

Same == [kind |-> "same", offset |-> 0]

Saved(n) == [kind |-> "offset", offset |-> Word(n)]

(* cfa_state_reset: no CFA, and every register keeps its value.            *)
ResetRow == [reg |-> NoReg, offset |-> 0, rules |-> [r \in Registers |-> Same]]

Rules == [kind : {"same", "offset"}, offset : Words]

Rows == [reg : 0 .. NoReg, offset : Words, rules : [Registers -> Rules]]

TypeOK ==
  /\ phase \in {"cie", "fde", "row", "restore", "done"}
  /\ at \in Nat \ {0} /\ offset \in Words
  /\ row \in Rows /\ initial \in Rows
  /\ cfa \in Words /\ ra \in Words
  /\ slot \in 0 .. Slots
  /\ regs \in [Registers -> Words] /\ sp \in Words /\ pc \in Words
  /\ status \in {"OK", "IO", "BAD_FORMAT", "NOT_IMPLEMENTED"}
  /\ cut \in BOOLEAN

Init ==
  /\ cie \in CiePrograms /\ fde \in FdePrograms /\ target \in Pcs
  /\ phase = "cie" /\ at = 1 /\ offset = 0
  /\ row = ResetRow /\ initial = ResetRow
  /\ cfa = 0 /\ ra = 0 /\ slot = 0
  /\ regs = CalleeRegs /\ sp = CalleeRegs[SpReg] /\ pc = target
  /\ status = "OK" /\ cut = FALSE

-----------------------------------------------------------------------------
(* execute_cfi *)

Program == IF phase = "cie" THEN cie ELSE fde

Instruction == Program[at]

Running == phase \in {"cie", "fde"} /\ at <= Len(Program)

IsAt(ops) == Running /\ Instruction.op \in ops

ReachesTarget(o) == phase = "fde" /\ Word(PcBegin + o) >= target

(* The CIE's program runs for the pc UINT64_MAX, which nothing passes.     *)
PassesTarget(o) == phase = "fde" /\ Word(PcBegin + o) > target

(* The next instruction, or none once the pc has been passed.              *)
Advance ==
  /\ IsAt({"advance", "set_loc"})
  /\ offset' = IF Instruction.op = "advance"
               THEN Word(offset + Instruction.n * CodeAlign)
               ELSE Word(Instruction.n - PcBegin)
  /\ at' = IF PassesTarget(offset') THEN Len(Program) + 1 ELSE at + 1
  /\ UNCHANGED <<programVars, phase, row, initial, cfa, ra, slot, regsetVars, status, cut>>

(* The CIE's own program has no initial rules to restore but SAME_VALUE.   *)
RuleOf(i) ==
  IF i.op = "offset" THEN Saved(i.n * DataAlign) ELSE initial.rules[i.reg]

(* A rule for a register without a slot is dropped.                        *)
SetRule ==
  /\ IsAt({"offset", "restore"})
  /\ row' = IF Instruction.reg \in Registers
            THEN [row EXCEPT !.rules[Instruction.reg] = RuleOf(Instruction)]
            ELSE row
  /\ at' = at + 1
  /\ UNCHANGED <<programVars, phase, offset, initial, cfa, ra, slot, regsetVars, status, cut>>

NamesCfaRegister(i) == i.op \in {"def_cfa", "def_cfa_register", "def_cfa_sf"}

NamesCfaOffset(i) ==
  i.op \in {"def_cfa", "def_cfa_offset", "def_cfa_sf", "def_cfa_offset_sf"}

(* The signed forms are factored by the CIE's data alignment.              *)
CfaOffsetOf(i) ==
  IF i.op \in {"def_cfa_sf", "def_cfa_offset_sf"} THEN i.n * DataAlign ELSE i.n

(* The register's number is cut to 16 bits.                                *)
SetCfa ==
  /\ Running
  /\ NamesCfaRegister(Instruction) \/ NamesCfaOffset(Instruction)
  /\ row' = [row EXCEPT
               !.reg = IF NamesCfaRegister(Instruction)
                       THEN Instruction.reg % (NoReg + 1) ELSE @,
               !.offset = IF NamesCfaOffset(Instruction)
                          THEN Word(CfaOffsetOf(Instruction)) ELSE @]
  /\ at' = at + 1
  /\ UNCHANGED <<programVars, phase, offset, initial, cfa, ra, slot, regsetVars, status, cut>>

Nop ==
  /\ IsAt({"nop"})
  /\ at' = at + 1
  /\ UNCHANGED <<programVars, phase, offset, row, initial, cfa, ra, slot, regsetVars, status, cut>>

(* An operand that does not decode fails the evaluation.                   *)
Truncated ==
  /\ IsAt({"truncated"})
  /\ status' = "BAD_FORMAT" /\ phase' = "done"
  /\ UNCHANGED <<programVars, at, offset, row, initial, cfa, ra, slot, regsetVars, cut>>

(* An unknown opcode ends the program where it is: NOT_IMPLEMENTED, which  *)
(* dwunw_cfi_eval takes like the end of the program.                       *)
Unknown ==
  /\ IsAt({"unknown"})
  /\ at' = Len(Program) + 1 /\ cut' = TRUE
  /\ UNCHANGED <<programVars, phase, offset, row, initial, cfa, ra, slot, regsetVars, status>>

-----------------------------------------------------------------------------
(* dwunw_cfi_eval *)

(* The CIE's row is what the FDE starts from and restores.                 *)
CieDone ==
  /\ phase = "cie" /\ ~Running
  /\ initial' = row
  /\ phase' = "fde" /\ at' = 1 /\ offset' = 0
  /\ UNCHANGED <<programVars, row, cfa, ra, slot, regsetVars, status, cut>>

(* A register without a slot counts as zero.                               *)
RegValue(r) == IF r \in Registers THEN regs[r] ELSE 0

FdeDone ==
  /\ phase = "fde" /\ ~Running
  /\ phase' = "row"
  /\ cfa' = Word(RegValue(row.reg) + row.offset)
  /\ UNCHANGED <<programVars, at, offset, row, initial, ra, slot, regsetVars, status, cut>>

NoCfa ==
  /\ phase = "row" /\ row.reg = NoReg
  /\ status' = "NOT_IMPLEMENTED" /\ phase' = "done"
  /\ UNCHANGED <<programVars, at, offset, row, initial, cfa, ra, slot, regsetVars, cut>>

ValueOf(rule, r) ==
  IF rule.kind = "offset" THEN Memory(Word(cfa + rule.offset)) ELSE regs[r]

(* The frame is written as soon as the return address is known.            *)
ReturnAddress ==
  /\ phase = "row" /\ row.reg # NoReg
  /\ ra' = ValueOf(row.rules[ReturnReg], ReturnReg)
  /\ phase' = "restore" /\ slot' = 0
  /\ UNCHANGED <<programVars, at, offset, row, initial, cfa, regsetVars, status, cut>>

(* The rule whose value is wanted next.                                    *)
Wanted == row.rules[IF phase = "row" THEN ReturnReg ELSE slot]

ReadFails ==
  /\ \/ phase = "row" /\ row.reg # NoReg
     \/ phase = "restore" /\ slot < Slots
  /\ Wanted.kind = "offset"
  /\ status' = "IO" /\ phase' = "done"
  /\ UNCHANGED <<programVars, at, offset, row, initial, cfa, ra, slot, regsetVars, cut>>

RestoreMovesPc ==
  /\ phase = "restore" /\ slot < Slots
  /\ regs' = [regs EXCEPT ![slot] = ValueOf(row.rules[slot], slot)]
  /\ slot' = slot + 1
  /\ pc' = ra /\ sp' = cfa
  /\ UNCHANGED <<programVars, phase, at, offset, row, initial, cfa, ra, status, cut>>

Restore ==
  /\ phase = "restore" /\ slot < Slots
  /\ regs' = [regs EXCEPT ![slot] = ValueOf(row.rules[slot], slot)]
  /\ slot' = slot + 1
  /\ UNCHANGED <<programVars, phase, at, offset, row, initial, cfa, ra, sp, pc, status, cut>>

(* pc and sp become the caller's only when everything else is.             *)
Leave ==
  /\ phase = "restore" /\ slot = Slots
  /\ pc' = ra /\ sp' = cfa
  /\ phase' = "done"
  /\ UNCHANGED <<programVars, at, offset, row, initial, cfa, ra, slot, regs, status, cut>>

-----------------------------------------------------------------------------
Next ==
  \/ Advance \/ SetRule \/ SetCfa \/ Nop \/ Truncated \/ Unknown
  \/ CieDone \/ FdeDone
  \/ NoCfa \/ ReturnAddress \/ ReadFails \/ Restore \/ Leave

Spec == Init /\ [][Next]_vars /\ WF_vars(Next)

-----------------------------------------------------------------------------
(* What a program says, instruction by instruction without a machine: each *)
(* column is what the last instruction about it says, among those at or    *)
(* before the pc.                                                          *)

(* The offset reached once the first k instructions of p have run.         *)
OffsetAfter(p) ==
  LET o[k \in 0 .. Len(p)] ==
        IF k = 0 THEN 0
        ELSE IF p[k].op = "advance" THEN o[k - 1] + p[k].n * CodeAlign
        ELSE IF p[k].op = "set_loc" THEN p[k].n - PcBegin
        ELSE o[k - 1]
  IN  o

(* The instructions of the FDE in effect at the target.                    *)
InEffect(p) ==
  {k \in 1 .. Len(p) : \A j \in 1 .. k : PcBegin + OffsetAfter(p)[j] <= target}

LastOf(S, value(_), default) == IF S = {} THEN default ELSE value(Max(S))

ColumnOf(p, K, r, first) ==
  LET says == {k \in K : p[k].op \in {"offset", "restore"} /\ p[k].reg = r}
      rule(k) == IF p[k].op = "offset" THEN Saved(p[k].n * DataAlign) ELSE first
  IN  LastOf(says, rule, first)

CieColumn(r) == ColumnOf(cie, 1 .. Len(cie), r, Same)

Column(r) == ColumnOf(fde, InEffect(fde), r, CieColumn(r))

(* The CFA's register and offset, said by the CIE unless the FDE says more.*)
CfaSays(Names(_), value(_), none) ==
  LET inCie == {k \in 1 .. Len(cie) : Names(cie[k])}
      inFde == {k \in InEffect(fde) : Names(fde[k])}
      cieValue(k) == value(cie[k])
      fdeValue(k) == value(fde[k])
  IN  LastOf(inFde, fdeValue, LastOf(inCie, cieValue, none))

RegisterOf(i) == i.reg

CalleeValue(r) == IF r \in Registers THEN CalleeRegs[r] ELSE 0

RealCfa ==
  Word(CalleeValue(CfaSays(NamesCfaRegister, RegisterOf, NoReg)) +
         CfaSays(NamesCfaOffset, CfaOffsetOf, 0))

CallerValue(r) ==
  IF Column(r).kind = "offset" THEN Memory(Word(RealCfa + Column(r).offset))
  ELSE CalleeRegs[r]

-----------------------------------------------------------------------------
(* Properties *)

Succeeds == phase = "done" /\ status = "OK"

(* What the programs say fits the code's types: the CFA's register is kept *)
(* in 16 bits, a location in a word.                                       *)
Fits ==
  /\ \A p \in {cie, fde} : \A k \in DOMAIN p : NamesCfaRegister(p[k]) => p[k].reg <= NoReg
  /\ \A k \in DOMAIN fde : PcBegin + OffsetAfter(fde)[k] \in Words

(* A step that succeeds has found the caller's frame and registers as the  *)
(* two programs describe them, unless an opcode was unknown (:856-966).    *)
CallerIsRecovered ==
  Succeeds /\ ~cut /\ Fits =>
    /\ sp = RealCfa /\ pc = CallerValue(ReturnReg)
    /\ \A r \in Registers : regs[r] = CallerValue(r)

(* A step that fails leaves the cursor's pc and sp alone, and every        *)
(* register from the one whose read failed on (:911-964).                  *)
FailureKeepsCursor ==
  phase = "done" /\ status # "OK" =>
    /\ pc = target /\ sp = CalleeRegs[SpReg]
    /\ \A r \in Registers : r >= slot => regs[r] = CalleeRegs[r]

=============================================================================
