---------------------------- MODULE CfiEvalProofs ----------------------------
(***************************************************************************)
(* Proofs about CfiEval for every pair of programs, register file and      *)
(* memory.                                                                 *)
(***************************************************************************)
EXTENDS CfiEval, WellFoundedInduction, TLAPS

ProgramsOK ==
  /\ cie \in Seq(Instructions) /\ fde \in Seq(Instructions)
  /\ target \in Words

(* Until the step is over nothing but the slots already restored differs   *)
(* from the callee's registers.                                            *)
CursorKept ==
  /\ phase # "done" => status = "OK"
  /\ phase \in {"cie", "fde", "row"} => slot = 0
  /\ phase # "done" \/ status # "OK" => pc = target /\ sp = CalleeRegs[SpReg]
  /\ \A r \in Registers : r >= slot => regs[r] = CalleeRegs[r]

IInv == TypeOK /\ ProgramsOK /\ CursorKept

-----------------------------------------------------------------------------
(* Lemmas about the operators *)

(* A value cut to the word size is a word.                                 *)
LEMMA WordIsWord == \A n \in Int : Word(n) \in Words
BY SizesAssumption DEF Word, Words

(* A register number cut to the width of cfa_reg is one.                   *)
LEMMA NumberIsCut == \A k \in Nat : k % (NoReg + 1) \in 0 .. NoReg
BY DEF NoReg

(* What is run next is an instruction.                                     *)
LEMMA InstructionIsTyped ==
  ASSUME TypeOK, ProgramsOK, Running
  PROVE  Instruction \in Instructions
BY DEF TypeOK, ProgramsOK, Running, Instruction, Program

(* A rule gives a word, read or kept.                                      *)
LEMMA ValueIsWord ==
  ASSUME TypeOK, NEW r \in Registers
  PROVE  ValueOf(row.rules[r], r) \in Words
<1>1. row.rules[r] \in Rules
  BY DEF TypeOK, Rows
<1>2. row.rules[r].offset \in Words /\ cfa \in Words /\ regs[r] \in Words
  BY <1>1 DEF TypeOK, Rules
<1>3. cfa + row.rules[r].offset \in Int
  BY <1>2 DEF Words
<1>4. Memory(Word(cfa + row.rules[r].offset)) \in Words
  BY <1>3, WordIsWord, MemoryAssumption DEF Words
<1>. QED
  BY <1>2, <1>4 DEF ValueOf

-----------------------------------------------------------------------------
(* The invariant is inductive *)

(* The step begins with the invariant.                                     *)
LEMMA InitIInv == Init => IInv
<1>. SUFFICES ASSUME Init PROVE IInv
  OBVIOUS
<1>1. 0 \in Words /\ 0 \in 0 .. Slots
  BY SizesAssumption DEF Words
<1>2. ResetRow \in Rows
  BY <1>1 DEF ResetRow, Rows, Rules, Same, NoReg
<1>3. SpReg \in Registers /\ CalleeRegs \in [Registers -> Words]
  BY RegsAssumption DEF Registers, Words
<1>4. ProgramsOK
  BY ProgramsAssumption, PcAssumption DEF Init, ProgramsOK, Words
<1>5. regs \in [Registers -> Words] /\ sp \in Words /\ pc \in Words
  BY <1>3, <1>4 DEF Init, ProgramsOK
<1>6. TypeOK
  <2>1. row \in Rows /\ initial \in Rows
    BY <1>2 DEF Init
  <2>2. offset \in Words /\ cfa \in Words /\ ra \in Words /\ slot \in 0 .. Slots
    BY <1>1 DEF Init
  <2>3. phase = "cie" /\ at = 1 /\ status = "OK" /\ cut = FALSE
    BY Zenon DEF Init
  <2>4. phase \in {"cie", "fde", "row", "restore", "done"}
    BY <2>3
  <2>5. at \in Nat \ {0}
    BY <2>3
  <2>6. status \in {"OK", "IO", "BAD_FORMAT", "NOT_IMPLEMENTED"}
    BY <2>3
  <2>. QED
    BY <1>5, <2>1, <2>2, <2>3, <2>4, <2>5, <2>6, Zenon DEF TypeOK
<1>7. CursorKept
  BY DEF Init, CursorKept
<1>. QED
  BY <1>4, <1>6, <1>7 DEF IInv

(* The programs move the row and the cursor into them, nothing else.       *)
LEMMA ExecuteIInv ==
  ASSUME IInv, Advance \/ SetRule \/ SetCfa \/ Nop \/ Truncated \/ Unknown
  PROVE  IInv'
<1>. USE DEF IInv, programVars, regsetVars
<1>1. Running
  BY DEF Advance, SetRule, SetCfa, Nop, Truncated, Unknown, IsAt
<1>2. Instruction \in Instructions /\ Program \in Seq(Instructions)
  BY <1>1, InstructionIsTyped DEF ProgramsOK, Program
<1>3. Instruction.n \in Int /\ Instruction.reg \in Nat
  BY <1>2 DEF Instructions
<1>4. at + 1 \in Nat \ {0} /\ Len(Program) + 1 \in Nat \ {0}
  BY <1>2 DEF TypeOK
<1>5. ProgramsOK' /\ CursorKept'
  BY <1>1 DEF ProgramsOK, CursorKept, Running, Advance, SetRule, SetCfa, Nop, Truncated,
              Unknown
<1>6. CASE Advance
  <2>1. /\ offset + Instruction.n * CodeAlign \in Int
        /\ Instruction.n - PcBegin \in Int
    BY <1>3, AlignAssumption, PcAssumption DEF TypeOK, Words
  <2>2. offset' \in Words
    BY <1>6, <2>1, WordIsWord DEF Advance
  <2>. QED
    BY <1>4, <1>5, <1>6, <2>2 DEF Advance, TypeOK
<1>7. CASE SetRule
  <2>1. Instruction.n * DataAlign \in Int
    BY <1>3, AlignAssumption
  <2>2. Instruction.reg \in Registers => RuleOf(Instruction) \in Rules
    BY <2>1, WordIsWord DEF RuleOf, Saved, Rules, TypeOK, Rows
  <2>3. row' \in Rows
    BY <1>7, <2>2 DEF SetRule, TypeOK, Rows
  <2>. QED
    BY <1>4, <1>5, <1>7, <2>3 DEF SetRule, TypeOK
<1>8. CASE SetCfa
  <2>1. Instruction.n * DataAlign \in Int
    BY <1>3, AlignAssumption
  <2>2. Word(CfaOffsetOf(Instruction)) \in Words
    BY <1>3, <2>1, WordIsWord DEF CfaOffsetOf
  <2>3. Instruction.reg % (NoReg + 1) \in 0 .. NoReg
    BY <1>3, NumberIsCut
  <2>. DEFINE newReg == IF NamesCfaRegister(Instruction)
                        THEN Instruction.reg % (NoReg + 1) ELSE row.reg
              newOffset == IF NamesCfaOffset(Instruction)
                           THEN Word(CfaOffsetOf(Instruction)) ELSE row.offset
  <2>4. row \in Rows /\ newReg \in 0 .. NoReg /\ newOffset \in Words
    BY <2>2, <2>3 DEF TypeOK, Rows
  <2>5. row' = [row EXCEPT !.reg = newReg, !.offset = newOffset]
    BY <1>8 DEF SetCfa
  <2>. HIDE DEF newReg, newOffset
  <2>6. row' \in Rows
    BY <2>4, <2>5 DEF Rows
  <2>. QED
    BY <1>4, <1>5, <1>8, <2>6 DEF SetCfa, TypeOK
<1>9. CASE Nop
  BY <1>4, <1>5, <1>9 DEF Nop, TypeOK
<1>10. CASE Truncated
  BY <1>5, <1>10 DEF Truncated, TypeOK
<1>11. CASE Unknown
  BY <1>4, <1>5, <1>11 DEF Unknown, TypeOK
<1>. QED
  BY <1>6, <1>7, <1>8, <1>9, <1>10, <1>11

(* The evaluation writes the registers one by one, pc and sp at the end.   *)
LEMMA EvaluateIInv ==
  ASSUME IInv,
         CieDone \/ FdeDone \/ NoCfa \/ ReturnAddress \/ ReadFails \/ Restore \/ Leave
  PROVE  IInv'
<1>. USE DEF IInv, programVars, regsetVars
<1>1. ProgramsOK'
  BY DEF ProgramsOK, CieDone, FdeDone, NoCfa, ReturnAddress, ReadFails, Restore, Leave
<1>2. CASE CieDone
  <2>1. 0 \in Words
    BY SizesAssumption DEF Words
  <2>. QED
    BY <1>1, <1>2, <2>1 DEF CieDone, TypeOK, CursorKept
<1>3. CASE FdeDone
  <2>1. RegValue(row.reg) \in Int /\ row.offset \in Int
    BY DEF RegValue, TypeOK, Rows, Words
  <2>2. cfa' \in Words
    BY <1>3, <2>1, WordIsWord DEF FdeDone
  <2>. QED
    BY <1>1, <1>3, <2>2 DEF FdeDone, TypeOK, CursorKept
<1>4. CASE NoCfa
  BY <1>1, <1>4 DEF NoCfa, TypeOK, CursorKept
<1>5. CASE ReturnAddress
  <2>1. ra' \in Words
    BY <1>5, ValueIsWord, RegsAssumption DEF ReturnAddress, Registers
  <2>. QED
    BY <1>1, <1>5, <2>1, SizesAssumption DEF ReturnAddress, TypeOK, CursorKept
<1>6. CASE ReadFails
  BY <1>1, <1>6 DEF ReadFails, TypeOK, CursorKept
<1>7. CASE Restore
  <2>1. slot \in Registers /\ slot + 1 \in 0 .. Slots
    BY <1>7, SizesAssumption DEF Restore, TypeOK, Registers
  <2>2. regs' \in [Registers -> Words]
    BY <1>7, <2>1, ValueIsWord DEF Restore, TypeOK
  <2>3. \A r \in Registers : r >= slot + 1 => regs'[r] = regs[r] /\ r >= slot
    BY <1>7, <2>1, SizesAssumption DEF Restore, TypeOK, Registers
  <2>. QED
    BY <1>1, <1>7, <2>1, <2>2, <2>3 DEF Restore, TypeOK, CursorKept
<1>8. CASE Leave
  BY <1>1, <1>8 DEF Leave, TypeOK, CursorKept
<1>. QED
  BY <1>2, <1>3, <1>4, <1>5, <1>6, <1>7, <1>8

(* Every instruction, read and register keeps the invariant.               *)
LEMMA NextIInv == IInv /\ [Next]_vars => IInv'
<1>. SUFFICES ASSUME IInv, [Next]_vars PROVE IInv'
  OBVIOUS
<1>1. CASE Next
  BY <1>1, ExecuteIInv, EvaluateIInv DEF Next
<1>2. CASE UNCHANGED vars
  BY <1>2 DEF vars, IInv, TypeOK, ProgramsOK, CursorKept
<1>. QED
  BY <1>1, <1>2

(* Every reachable state satisfies the invariant.                          *)
THEOREM AlwaysIInv == Spec => []IInv
BY InitIInv, NextIInv, PTL DEF Spec

-----------------------------------------------------------------------------
(* Induction over a program *)

(* A set of naturals that has an element has a least one.                  *)
LEMMA NatMinimum ==
  ASSUME NEW S \in SUBSET Nat, S # {}
  PROVE  \E m \in S : \A n \in S : m <= n
<1>. DEFINE R == {ss \in Nat \X Nat : ss[1] < ss[2]}
<1>1. IsWellFoundedOn(R, Nat)
  BY NatLessThanWellFounded DEF OpToRel
<1>. HIDE DEF R
<1>2. PICK m \in S : \A n \in S : ~(<<n, m>> \in R)
  BY <1>1, WFMin
<1>3. \A n \in S : n < m => <<n, m>> \in R
  BY DEF R
<1>4. \A n \in S : ~(n < m)
  BY <1>2, <1>3, Zenon
<1>. QED
  BY <1>4

(* A set of naturals that holds the first number of a range and, with a    *)
(* number of it, the next one, holds the range.                            *)
LEMMA RangeInduction ==
  ASSUME NEW n \in Nat, NEW T, 0 \in T,
         \A k \in 0 .. n - 1 : k \in T => k + 1 \in T
  PROVE  0 .. n \subseteq T
<1>. DEFINE S == {k \in 0 .. n : k \notin T}
<1>. SUFFICES ASSUME S # {} PROVE FALSE
  OBVIOUS
<1>1. PICK m \in S : \A k \in S : m <= k
  BY NatMinimum, S \in SUBSET Nat
<1>2. m # 0 /\ m - 1 \in 0 .. n - 1 /\ m - 1 \notin S
  BY <1>1
<1>3. m - 1 \in T
  BY <1>2
<1>4. (m - 1) + 1 \in T
  BY <1>2, <1>3
<1>. QED
  BY <1>1, <1>4

(* The offset behind instruction k, given the one before it.               *)
NextOffset(i, before) ==
  IF i.op = "advance" THEN before + i.n * CodeAlign
  ELSE IF i.op = "set_loc" THEN i.n - PcBegin
  ELSE before

(* A product of integers is one: no prover needs to look inside it.        *)
LEMMA NextOffsetIsInt ==
  ASSUME NEW i \in Instructions, NEW before \in Int
  PROVE  NextOffset(i, before) \in Int
<1>1. i.n * CodeAlign \in Int
  BY AlignAssumption DEF Instructions
<1>. QED
  BY <1>1, PcAssumption DEF NextOffset, Instructions, Words

(* OffsetAfter obeys its recursion: each instruction moves the offset the  *)
(* one before it reached.                                                  *)
LEMMA OffsetsFollow ==
  ASSUME NEW p \in Seq(Instructions)
  PROVE  /\ OffsetAfter(p)[0] = 0
         /\ \A k \in 0 .. Len(p) : OffsetAfter(p)[k] \in Int
         /\ \A k \in 1 .. Len(p) :
              OffsetAfter(p)[k] = NextOffset(p[k], OffsetAfter(p)[k - 1])
<1>. DEFINE n == Len(p)
            F(o) == [k \in 0 .. n |-> IF k = 0 THEN 0 ELSE NextOffset(p[k], o[k - 1])]
            T == {m \in 0 .. n : \E g \in [0 .. m -> Int] :
                    /\ g[0] = 0
                    /\ \A k \in 1 .. m : g[k] = NextOffset(p[k], g[k - 1])}
<1>1. OffsetAfter(p) = CHOOSE o : o = F(o)
  BY Zenon DEF OffsetAfter, NextOffset
<1>2. n \in Nat /\ \A k \in 1 .. n : p[k] \in Instructions
  OBVIOUS
<1>3. n \in T
  <2>1. 0 \in T
    <3>. DEFINE z == [k \in 0 .. 0 |-> 0]
    <3>1. z \in [0 .. 0 -> Int] /\ z[0] = 0
      OBVIOUS
    <3>2. \A k \in 1 .. 0 : z[k] = NextOffset(p[k], z[k - 1])
      OBVIOUS
    <3>3. \E g \in [0 .. 0 -> Int] :
            g[0] = 0 /\ \A k \in 1 .. 0 : g[k] = NextOffset(p[k], g[k - 1])
      <4>. HIDE DEF z
      <4>. QED
        BY <3>1, <3>2, Zenon
    <3>. QED
      BY <1>2, <3>3
  <2>2. ASSUME NEW m \in 0 .. n - 1, m \in T PROVE m + 1 \in T
    <3>1. PICK g \in [0 .. m -> Int] :
            g[0] = 0 /\ \A k \in 1 .. m : g[k] = NextOffset(p[k], g[k - 1])
      BY <2>2
    <3>. DEFINE h == [k \in 0 .. m + 1 |->
                       IF k = m + 1 THEN NextOffset(p[m + 1], g[m]) ELSE g[k]]
    <3>2. NextOffset(p[m + 1], g[m]) \in Int
      <4>1. p[m + 1] \in Instructions /\ g[m] \in Int
        BY <1>2, <3>1
      <4>. QED
        BY <4>1, NextOffsetIsInt
    <3>3. h \in [0 .. m + 1 -> Int] /\ h[0] = 0
      <4>1. \A k \in 0 .. m + 1 : k = m + 1 \/ k \in 0 .. m
        BY <1>2
      <4>2. \A k \in 0 .. m + 1 : h[k] \in Int
        BY <3>1, <3>2, <4>1
      <4>. QED
        BY <3>1, <4>2, <1>2
    <3>4. \A k \in 1 .. m + 1 : h[k] = NextOffset(p[k], h[k - 1])
      <4>1. TAKE k \in 1 .. m + 1
      <4>2. CASE k = m + 1
        BY <4>2, <1>2
      <4>3. CASE k \in 1 .. m
        BY <4>3, <3>1, <1>2
      <4>. QED
        BY <4>2, <4>3
    <3>. HIDE DEF h
    <3>5. \E e \in [0 .. m + 1 -> Int] :
            e[0] = 0 /\ \A k \in 1 .. m + 1 : e[k] = NextOffset(p[k], e[k - 1])
      BY <3>3, <3>4, Zenon
    <3>6. m + 1 \in 0 .. n
      BY <1>2
    <3>. QED
      BY <3>5, <3>6, Zenon
  <2>. HIDE DEF T
  <2>3. 0 .. n \subseteq T
    BY <1>2, <2>1, <2>2, RangeInduction
  <2>. QED
    BY <1>2, <2>3
<1>4. PICK g \in [0 .. n -> Int] :
        g[0] = 0 /\ \A k \in 1 .. n : g[k] = NextOffset(p[k], g[k - 1])
  BY <1>3
<1>5. g = F(g)
  BY <1>2, <1>4
<1>6. OffsetAfter(p) = F(OffsetAfter(p))
  <2>. HIDE DEF F
  <2>. QED
    BY <1>1, <1>5, Zenon
<1>. DEFINE o == OffsetAfter(p)
<1>7. /\ o[0] = 0
      /\ \A k \in 1 .. n : o[k] = NextOffset(p[k], o[k - 1])
  <2>. HIDE DEF o
  <2>1. o = F(o)
    BY <1>6, Zenon DEF o
  <2>2. \A k \in 0 .. n : F(o)[k] = IF k = 0 THEN 0 ELSE NextOffset(p[k], o[k - 1])
    OBVIOUS
  <2>. HIDE DEF F
  <2>3. \A k \in 0 .. n : o[k] = IF k = 0 THEN 0 ELSE NextOffset(p[k], o[k - 1])
    BY <2>1, <2>2, Zenon
  <2>. QED
    BY <2>3, <1>2
<1>8. \A k \in 0 .. n : o[k] \in Int
  <2>. HIDE DEF o
  <2>. DEFINE U == {k \in 0 .. n : o[k] \in Int}
  <2>1. ASSUME NEW k \in 0 .. n - 1, o[k] \in Int PROVE o[k + 1] \in Int
    <3>1. k + 1 \in 1 .. n /\ (k + 1) - 1 = k /\ p[k + 1] \in Instructions
      BY <1>2
    <3>2. o[k + 1] = NextOffset(p[k + 1], o[k])
      BY <1>7, <3>1
    <3>. QED
      BY <2>1, <3>1, <3>2, NextOffsetIsInt
  <2>2. 0 \in U /\ \A k \in 0 .. n - 1 : k \in U => k + 1 \in U
    BY <1>7, <1>2, <2>1
  <2>. HIDE DEF U
  <2>3. 0 .. n \subseteq U
    BY <1>2, <2>2, RangeInduction
  <2>. QED
    BY <2>3 DEF U
<1>. QED
  BY <1>7, <1>8

(* A number w * q + r with r below w leaves r.                             *)
LEMMA ModUnique ==
  ASSUME NEW w \in Nat \ {0}, NEW a \in Int, NEW q \in Int, NEW r \in 0 .. w - 1,
         a = w * q + r
  PROVE  a % w = r
<1>1. /\ a \div w \in Int /\ a % w \in 0 .. w - 1
      /\ a = w * (a \div w) + (a % w)
  OBVIOUS
<1>. DEFINE d == (a \div w) - q
<1>2. w * d = r - (a % w)
  BY <1>1
<1>3. d \in Int /\ r - (a % w) < w /\ r - (a % w) > -w
  BY <1>1
<1>. HIDE DEF d
<1>4. ~(d >= 1) 
  BY <1>2, <1>3
<1>5. ~(d <= -1)
  BY <1>2, <1>3
<1>6. d = 0
  BY <1>3, <1>4, <1>5
<1>. QED
  BY <1>1, <1>2, <1>6

(* Cutting a summand to a word first does not change the word of the sum.  *)
LEMMA WordAdds ==
  ASSUME NEW a \in Int, NEW b \in Int
  PROVE  Word(a + Word(b)) = Word(a + b)
<1>. DEFINE w == WordSize
            c == a + (b % w)
<1>1. w \in Nat \ {0}
  BY SizesAssumption
<1>. HIDE DEF w
<1>2. /\ b \div w \in Int /\ b % w \in 0 .. w - 1
      /\ b = w * (b \div w) + (b % w)
  BY <1>1
<1>3. /\ c \div w \in Int /\ c % w \in 0 .. w - 1
      /\ c = w * (c \div w) + (c % w)
  BY <1>1, <1>2
<1>4. a + b = w * ((b \div w) + (c \div w)) + (c % w)
  BY <1>1, <1>2, <1>3
<1>5. (a + b) % w = c % w
  <2>. DEFINE q == (b \div w) + (c \div w)
  <2>1. a + b \in Int /\ q \in Int
    BY <1>2, <1>3
  <2>. HIDE DEF q, c
  <2>2. a + b = w * q + (c % w)
    BY <1>4 DEF q
  <2>. QED
    BY <1>1, <1>3, <2>1, <2>2, ModUnique
<1>. QED
  BY <1>5 DEF Word, w

(* A word is its own word.                                                 *)
LEMMA WordKeeps == \A n \in Words : Word(n) = n
BY SizesAssumption DEF Word, Words
-----------------------------------------------------------------------------
(* What a program says, one more instruction at a time *)

(* The last instruction at one of the places K that says something.        *)
LEMMA GreatestIsMax ==
  ASSUME NEW S \in SUBSET Nat, NEW m \in S, \A k \in S : k <= m
  PROVE  Max(S) = m
<1>1. m \in S /\ \A k \in S : m >= k
  OBVIOUS
<1>2. \A x \in S : (\A k \in S : x >= k) => x = m
  OBVIOUS
<1>. QED
  BY <1>1, <1>2 DEF Max

CfaRegisterSaid(p, K, none) ==
  LastOf({k \in K : NamesCfaRegister(p[k])}, LAMBDA k : p[k].reg, none)

CfaOffsetSaid(p, K, none) ==
  LastOf({k \in K : NamesCfaOffset(p[k])}, LAMBDA k : CfaOffsetOf(p[k]), none)

SetsRule(i) == i.op \in {"offset", "restore"}

RuleSaid(i, first) == IF i.op = "offset" THEN Saved(i.n * DataAlign) ELSE first

(* One more place behind the others has the last word, if it says anything.*)
LEMMA ColumnGrows ==
  ASSUME NEW p, NEW K \in SUBSET Nat, NEW n \in Nat, \A k \in K : k < n,
         NEW x, NEW first
  PROVE  ColumnOf(p, K \cup {n}, x, first) =
           IF SetsRule(p[n]) /\ p[n].reg = x
           THEN RuleSaid(p[n], first) ELSE ColumnOf(p, K, x, first)
<1>. DEFINE says(J) == {k \in J : p[k].op \in {"offset", "restore"} /\ p[k].reg = x}
<1>1. CASE SetsRule(p[n]) /\ p[n].reg = x
  <2>1. says(K \cup {n}) = says(K) \cup {n} /\ says(K) \subseteq K
    BY <1>1 DEF SetsRule
  <2>2. Max(says(K \cup {n})) = n /\ says(K \cup {n}) # {}
    BY <2>1, GreatestIsMax
  <2>. QED
    BY <1>1, <2>2 DEF ColumnOf, LastOf, RuleSaid
<1>2. CASE ~(SetsRule(p[n]) /\ p[n].reg = x)
  <2>1. says(K \cup {n}) = says(K)
    BY <1>2 DEF SetsRule
  <2>. QED
    BY <1>2, <2>1 DEF ColumnOf
<1>. QED
  BY <1>1, <1>2

(* One instruction more changes the CFA's register only by naming one.     *)
LEMMA CfaRegisterGrows ==
  ASSUME NEW p, NEW K \in SUBSET Nat, NEW n \in Nat, \A k \in K : k < n, NEW none
  PROVE  CfaRegisterSaid(p, K \cup {n}, none) =
           IF NamesCfaRegister(p[n]) THEN p[n].reg ELSE CfaRegisterSaid(p, K, none)
<1>. DEFINE says(J) == {k \in J : NamesCfaRegister(p[k])}
<1>1. CASE NamesCfaRegister(p[n])
  <2>1. says(K \cup {n}) = says(K) \cup {n} /\ says(K) \subseteq K
    BY <1>1
  <2>2. Max(says(K \cup {n})) = n /\ says(K \cup {n}) # {}
    BY <2>1, GreatestIsMax
  <2>. QED
    BY <1>1, <2>2 DEF CfaRegisterSaid, LastOf
<1>2. CASE ~NamesCfaRegister(p[n])
  <2>1. says(K \cup {n}) = says(K)
    BY <1>2
  <2>. QED
    BY <1>2, <2>1 DEF CfaRegisterSaid
<1>. QED
  BY <1>1, <1>2

(* One instruction more changes the CFA's offset only by naming one.       *)
LEMMA CfaOffsetGrows ==
  ASSUME NEW p, NEW K \in SUBSET Nat, NEW n \in Nat, \A k \in K : k < n, NEW none
  PROVE  CfaOffsetSaid(p, K \cup {n}, none) =
           IF NamesCfaOffset(p[n]) THEN CfaOffsetOf(p[n]) ELSE CfaOffsetSaid(p, K, none)
<1>. DEFINE says(J) == {k \in J : NamesCfaOffset(p[k])}
<1>1. CASE NamesCfaOffset(p[n])
  <2>1. says(K \cup {n}) = says(K) \cup {n} /\ says(K) \subseteq K
    BY <1>1
  <2>2. Max(says(K \cup {n})) = n /\ says(K \cup {n}) # {}
    BY <2>1, GreatestIsMax
  <2>. QED
    BY <1>1, <2>2 DEF CfaOffsetSaid, LastOf
<1>2. CASE ~NamesCfaOffset(p[n])
  <2>1. says(K \cup {n}) = says(K)
    BY <1>2
  <2>. QED
    BY <1>2, <2>1 DEF CfaOffsetSaid
<1>. QED
  BY <1>1, <1>2

(* Nothing is said by no instruction.                                      *)
LEMMA NothingSaid ==
  ASSUME NEW p, NEW x, NEW first
  PROVE  /\ ColumnOf(p, {}, x, first) = first
         /\ CfaRegisterSaid(p, {}, first) = first
         /\ CfaOffsetSaid(p, {}, first) = first
BY DEF ColumnOf, CfaRegisterSaid, CfaOffsetSaid, LastOf

(* A row holds what the instructions of p at the places K say, and what it *)
(* starts from where they say nothing.                                     *)
RowSays(r, p, K, rules, reg, off) ==
  /\ \A x \in Registers : r.rules[x] = ColumnOf(p, K, x, rules[x])
  /\ r.reg = CfaRegisterSaid(p, K, reg)
  /\ CfaOffsetSaid(p, K, off) \in Int
  /\ r.offset = Word(CfaOffsetSaid(p, K, off))

CieRules == [x \in Registers |-> Same]

CieRowSays(r, K) == RowSays(r, cie, K, CieRules, NoReg, 0)

WholeCie == 1 .. Len(cie)

FdeRules == [x \in Registers |-> CieColumn(x)]

FdeRowSays(r, K) ==
  RowSays(r, fde, K, FdeRules, CfaRegisterSaid(cie, WholeCie, NoReg),
          CfaOffsetSaid(cie, WholeCie, 0))

(* While a program runs, the row is what the instructions behind it say,   *)
(* and no instruction that is not in effect has been run; once the FDE's   *)
(* program is over, the row is what the instructions in effect say.        *)
CieIsRead ==
  phase = "cie" =>
    at <= Len(cie) + 1 /\ initial.rules = CieRules /\ CieRowSays(row, 1 .. at - 1)

FdeIsRead ==
  phase = "fde" =>
    /\ at <= Len(fde) + 1
    /\ CieRowSays(initial, WholeCie)
    /\ FdeRowSays(row, InEffect(fde) \cap (1 .. at - 1))
    /\ at <= Len(fde) =>
         1 .. at - 1 \subseteq InEffect(fde) /\ offset = Word(OffsetAfter(fde)[at - 1])

FrameIsFound ==
  phase \in {"row", "restore"} =>
    /\ FdeRowSays(row, InEffect(fde))
    /\ cfa = RealCfa
    /\ phase = "restore" =>
         /\ ra = CallerValue(ReturnReg)
         /\ \A r \in Registers : r < slot => regs[r] = CallerValue(r)

Reads == ~cut /\ Fits => CieIsRead /\ FdeIsRead /\ FrameIsFound

(* The row an instruction makes of another, rules being what it restores.  *)
Makes(r2, i, r, rules) ==
  /\ \A x \in Registers :
       r2.rules[x] = IF SetsRule(i) /\ i.reg = x THEN RuleSaid(i, rules[x]) ELSE r.rules[x]
  /\ r2.reg = IF NamesCfaRegister(i) THEN i.reg ELSE r.reg
  /\ r2.offset = IF NamesCfaOffset(i) THEN Word(CfaOffsetOf(i)) ELSE r.offset

(* A row that says what the instructions at K say, and one instruction     *)
(* more, gives the row that says what all of them say.                     *)
LEMMA RowGrows ==
  ASSUME NEW p, NEW K \in SUBSET Nat, NEW n \in Nat, \A k \in K : k < n,
         NEW rules, NEW reg, NEW off, NEW r, NEW r2,
         RowSays(r, p, K, rules, reg, off), Makes(r2, p[n], r, rules),
         CfaOffsetOf(p[n]) \in Int
  PROVE  RowSays(r2, p, K \cup {n}, rules, reg, off)
<1>1. ASSUME NEW x \in Registers
      PROVE  r2.rules[x] = ColumnOf(p, K \cup {n}, x, rules[x])
  BY ColumnGrows DEF RowSays, Makes
<1>2. r2.reg = CfaRegisterSaid(p, K \cup {n}, reg)
  BY CfaRegisterGrows DEF RowSays, Makes
<1>3. /\ CfaOffsetSaid(p, K \cup {n}, off) \in Int
      /\ r2.offset = Word(CfaOffsetSaid(p, K \cup {n}, off))
  BY CfaOffsetGrows DEF RowSays, Makes
<1>. QED
  BY <1>1, <1>2, <1>3 DEF RowSays

Steps == Advance \/ SetRule \/ SetCfa \/ Nop

(* What one step of execute_cfi does to the row.                           *)
LEMMA StepMakes ==
  ASSUME IInv, Fits, Steps
  PROVE  /\ Makes(row', Instruction, row, initial.rules)
         /\ CfaOffsetOf(Instruction) \in Int
<1>. USE DEF IInv
<1>1. Running /\ Instruction \in Instructions
  BY InstructionIsTyped DEF Steps, Advance, SetRule, SetCfa, Nop, IsAt
<1>2. Instruction.n * DataAlign \in Int /\ Instruction.reg \in Nat
  BY <1>1, AlignAssumption DEF Instructions
<1>3. CfaOffsetOf(Instruction) \in Int
  BY <1>1, <1>2 DEF CfaOffsetOf, Instructions
<1>4. row \in Rows
  BY DEF TypeOK
<1>5. CASE Advance \/ Nop
  BY <1>3, <1>5 DEF Advance, Nop, IsAt, Makes, SetsRule, NamesCfaRegister, NamesCfaOffset
<1>6. CASE SetRule
  <2>1. /\ ~NamesCfaRegister(Instruction) /\ ~NamesCfaOffset(Instruction)
        /\ SetsRule(Instruction)
    BY <1>6 DEF SetRule, IsAt, SetsRule, NamesCfaRegister, NamesCfaOffset
  <2>2. Instruction.reg \in Registers =>
          RuleOf(Instruction) = RuleSaid(Instruction, initial.rules[Instruction.reg])
    BY DEF RuleOf, RuleSaid
  <2>3. \A x \in Registers : row'.rules[x] =
          IF Instruction.reg = x THEN RuleSaid(Instruction, initial.rules[x]) ELSE row.rules[x]
    BY <1>4, <1>6, <2>2 DEF SetRule, Rows
  <2>4. row'.reg = row.reg /\ row'.offset = row.offset
    BY <1>4, <1>6 DEF SetRule, Rows
  <2>. QED
    BY <1>3, <2>1, <2>3, <2>4 DEF Makes
<1>7. CASE SetCfa
  <2>1. ~SetsRule(Instruction)
    BY <1>7 DEF SetCfa, SetsRule, NamesCfaRegister, NamesCfaOffset
  <2>2. NamesCfaRegister(Instruction) => Instruction.reg % (NoReg + 1) = Instruction.reg
    <3>1. Program \in {cie, fde} /\ at \in DOMAIN Program /\ Instruction = Program[at]
      BY <1>1 DEF Program, Instruction, Running, TypeOK, ProgramsOK
    <3>2. NamesCfaRegister(Instruction) => Instruction.reg <= NoReg
      BY <3>1, Zenon DEF Fits
    <3>. QED
      BY <1>2, <3>2 DEF NoReg
  <2>3. /\ row'.rules = row.rules
        /\ row'.reg = IF NamesCfaRegister(Instruction)
                      THEN Instruction.reg % (NoReg + 1) ELSE row.reg
        /\ row'.offset = IF NamesCfaOffset(Instruction)
                         THEN Word(CfaOffsetOf(Instruction)) ELSE row.offset
    BY <1>4, <1>7 DEF SetCfa, Rows
  <2>. QED
    BY <1>3, <2>1, <2>2, <2>3 DEF Makes
<1>. QED
  BY <1>5, <1>6, <1>7 DEF Steps

-----------------------------------------------------------------------------
(* How far the FDE's program is in effect *)

(* As long as everything behind it is in effect, the next instruction is,  *)
(* unless it moves the location past the target.                           *)
LEMMA NextInEffect ==
  ASSUME ProgramsOK, PcBegin <= target, at \in 1 .. Len(fde),
         1 .. at - 1 \subseteq InEffect(fde)
  PROVE  LET o == OffsetAfter(fde) IN
         /\ o[at - 1] \in Int /\ o[at] \in Int
         /\ o[at] = NextOffset(fde[at], o[at - 1])
         /\ PcBegin + o[at - 1] <= target
         /\ at \in InEffect(fde) <=> PcBegin + o[at] <= target
         /\ at \in InEffect(fde) =>
              /\ 1 .. at \subseteq InEffect(fde)
              /\ InEffect(fde) \cap (1 .. at) = (InEffect(fde) \cap (1 .. at - 1)) \cup {at}
         /\ at \notin InEffect(fde) =>
              InEffect(fde) \cap (1 .. Len(fde)) = InEffect(fde) \cap (1 .. at - 1)
<1>. DEFINE o == OffsetAfter(fde)
<1>1. /\ o[0] = 0
      /\ \A k \in 0 .. Len(fde) : o[k] \in Int
      /\ \A k \in 1 .. Len(fde) : o[k] = NextOffset(fde[k], o[k - 1])
  BY OffsetsFollow DEF ProgramsOK
<1>2. InEffect(fde) = {k \in 1 .. Len(fde) : \A j \in 1 .. k : PcBegin + o[j] <= target}
  BY DEF InEffect
<1>. HIDE DEF o
<1>3. Len(fde) \in Nat /\ PcBegin \in Int /\ target \in Int
  BY PcAssumption DEF ProgramsOK, Words
<1>4. PcBegin + o[at - 1] <= target
  <2>1. CASE at = 1
    BY <1>1, <1>3, <2>1
  <2>2. CASE at # 1
    <3>1. at - 1 \in InEffect(fde) /\ at - 1 \in 1 .. at - 1
      BY <2>2
    <3>. QED
      BY <1>2, <3>1
  <2>. QED
    BY <2>1, <2>2
<1>5. at \in InEffect(fde) <=> PcBegin + o[at] <= target
  <2>1. at \in InEffect(fde) => PcBegin + o[at] <= target
    BY <1>2
  <2>2. ASSUME PcBegin + o[at] <= target PROVE at \in InEffect(fde)
    <3>1. ASSUME NEW j \in 1 .. at PROVE PcBegin + o[j] <= target
      <4>1. CASE j = at
        BY <2>2, <4>1
      <4>2. CASE j # at
        <5>1. j \in 1 .. at - 1
          BY <4>2
        <5>2. j \in InEffect(fde) /\ j \in 1 .. j
          BY <5>1
        <5>. QED
          BY <1>2, <5>2
      <4>. QED
        BY <4>1, <4>2
    <3>. QED
      BY <1>2, <3>1
  <2>. QED
    BY <2>1, <2>2
<1>6. \A k \in InEffect(fde) : k \in 1 .. Len(fde) /\ (k >= at => at \in InEffect(fde))
  <2>1. ASSUME NEW k \in InEffect(fde), k >= at PROVE at \in InEffect(fde)
    <3>1. at \in 1 .. k
      BY <1>2, <2>1
    <3>. QED
      BY <1>2, <1>5, <3>1
  <2>. QED
    BY <1>2, <2>1
<1>7. at \in InEffect(fde) =>
        /\ 1 .. at \subseteq InEffect(fde)
        /\ InEffect(fde) \cap (1 .. at) = (InEffect(fde) \cap (1 .. at - 1)) \cup {at}
  <2>1. \A k \in 1 .. at : k = at \/ k \in 1 .. at - 1
    OBVIOUS
  <2>2. 1 .. at - 1 \subseteq 1 .. at /\ at \in 1 .. at
    OBVIOUS
  <2>. QED
    BY <2>1, <2>2
<1>8. at \notin InEffect(fde) =>
        InEffect(fde) \cap (1 .. Len(fde)) = InEffect(fde) \cap (1 .. at - 1)
  BY <1>3, <1>6
<1>9. o[at - 1] \in Int /\ o[at] \in Int /\ o[at] = NextOffset(fde[at], o[at - 1])
  BY <1>1, <1>3
<1>. QED
  BY <1>4, <1>5, <1>7, <1>8, <1>9 DEF o

-----------------------------------------------------------------------------
(* The row, and the frame made of it, are what the programs say *)

(* What the programs say does not change while they are run.               *)
LEMMA ProgramsStay ==
  ASSUME UNCHANGED programVars
  PROVE  /\ Fits' <=> Fits
         /\ cie' = cie /\ fde' = fde
         /\ InEffect(fde)' = InEffect(fde)
         /\ WholeCie' = WholeCie /\ FdeRules' = FdeRules
         /\ RealCfa' = RealCfa
         /\ \A r \in Registers : CallerValue(r)' = CallerValue(r)
<1>. USE DEF programVars
<1>1. InEffect(fde)' = InEffect(fde)
  BY DEF InEffect
<1>2. WholeCie' = WholeCie /\ FdeRules' = FdeRules
  BY DEF WholeCie, FdeRules, CieColumn
<1>3. RealCfa' = RealCfa
  <2>1. CfaSays(NamesCfaRegister, RegisterOf, NoReg)' = CfaSays(NamesCfaRegister, RegisterOf, NoReg)
    BY <1>1 DEF CfaSays, LastOf, NamesCfaRegister, RegisterOf
  <2>2. CfaSays(NamesCfaOffset, CfaOffsetOf, 0)' = CfaSays(NamesCfaOffset, CfaOffsetOf, 0)
    BY <1>1 DEF CfaSays, LastOf, NamesCfaOffset, CfaOffsetOf
  <2>. QED
    BY <2>1, <2>2 DEF RealCfa
<1>4. \A r \in Registers : CallerValue(r)' = CallerValue(r)
  BY <1>1, <1>3 DEF CallerValue, Column, CieColumn
<1>5. Fits' <=> Fits
  BY DEF Fits
<1>. QED
  BY <1>1, <1>2, <1>3, <1>4, <1>5

(* The CFA and the caller's registers, in terms of the row that says what  *)
(* the instructions in effect say.                                         *)
LEMMA RowGivesFrame ==
  ASSUME FdeRowSays(row, InEffect(fde))
  PROVE  /\ RealCfa = Word(CalleeValue(row.reg)
                             + CfaOffsetSaid(fde, InEffect(fde), CfaOffsetSaid(cie, WholeCie, 0)))
         /\ CfaOffsetSaid(fde, InEffect(fde), CfaOffsetSaid(cie, WholeCie, 0)) \in Int
         /\ row.offset =
              Word(CfaOffsetSaid(fde, InEffect(fde), CfaOffsetSaid(cie, WholeCie, 0)))
         /\ \A r \in Registers : row.rules[r] = Column(r)
<1>1. CfaSays(NamesCfaRegister, RegisterOf, NoReg) =
        CfaRegisterSaid(fde, InEffect(fde), CfaRegisterSaid(cie, WholeCie, NoReg))
  BY DEF CfaSays, CfaRegisterSaid, RegisterOf, WholeCie
<1>2. CfaSays(NamesCfaOffset, CfaOffsetOf, 0) =
        CfaOffsetSaid(fde, InEffect(fde), CfaOffsetSaid(cie, WholeCie, 0))
  BY DEF CfaSays, CfaOffsetSaid, WholeCie
<1>3. \A r \in Registers : row.rules[r] = Column(r)
  BY DEF FdeRowSays, RowSays, FdeRules, Column
<1>. QED
  BY <1>1, <1>2, <1>3 DEF FdeRowSays, RowSays, RealCfa

(* Nothing has been read yet.                                              *)
LEMMA InitReads == Init => Reads
<1>. SUFFICES ASSUME Init PROVE Reads
  OBVIOUS
<1>1. ResetRow.rules = CieRules /\ ResetRow.reg = NoReg /\ ResetRow.offset = 0
  BY DEF ResetRow, CieRules
<1>2. Word(0) = 0
  BY WordKeeps, SizesAssumption DEF Words
<1>3. 1 .. at - 1 = {} /\ phase = "cie" /\ row = ResetRow /\ initial = ResetRow
  BY DEF Init
<1>4. CieRowSays(row, {})
  <2>1. \A x \in Registers : row.rules[x] = ColumnOf(cie, {}, x, CieRules[x])
    BY <1>1, <1>3, NothingSaid
  <2>2. row.reg = CfaRegisterSaid(cie, {}, NoReg)
    BY <1>1, <1>3, NothingSaid
  <2>3. CfaOffsetSaid(cie, {}, 0) = 0
    BY NothingSaid
  <2>. QED
    BY <1>1, <1>2, <1>3, <2>1, <2>2, <2>3 DEF CieRowSays, RowSays
<1>5. at <= Len(cie) + 1
  BY ProgramsAssumption DEF Init
<1>. QED
  BY <1>1, <1>3, <1>4, <1>5 DEF Reads, CieIsRead, FdeIsRead, FrameIsFound

(* The CIE's program says one instruction more.                            *)
LEMMA CieStep ==
  ASSUME IInv, CieIsRead, Fits, phase = "cie", Steps
  PROVE  CieIsRead'
<1>. USE DEF IInv
<1>1. /\ Running /\ phase' = "cie" /\ UNCHANGED <<programVars, initial>>
      /\ Program = cie /\ Instruction = cie[at]
  BY DEF Steps, Advance, SetRule, SetCfa, Nop, IsAt, Running, Program, Instruction
<1>2. at' = at + 1 /\ at \in 1 .. Len(cie)
  BY <1>1 DEF Steps, Advance, SetRule, SetCfa, Nop, PassesTarget, Running, TypeOK, ProgramsOK
<1>3. Makes(row', cie[at], row, CieRules) /\ CfaOffsetOf(cie[at]) \in Int
  BY <1>1, StepMakes DEF CieIsRead
<1>4. 1 .. at' - 1 = (1 .. at - 1) \cup {at}
  BY <1>2
<1>5. 1 .. at - 1 \in SUBSET Nat /\ at \in Nat /\ \A k \in 1 .. at - 1 : k < at
  BY <1>2
<1>6. RowSays(row', cie, (1 .. at - 1) \cup {at}, CieRules, NoReg, 0)
  BY <1>3, <1>5, RowGrows DEF CieIsRead, CieRowSays
<1>7. cie' = cie /\ initial' = initial
  BY <1>1 DEF programVars
<1>8. CieRowSays(row, 1 .. at - 1)'
  BY <1>4, <1>6, <1>7 DEF CieRowSays
<1>9. at' <= Len(cie') + 1
  BY <1>2, <1>7 DEF ProgramsOK
<1>. QED
  BY <1>7, <1>8, <1>9 DEF CieIsRead

(* The FDE's program says one instruction more, or has passed the target.  *)
LEMMA FdeStep ==
  ASSUME IInv, PcBegin <= target, FdeIsRead, Fits, phase = "fde", Steps
  PROVE  FdeIsRead'
<1>. USE DEF IInv
<1>. DEFINE o == OffsetAfter(fde)
            K == InEffect(fde) \cap (1 .. at - 1)
<1>1. /\ Running /\ phase' = "fde" /\ UNCHANGED <<programVars, initial>>
      /\ Program = fde /\ Instruction = fde[at]
  BY DEF Steps, Advance, SetRule, SetCfa, Nop, IsAt, Running, Program, Instruction
<1>2. at \in 1 .. Len(fde) /\ Len(fde) \in Nat /\ fde[at] \in Instructions
  BY <1>1, InstructionIsTyped DEF Running, TypeOK, ProgramsOK
<1>3. 1 .. at - 1 \subseteq InEffect(fde) /\ offset = Word(o[at - 1])
  BY <1>2 DEF FdeIsRead
<1>4. /\ o[at - 1] \in Int /\ o[at] \in Int
      /\ o[at] = NextOffset(fde[at], o[at - 1])
      /\ PcBegin + o[at - 1] <= target
      /\ at \in InEffect(fde) <=> PcBegin + o[at] <= target
      /\ at \in InEffect(fde) =>
           /\ 1 .. at \subseteq InEffect(fde)
           /\ InEffect(fde) \cap (1 .. at) = K \cup {at}
      /\ at \notin InEffect(fde) => InEffect(fde) \cap (1 .. Len(fde)) = K
  BY <1>2, <1>3, NextInEffect
<1>5. /\ cie' = cie /\ fde' = fde /\ initial' = initial /\ target' = target
      /\ InEffect(fde)' = InEffect(fde) /\ WholeCie' = WholeCie /\ FdeRules' = FdeRules
  BY <1>1, ProgramsStay DEF programVars
<1>6. CieRowSays(initial, WholeCie)'
  BY <1>5 DEF FdeIsRead, CieRowSays
<1>7. FdeRowSays(row, K)
  BY DEF FdeIsRead
<1>8. \A x \in Registers : initial.rules[x] = FdeRules[x]
  BY DEF FdeIsRead, CieRowSays, RowSays, FdeRules, CieColumn, CieRules, WholeCie
<1>9. Makes(row', fde[at], row, FdeRules) /\ CfaOffsetOf(fde[at]) \in Int
  <2>1. Makes(row', fde[at], row, initial.rules) /\ CfaOffsetOf(fde[at]) \in Int
    BY <1>1, StepMakes
  <2>. QED
    BY <1>8, <2>1 DEF Makes
<1>10. K \in SUBSET Nat /\ at \in Nat /\ \A k \in K : k < at
  BY <1>2
<1>. HIDE DEF o, K
<1>11. FdeRowSays(row', K \cup {at})
  BY <1>7, <1>9, <1>10, RowGrows DEF FdeRowSays
<1>12. at \in 1 .. at /\ PcBegin \in Int /\ target \in Int
  BY <1>2, PcAssumption DEF ProgramsOK, Words
(* An instruction that is in effect has been run.                          *)
<1>13. ASSUME at \in InEffect(fde), at' = at + 1, offset' = Word(o[at])
       PROVE  FdeIsRead'
  <2>1. at' - 1 = at /\ at' <= Len(fde) + 1
    BY <1>2, <1>13
  <2>2. InEffect(fde) \cap (1 .. at' - 1) = K \cup {at} /\ 1 .. at' - 1 \subseteq InEffect(fde)
    BY <1>4, <1>13, <2>1 DEF K
  <2>3. FdeRowSays(row, InEffect(fde) \cap (1 .. at - 1))'
    BY <1>5, <1>11, <2>2 DEF FdeRowSays
  <2>. QED
    BY <1>5, <1>6, <1>13, <2>1, <2>2, <2>3 DEF FdeIsRead, o
<1>14. CASE Advance
  <2>1. offset' = Word(o[at])
    <3>1. CASE Instruction.op = "advance"
      <4>1. Instruction.n * CodeAlign \in Int
        BY <1>1, <1>2, AlignAssumption DEF Instructions
      <4>2. offset' = Word(Instruction.n * CodeAlign + Word(o[at - 1]))
        <5>1. offset' = Word(Word(o[at - 1]) + Instruction.n * CodeAlign)
          BY <1>3, <1>14, <3>1 DEF Advance
        <5>2. Word(o[at - 1]) \in Int
          <6>1. Word(o[at - 1]) \in Words
            BY <1>4, WordIsWord
          <6>2. Words \subseteq Int
            BY SizesAssumption DEF Words
          <6>. QED
            BY <6>1, <6>2
        <5>. QED
          BY <4>1, <5>1, <5>2
      <4>3. offset' = Word(Instruction.n * CodeAlign + o[at - 1])
        BY <1>4, <4>1, <4>2, WordAdds
      <4>4. o[at] = Instruction.n * CodeAlign + o[at - 1]
        BY <1>1, <1>4, <3>1, <4>1 DEF NextOffset
      <4>. QED
        BY <4>3, <4>4
    <3>2. CASE Instruction.op # "advance"
      <4>1. Instruction.op = "set_loc"
        BY <1>14, <3>2 DEF Advance, IsAt
      <4>. QED
        BY <1>1, <1>4, <1>14, <4>1 DEF Advance, NextOffset
    <3>. QED
      BY <3>1, <3>2
  <2>2. PassesTarget(offset') <=> PcBegin + o[at] > target
    <3>1. PcBegin + o[at] \in Words
      BY <1>2 DEF Fits, o
    <3>2. Word(PcBegin + Word(o[at])) = PcBegin + o[at]
      BY <1>4, <1>12, <3>1, WordAdds, WordKeeps
    <3>. QED
      BY <2>1, <3>2 DEF PassesTarget
  <2>3. CASE at \in InEffect(fde)
    <3>1. at' = at + 1
      BY <1>4, <1>12, <1>14, <2>2, <2>3 DEF Advance
    <3>. QED
      BY <1>13, <2>1, <2>3, <3>1
  <2>4. CASE at \notin InEffect(fde)
    <3>1. at' = Len(fde) + 1
      BY <1>1, <1>4, <1>12, <1>14, <2>2, <2>4 DEF Advance
    <3>2. InEffect(fde) \cap (1 .. at' - 1) = K /\ row' = row
      BY <1>2, <1>4, <1>14, <2>4, <3>1 DEF Advance
    <3>3. FdeRowSays(row, InEffect(fde) \cap (1 .. at - 1))'
      BY <1>5, <1>7, <3>2 DEF FdeRowSays
    <3>4. at' <= Len(fde') + 1 /\ ~(at' <= Len(fde'))
      BY <1>2, <1>5, <3>1
    <3>. QED
      BY <1>6, <3>3, <3>4 DEF FdeIsRead
  <2>. QED
    BY <2>3, <2>4
<1>15. CASE ~Advance
  <2>1. Instruction.op \notin {"advance", "set_loc"}
    BY <1>15 DEF Steps, SetRule, SetCfa, Nop, IsAt, NamesCfaRegister, NamesCfaOffset
  <2>2. o[at] = o[at - 1]
    BY <1>1, <1>4, <2>1 DEF NextOffset
  <2>3. at' = at + 1 /\ offset' = offset
    BY <1>15 DEF Steps, SetRule, SetCfa, Nop
  <2>. QED
    BY <1>3, <1>4, <1>13, <2>2, <2>3
<1>. QED
  BY <1>14, <1>15

(* The FDE's program starts from the row the CIE's left.                   *)
LEMMA CieDoneReads ==
  ASSUME IInv, CieIsRead, CieDone
  PROVE  FdeIsRead'
<1>. USE DEF IInv
<1>1. at = Len(cie) + 1
  BY DEF CieDone, CieIsRead, Running, Program, TypeOK, ProgramsOK
<1>2. CieRowSays(row, WholeCie)
  <2>1. 1 .. at - 1 = WholeCie
    BY <1>1 DEF WholeCie, ProgramsOK
  <2>. QED
    BY <2>1 DEF CieDone, CieIsRead
<1>3. /\ UNCHANGED programVars /\ initial' = row /\ row' = row
      /\ phase' = "fde" /\ at' = 1 /\ offset' = 0
  BY DEF CieDone
<1>4. CieRowSays(initial, WholeCie)'
  BY <1>2, <1>3, ProgramsStay DEF CieRowSays
<1>5. \A x \in Registers : row.rules[x] = FdeRules[x]
  BY <1>2 DEF CieRowSays, RowSays, FdeRules, CieColumn, CieRules, WholeCie
<1>6. FdeRowSays(row, {})
  <2>1. \A x \in Registers : row.rules[x] = ColumnOf(fde, {}, x, FdeRules[x])
    BY <1>5, NothingSaid
  <2>2. row.reg = CfaRegisterSaid(fde, {}, CfaRegisterSaid(cie, WholeCie, NoReg))
    BY <1>2, NothingSaid DEF CieRowSays, RowSays
  <2>3. CfaOffsetSaid(fde, {}, CfaOffsetSaid(cie, WholeCie, 0)) = CfaOffsetSaid(cie, WholeCie, 0)
    BY NothingSaid
  <2>4. /\ CfaOffsetSaid(cie, WholeCie, 0) \in Int
        /\ row.offset = Word(CfaOffsetSaid(cie, WholeCie, 0))
    BY <1>2 DEF CieRowSays, RowSays
  <2>. QED
    BY <2>1, <2>2, <2>3, <2>4 DEF FdeRowSays, RowSays
<1>7. InEffect(fde) \cap (1 .. at' - 1) = {}
  BY <1>3
<1>8. FdeRowSays(row, InEffect(fde) \cap (1 .. at - 1))'
  BY <1>3, <1>6, <1>7, ProgramsStay DEF FdeRowSays
<1>9. offset' = Word(OffsetAfter(fde')[at' - 1]) /\ 1 .. at' - 1 \subseteq InEffect(fde)'
  <2>1. OffsetAfter(fde)[0] = 0
    BY OffsetsFollow DEF ProgramsOK
  <2>2. Word(0) = 0
    BY WordKeeps, SizesAssumption DEF Words
  <2>. QED
    BY <1>3, <2>1, <2>2, ProgramsStay
<1>10. at' <= Len(fde') + 1
  BY <1>3, ProgramsStay DEF ProgramsOK
<1>. QED
  BY <1>4, <1>8, <1>9, <1>10 DEF FdeIsRead

(* The row gives the CFA, the return address and the registers.            *)
LEMMA FrameStep ==
  ASSUME IInv, FdeIsRead, FrameIsFound, FdeDone \/ ReturnAddress \/ Restore
  PROVE  FrameIsFound'
<1>. USE DEF IInv
<1>1. UNCHANGED <<programVars, row>>
  BY DEF FdeDone, ReturnAddress, Restore
<1>2. /\ InEffect(fde)' = InEffect(fde) /\ RealCfa' = RealCfa
      /\ \A r \in Registers : CallerValue(r)' = CallerValue(r)
      /\ \A K : FdeRowSays(row, K)' <=> FdeRowSays(row, K)
  BY <1>1, ProgramsStay DEF FdeRowSays
<1>3. CASE FdeDone
  <2>1. at = Len(fde) + 1
    BY <1>3 DEF FdeDone, FdeIsRead, Running, Program, TypeOK, ProgramsOK
  <2>2. InEffect(fde) \cap (1 .. at - 1) = InEffect(fde)
    BY <2>1 DEF InEffect, ProgramsOK
  <2>3. FdeRowSays(row, InEffect(fde))
    BY <1>3, <2>2 DEF FdeDone, FdeIsRead
  <2>4. RegValue(row.reg) = CalleeValue(row.reg)
    BY <1>3, SizesAssumption DEF FdeDone, CursorKept, RegValue, CalleeValue, Registers
  <2>5. CalleeValue(row.reg) \in Int
    BY RegsAssumption DEF CalleeValue, Registers
  <2>6. cfa' = RealCfa
    BY <1>3, <2>3, <2>4, <2>5, RowGivesFrame, WordAdds DEF FdeDone
  <2>. QED
    BY <1>2, <1>3, <2>3, <2>6 DEF FdeDone, FrameIsFound
<1>4. ASSUME NEW r \in Registers, phase \in {"row", "restore"}, r >= slot
      PROVE  ValueOf(row.rules[r], r) = CallerValue(r)
  <2>1. row.rules[r] = Column(r) /\ cfa = RealCfa
    BY <1>4, RowGivesFrame DEF FrameIsFound
  <2>2. regs[r] = CalleeRegs[r]
    BY <1>4 DEF CursorKept
  <2>. QED
    BY <2>1, <2>2 DEF ValueOf, CallerValue
<1>5. CASE ReturnAddress
  <2>1. ReturnReg \in Registers /\ ReturnReg >= slot
    BY <1>5, RegsAssumption DEF ReturnAddress, CursorKept, Registers
  <2>2. ra' = CallerValue(ReturnReg) /\ slot' = 0
    BY <1>4, <1>5, <2>1 DEF ReturnAddress
  <2>3. \A r \in Registers : ~(r < slot')
    BY <2>2, SizesAssumption DEF Registers
  <2>. QED
    BY <1>2, <1>5, <2>1, <2>2, <2>3 DEF ReturnAddress, FrameIsFound
<1>6. CASE Restore
  <2>1. slot \in Registers /\ slot >= slot
    BY <1>6, SizesAssumption DEF Restore, TypeOK, Registers
  <2>2. regs' = [regs EXCEPT ![slot] = CallerValue(slot)]
    BY <1>4, <1>6, <2>1 DEF Restore
  <2>3. ASSUME NEW r \in Registers, r < slot + 1 PROVE regs'[r] = CallerValue(r)
    <3>1. r = slot \/ r < slot
      BY <2>1, <2>3, SizesAssumption DEF Registers
    <3>2. r # slot => regs'[r] = regs[r]
      BY <2>2 DEF TypeOK
    <3>3. regs'[slot] = CallerValue(slot)
      BY <2>1, <2>2 DEF TypeOK
    <3>. QED
      BY <1>6, <3>1, <3>2, <3>3 DEF Restore, FrameIsFound
  <2>. QED
    BY <1>2, <1>6, <2>3, RegsAssumption DEF Restore, FrameIsFound, Registers
<1>. QED
  BY <1>3, <1>5, <1>6

(* Every step keeps the row and the frame what the programs say.           *)
LEMMA NextReads ==
  IInv /\ PcBegin <= target /\ Reads /\ [Next]_vars => Reads'
<1>. SUFFICES ASSUME IInv, PcBegin <= target, Reads, [Next]_vars, ~cut', Fits'
              PROVE  CieIsRead' /\ FdeIsRead' /\ FrameIsFound'
  BY DEF Reads
<1>1. UNCHANGED programVars
  BY DEF Next, Advance, SetRule, SetCfa, Nop, Truncated, Unknown, CieDone, FdeDone, NoCfa,
         ReturnAddress, ReadFails, Restore, Leave, vars, programVars
<1>2. Fits
  BY <1>1, ProgramsStay
<1>3. ~cut
  BY DEF Next, Advance, SetRule, SetCfa, Nop, Truncated, Unknown, CieDone, FdeDone, NoCfa,
         ReturnAddress, ReadFails, Restore, Leave, vars
<1>4. CieIsRead /\ FdeIsRead /\ FrameIsFound
  BY <1>2, <1>3 DEF Reads
<1>5. CASE Steps
  <2>1. phase \in {"cie", "fde"} /\ phase' = phase
    BY <1>5 DEF Steps, Advance, SetRule, SetCfa, Nop, IsAt, Running
  <2>2. CASE phase = "cie"
    BY <1>2, <1>4, <1>5, <2>1, <2>2, CieStep DEF FdeIsRead, FrameIsFound
  <2>3. CASE phase = "fde"
    BY <1>2, <1>4, <1>5, <2>1, <2>3, FdeStep DEF CieIsRead, FrameIsFound
  <2>. QED
    BY <2>1, <2>2, <2>3
<1>6. CASE Truncated \/ NoCfa \/ ReadFails \/ Leave
  <2>1. phase' = "done"
    BY <1>6 DEF Truncated, NoCfa, ReadFails, Leave
  <2>. QED
    BY <2>1 DEF CieIsRead, FdeIsRead, FrameIsFound
<1>7. ~Unknown
  BY DEF Unknown
<1>8. CASE CieDone
  BY <1>4, <1>8, CieDoneReads DEF CieDone, CieIsRead, FrameIsFound
<1>9. CASE FdeDone \/ ReturnAddress \/ Restore
  BY <1>4, <1>9, FrameStep DEF FdeDone, ReturnAddress, Restore, CieIsRead, FdeIsRead
<1>10. CASE UNCHANGED vars
  <2>1. UNCHANGED <<phase, at, row, initial, offset, cfa, ra, slot, regs>>
    BY <1>10 DEF vars, regsetVars
  <2>2. /\ cie' = cie /\ fde' = fde /\ InEffect(fde)' = InEffect(fde)
        /\ WholeCie' = WholeCie /\ FdeRules' = FdeRules /\ RealCfa' = RealCfa
        /\ \A r \in Registers : CallerValue(r)' = CallerValue(r)
    BY <1>1, ProgramsStay
  <2>3. ReturnReg \in Registers
    BY RegsAssumption DEF Registers
  <2>4. CieIsRead'
    BY <1>4, <2>1, <2>2 DEF CieIsRead, CieRowSays
  <2>5. FdeIsRead'
    BY <1>4, <2>1, <2>2 DEF FdeIsRead, CieRowSays, FdeRowSays
  <2>6. FrameIsFound'
    BY <1>4, <2>1, <2>2, <2>3 DEF FrameIsFound, FdeRowSays
  <2>. QED
    BY <2>4, <2>5, <2>6
<1>. QED
  BY <1>5, <1>6, <1>7, <1>8, <1>9, <1>10 DEF Next, Steps

-----------------------------------------------------------------------------
(* Theorems *)

(* Rows, registers and cursors keep their types (cfi.c:656-966).           *)
THEOREM TypeCorrect == Spec => []TypeOK
BY AlwaysIInv, PTL DEF IInv

(* A step that fails, at whichever instruction or read, leaves the         *)
(* cursor's pc and sp as they were and has overwritten no register from    *)
(* the failed one on (cfi.c:883-964).                                      *)
THEOREM CursorCorrect == Spec => []FailureKeepsCursor
<1>1. IInv => FailureKeepsCursor
  BY DEF IInv, CursorKept, FailureKeepsCursor
<1>. QED
  BY <1>1, AlwaysIInv, PTL


(* A step that succeeds has found the caller's frame: the CFA, the return  *)
(* address and every register are what the instructions in effect at the   *)
(* pc say, whatever the two programs, the registers and the stack are, as  *)
(* long as no opcode was unknown and numbers fit their types               *)
(* (cfi.c:656-966).                                                        *)
THEOREM RecoveryCorrect == Spec => []CallerIsRecovered
<1>. DEFINE Inv == IInv /\ PcBegin <= target /\ Reads /\ CallerIsRecovered
<1>1. Init => Inv
  <2>1. Init => PcBegin <= target
    BY PcAssumption DEF Init
  <2>2. Init => CallerIsRecovered
    BY DEF Init, CallerIsRecovered, Succeeds
  <2>. QED
    BY <2>1, <2>2, InitIInv, InitReads
<1>2. Inv /\ [Next]_vars => Inv'
  <2>. SUFFICES ASSUME Inv, [Next]_vars PROVE Inv'
    OBVIOUS
  <2>1. IInv' /\ Reads'
    BY NextIInv, NextReads
  <2>2. UNCHANGED programVars
    BY DEF Next, Advance, SetRule, SetCfa, Nop, Truncated, Unknown, CieDone, FdeDone, NoCfa,
           ReturnAddress, ReadFails, Restore, Leave, vars, programVars
  <2>3. (PcBegin <= target)'
    BY <2>2 DEF programVars
  <2>4. CASE Leave
    <3>. SUFFICES ASSUME ~cut', Fits' PROVE CallerIsRecovered'
      BY <2>1, <2>3 DEF CallerIsRecovered
    <3>1. Fits /\ ~cut /\ phase = "restore" /\ slot = Slots
      BY <2>2, <2>4, ProgramsStay DEF Leave
    <3>2. /\ cfa = RealCfa /\ ra = CallerValue(ReturnReg)
          /\ \A r \in Registers : r < slot => regs[r] = CallerValue(r)
      BY <3>1 DEF Reads, FrameIsFound
    <3>3. \A r \in Registers : regs[r] = CallerValue(r)
      BY <3>1, <3>2, SizesAssumption DEF Registers
    <3>4. sp' = cfa /\ pc' = ra /\ regs' = regs
      BY <2>4 DEF Leave
    <3>5. ReturnReg \in Registers
      BY RegsAssumption DEF Registers
    <3>. QED
      BY <2>2, <3>2, <3>3, <3>4, <3>5, ProgramsStay DEF CallerIsRecovered
  <2>5. CASE UNCHANGED vars
    <3>1. UNCHANGED <<phase, status, cut, sp, pc, regs>>
      BY <2>5 DEF vars, regsetVars
    <3>2. ReturnReg \in Registers
      BY RegsAssumption DEF Registers
    <3>3. CallerIsRecovered'
      BY <2>2, <3>1, <3>2, ProgramsStay DEF CallerIsRecovered, Succeeds
    <3>. QED
      BY <2>1, <2>3, <3>3
  <2>6. CASE Next /\ ~Leave
    <3>1. phase' # "done" \/ status' # "OK"
      BY <2>6 DEF Next, Advance, SetRule, SetCfa, Nop, Truncated, Unknown, CieDone, FdeDone,
                  NoCfa, ReturnAddress, ReadFails, Restore, IsAt, Running
    <3>. QED
      BY <2>1, <2>3, <3>1 DEF CallerIsRecovered, Succeeds
  <2>. QED
    BY <2>4, <2>5, <2>6
<1>. QED
  BY <1>1, <1>2, PTL DEF Spec
=============================================================================
