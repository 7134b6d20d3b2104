---------------------------- MODULE BackendProofs ----------------------------
(***************************************************************************)
(* Theorems about the back end: first about CodeGen, for every set of      *)
(* TACKY functions, and then about the compiled function on the processor, *)
(* for every set of well-formed TACKY functions, every width of the words, *)
(* and every content of the registers and of the frame.                    *)
(***************************************************************************)
EXTENDS Backend, SequenceTheorems, TLAPS

-----------------------------------------------------------------------------
(* The inductive invariant. *)

(* The operands that lowering gives an instruction: as many as its class   *)
(* has, and a place where a result goes.  The remainder of the operands    *)
(* may be of any kind.                                                     *)
Fits(i) ==
  /\ i.kind \in {"Mov", "Binary", "Cmp"} => Len(i.ops) = 2
  /\ i.kind \in {"Unary", "SetCC", "Idiv"} => Len(i.ops) = 1
  /\ i.kind = "Mov" => i.ops[2].type # "IMM"
  /\ i.kind = "Binary" => i.ops[2].type \in {"PSEUDO", "STACK"}
  /\ i.kind \in {"Unary", "SetCC"} => i.ops[1].type # "IMM"

Lowered == {i \in AsmInstruction : Fits(i)}

(* The counter is at the lowest slot. *)
SlotsAbove ==
  /\ cur_offset <= 0
  /\ \A x \in DOMAIN offset_map : cur_offset <= offset_map[x]

(* A memory operand is the slot of a name. *)
IsSlot(o) == InMemory(o) => \E x \in DOMAIN offset_map : offset_map[x] = o.offset

SlotsNamed ==
  \A i \in 1..Len(asm_instructions) :
    \A k \in 1..Len(asm_instructions[i].ops) : IsSlot(asm_instructions[i].ops[k])

(* allocate_pseudo has placed what it has passed. *)
Passed(i, k) ==
  \/ phase = "allocate" /\ (i < next \/ (i = next /\ k < operand))
  \/ phase \in {"print", "done"}

PassedPlaced ==
  \A i \in 1..Len(asm_instructions) : \A k \in 1..Len(asm_instructions[i].ops) :
    Passed(i, k) => asm_instructions[i].ops[k].type # "PSEUDO"

(* The lines that are printed. *)
MachineOperand == AsmOperand \cup {None, rsp, rbp}

Opcode == {"addl", "cdq", "cmpl", "idivl", "imull", "j", "jmp", "label", "movl", "movq",
           "negl", "notl", "popq", "pushq", "ret", "set", "subl"}

Line == [m : Opcode, src : MachineOperand, dst : MachineOperand,
         cc : CondCode \cup {""}, label : LabelId \cup {NoLabel}]

EncodableLine == {l \in Line : Encodable(l)}

IInv ==
  /\ TypeOK
  /\ asm_instructions \in Seq(Lowered)
  /\ SlotsAbove
  /\ SlotsDisjoint
  /\ SlotsNamed
  /\ PassedPlaced
  /\ out \in Seq(EncodableLine)

-----------------------------------------------------------------------------
(* Lowering. *)

(* A constant becomes an immediate, a variable a pseudo-register. *)
LEMMA ConvertedOperand ==
  ASSUME NEW v \in Operand
  PROVE  /\ convert_val(v) \in AsmOperand
         /\ convert_val(v).type \in {"IMM", "PSEUDO"}
BY DEF Operand, convert_val, Immediate, Pseudo, AsmOperand, Value, Unplaced

LEMMA ConvertedVariable ==
  ASSUME NEW v \in Variable
  PROVE  convert_val(v) \in AsmOperand /\ convert_val(v).type = "PSEUDO"
BY DEF Variable, convert_val, Pseudo, AsmOperand, Unplaced

(* The fields of a TACKY instruction, by its class. *)
LEMMA TackyFields ==
  ASSUME NEW i \in TackyInstruction
  PROVE  /\ i.kind = "Return" => i.src \in Operand
         /\ i.kind = "Unary" => i.op \in TackyUnaryOp /\ i.src \in Operand /\ i.dst \in Variable
         /\ i.kind = "Binary" => /\ i.op \in TackyBinaryOp /\ i.src1 \in Operand
                                 /\ i.src2 \in Operand /\ i.dst \in Variable
         /\ i.kind = "Copy" => i.src \in Operand /\ i.dst \in Variable
         /\ i.kind = "Jump" => i.target \in LabelId
         /\ i.kind \in {"JumpIfZero", "JumpIfNotZero"} => i.cond \in Operand /\ i.target \in LabelId
         /\ i.kind = "Label" => i.id \in LabelId
BY DEF TackyInstruction

(* The constructors make instructions that fit, of operands that no slot   *)
(* has been found for.                                                     *)
Loose == {o \in AsmOperand : ~InMemory(o)}
Fresh == {i \in Lowered : \A k \in 1..Len(i.ops) : i.ops[k] \in Loose}

LEMMA ShortSeq ==
  ASSUME NEW S, NEW a \in S, NEW b \in S
  PROVE  /\ <<a>> \in Seq(S) /\ Len(<<a>>) = 1 /\ <<a>>[1] = a
         /\ <<a, b>> \in Seq(S) /\ Len(<<a, b>>) = 2 /\ <<a, b>>[1] = a /\ <<a, b>>[2] = b
OBVIOUS

LEMMA TwoOperandsFit ==
  ASSUME NEW s \in Loose, NEW d \in Loose
  PROVE  /\ d.type # "IMM" => Mov(s, d) \in Fresh
         /\ Cmp(s, d) \in Fresh
         /\ d.type = "PSEUDO" => \A op \in BinaryOpASM : BinaryASM(op, s, d) \in Fresh
<1>1. <<s, d>> \in Seq(AsmOperand) /\ Len(<<s, d>>) = 2 /\ <<s, d>>[1] = s /\ <<s, d>>[2] = d
  BY ShortSeq DEF Loose
<1>2. \A k \in 1..2 : <<s, d>>[k] \in Loose
  OBVIOUS
<1>3. Cmp(s, d) \in AsmInstruction /\ Mov(s, d) \in AsmInstruction
  BY <1>1 DEF Mov, Cmp, AsmInstruction
<1>4. \A op \in BinaryOpASM : BinaryASM(op, s, d) \in AsmInstruction
  BY <1>1 DEF BinaryASM, AsmInstruction
<1> QED
  BY <1>1, <1>2, <1>3, <1>4 DEF Mov, Cmp, BinaryASM, Fresh, Lowered, Fits

LEMMA OneOperandFits ==
  ASSUME NEW o \in Loose
  PROVE  /\ Idiv(o) \in Fresh
         /\ o.type # "IMM" => /\ \A op \in UnaryOpASM : UnaryASM(op, o) \in Fresh
                              /\ \A cc \in CondCode : SetCC(cc, o) \in Fresh
<1>1. <<o>> \in Seq(AsmOperand) /\ Len(<<o>>) = 1 /\ <<o>>[1] = o
  BY ShortSeq DEF Loose
<1>2. /\ Idiv(o) \in AsmInstruction
      /\ \A op \in UnaryOpASM : UnaryASM(op, o) \in AsmInstruction
      /\ \A cc \in CondCode : SetCC(cc, o) \in AsmInstruction
  BY <1>1 DEF Idiv, UnaryASM, SetCC, AsmInstruction
<1> QED
  BY <1>1, <1>2 DEF Idiv, UnaryASM, SetCC, Fresh, Lowered, Fits

LEMMA NoOperandFits ==
  /\ Cdq \in Fresh
  /\ Ret \in Fresh
  /\ \A l \in LabelId : /\ Jmp(l) \in Fresh
                        /\ AsmLabel(l) \in Fresh
                        /\ \A cc \in CondCode : JmpCC(cc, l) \in Fresh
<1>1. /\ Cdq \in AsmInstruction /\ Ret \in AsmInstruction
      /\ \A l \in LabelId : /\ Jmp(l) \in AsmInstruction /\ AsmLabel(l) \in AsmInstruction
                            /\ \A cc \in CondCode : JmpCC(cc, l) \in AsmInstruction
  BY DEF Cdq, Ret, Jmp, AsmLabel, JmpCC, AsmInstruction
<1> QED
  BY <1>1 DEF Cdq, Ret, Jmp, AsmLabel, JmpCC, Fresh, Lowered, Fits

LEMMA LooseOperands ==
  /\ \A v \in Operand : convert_val(v) \in Loose
  /\ \A v \in Variable : convert_val(v) \in Loose /\ convert_val(v).type = "PSEUDO"
  /\ \A r \in RegASM : Register(r) \in Loose /\ Register(r).type = "REG"
  /\ \A n \in Int : Immediate(n) \in Loose
<1>1. \A v \in Operand : convert_val(v) \in Loose
  BY ConvertedOperand DEF Loose, InMemory
<1>2. \A v \in Variable : convert_val(v) \in Loose /\ convert_val(v).type = "PSEUDO"
  BY ConvertedVariable DEF Loose, InMemory
<1> QED
  BY <1>1, <1>2 DEF Register, Immediate, Loose, InMemory, AsmOperand, Reg, Value

(* What a visit method appends has no slot yet, and that is all there is   *)
(* to say of the instructions before allocate_pseudo runs.                 *)
LEMMA PushBackStep ==
  ASSUME IInv, phase = "visit", NEW body \in Seq(Fresh), PushBack(body)
  PROVE  IInv'
<1>1. body \in Seq(Lowered)
  BY SeqMonotonic DEF Fresh
<1>2. /\ asm_instructions' \in Seq(Lowered)
      /\ Len(asm_instructions') = Len(asm_instructions) + Len(body)
      /\ \A i \in 1..Len(asm_instructions) + Len(body) :
           asm_instructions'[i] = IF i <= Len(asm_instructions) THEN asm_instructions[i]
                                  ELSE body[i - Len(asm_instructions)]
  BY <1>1, ConcatProperties DEF IInv, PushBack
<1>3. Len(asm_instructions) \in Nat /\ Len(body) \in Nat
  BY LenProperties DEF IInv
<1>4. UNCHANGED <<phase, tacky, operand, cur_offset, offset_map, out>> /\ next' = next + 1
  BY DEF PushBack
<1>5. asm_instructions' \in Seq(AsmInstruction)
  BY <1>2, SeqMonotonic DEF Lowered
<1>6. TypeOK'
  BY <1>4, <1>5 DEF IInv, TypeOK
<1>7. SlotsNamed'
  <2> SUFFICES ASSUME NEW i \in 1..Len(asm_instructions'),
                      NEW k \in 1..Len(asm_instructions'[i].ops)
               PROVE  IsSlot(asm_instructions[i].ops[k])'
    BY DEF SlotsNamed
  <2>1. CASE i \in 1..Len(asm_instructions)
    <3>1. asm_instructions'[i] = asm_instructions[i]
      BY <1>2, <1>3, <2>1
    <3>2. IsSlot(asm_instructions[i].ops[k])
      BY <2>1, <3>1 DEF IInv, SlotsNamed
    <3> QED
      BY <1>4, <3>1, <3>2 DEF IsSlot
  <2>2. CASE i - Len(asm_instructions) \in 1..Len(body)
    <3>1. body[i - Len(asm_instructions)] \in Fresh
      BY <2>2, ElementOfSeq
    <3>2. asm_instructions'[i] \in Fresh
      BY <1>2, <1>3, <2>2, <3>1
    <3> QED
      BY <3>2 DEF Fresh, Loose, IsSlot
  <2> QED
    BY <1>2, <1>3, <2>1, <2>2
<1>8. PassedPlaced'
  BY <1>4 DEF PassedPlaced, Passed
<1> QED
  BY <1>2, <1>4, <1>6, <1>7, <1>8 DEF IInv, SlotsAbove, SlotsDisjoint

LEMMA FreshBody ==
  \A a, b, c, d \in Fresh : /\ <<a>> \in Seq(Fresh)
                            /\ <<a, b>> \in Seq(Fresh)
                            /\ <<a, b, c>> \in Seq(Fresh)
                            /\ <<a, b, c, d>> \in Seq(Fresh)
OBVIOUS

(* What the visit methods append for a TACKY instruction. *)
LowerUnary(op, src, dst) ==
  IF op = "NOT"
  THEN <<Cmp(Immediate(0), src), Mov(Immediate(0), dst), SetCC("E", dst)>>
  ELSE <<Mov(src, dst), UnaryASM(convert_unary[op], dst)>>

Divided(op, src1, src2, dst) ==
  <<Mov(src1, Register("AX")), Cdq, Idiv(src2),
    Mov(Register(IF op = "DIVIDE" THEN "AX" ELSE "DX"), dst)>>

Related(op, src1, src2, dst) ==
  <<Cmp(src2, src1), Mov(Immediate(0), dst), SetCC(convert_to_condition_code[op], dst)>>

Computed(op, src1, src2, dst) ==
  <<Mov(src1, dst), BinaryASM(convert_binary[op], src2, dst)>>

LowerBinary(op, src1, src2, dst) ==
  IF op \in {"DIVIDE", "REMAINDER"} THEN Divided(op, src1, src2, dst)
  ELSE IF op \in RelationalOp THEN Related(op, src1, src2, dst)
  ELSE Computed(op, src1, src2, dst)

Lower(i) ==
  CASE i.kind = "Return" -> <<Mov(convert_val(i.src), Register("AX")), Ret>>
    [] i.kind = "Unary"  -> LowerUnary(i.op, convert_val(i.src), convert_val(i.dst))
    [] i.kind = "Binary" ->
         LowerBinary(i.op, convert_val(i.src1), convert_val(i.src2), convert_val(i.dst))
    [] i.kind = "Copy"   -> <<Mov(convert_val(i.src), convert_val(i.dst))>>
    [] i.kind = "Jump"   -> <<Jmp(i.target)>>
    [] i.kind = "JumpIfZero" ->
         <<Cmp(Immediate(0), convert_val(i.cond)), JmpCC("E", i.target)>>
    [] i.kind = "JumpIfNotZero" ->
         <<Cmp(Immediate(0), convert_val(i.cond)), JmpCC("NE", i.target)>>
    [] i.kind = "Label"  -> <<AsmLabel(i.id)>>

LEMMA LowerForms ==
  ASSUME NEW i
  PROVE  /\ i.kind = "Return" => Lower(i) = <<Mov(convert_val(i.src), Register("AX")), Ret>>
         /\ i.kind = "Unary" =>
              Lower(i) = LowerUnary(i.op, convert_val(i.src), convert_val(i.dst))
         /\ i.kind = "Binary" =>
              Lower(i) = LowerBinary(i.op, convert_val(i.src1), convert_val(i.src2),
                                     convert_val(i.dst))
         /\ i.kind = "Copy" => Lower(i) = <<Mov(convert_val(i.src), convert_val(i.dst))>>
         /\ i.kind = "Jump" => Lower(i) = <<Jmp(i.target)>>
         /\ i.kind = "JumpIfZero" =>
              Lower(i) = <<Cmp(Immediate(0), convert_val(i.cond)), JmpCC("E", i.target)>>
         /\ i.kind = "JumpIfNotZero" =>
              Lower(i) = <<Cmp(Immediate(0), convert_val(i.cond)), JmpCC("NE", i.target)>>
         /\ i.kind = "Label" => Lower(i) = <<AsmLabel(i.id)>>
BY DEF Lower

LEMMA BinaryForms ==
  ASSUME NEW op, NEW src1, NEW src2, NEW dst
  PROVE  /\ op \in {"DIVIDE", "REMAINDER"} =>
              LowerBinary(op, src1, src2, dst) = Divided(op, src1, src2, dst)
         /\ op \in RelationalOp => LowerBinary(op, src1, src2, dst) = Related(op, src1, src2, dst)
         /\ op \in {"ADD", "SUBTRACT", "MULTIPLY"} =>
              LowerBinary(op, src1, src2, dst) = Computed(op, src1, src2, dst)
BY DEF LowerBinary, RelationalOp

LEMMA VisitLowers ==
  ASSUME VisitInstruction, ~BeginAllocation
  PROVE  phase = "visit" /\ next <= Len(tacky) /\ PushBack(Lower(tacky[next]))
<1>1. phase = "visit" /\ next <= Len(tacky)
  BY DEF VisitInstruction, VisitReturn, VisitNot, VisitUnary, VisitDivision, VisitRelational,
         VisitArithmetic, VisitJump, VisitJumpIfZero, VisitJumpIfNotZero, VisitCopy,
         VisitLabel, Visit
<1>2. CASE VisitReturn \/ VisitCopy \/ VisitLabel \/ VisitJump
  BY <1>2, LowerForms DEF VisitReturn, VisitCopy, VisitLabel, VisitJump, Visit
<1>3. CASE VisitJumpIfZero \/ VisitJumpIfNotZero
  BY <1>3, LowerForms DEF VisitJumpIfZero, VisitJumpIfNotZero, Visit
<1>4. CASE VisitNot \/ VisitUnary
  BY <1>4, LowerForms DEF VisitNot, VisitUnary, Visit, LowerUnary
<1>5. CASE VisitDivision
  BY <1>5, LowerForms, BinaryForms DEF VisitDivision, Visit, Divided
<1>6. CASE VisitRelational
  BY <1>6, LowerForms, BinaryForms DEF VisitRelational, Visit, Related
<1>7. CASE VisitArithmetic
  BY <1>7, LowerForms, BinaryForms DEF VisitArithmetic, Visit, Computed
<1> QED
  BY <1>1, <1>2, <1>3, <1>4, <1>5, <1>6, <1>7 DEF VisitInstruction

(* They append instructions that fit. *)
LEMMA LowerFresh ==
  ASSUME NEW i \in TackyInstruction
  PROVE  Lower(i) \in Seq(Fresh)
<1> DEFINE dst == convert_val(i.dst)
<1>1. Immediate(0) \in Loose /\ \A r \in RegASM : Register(r) \in Loose /\ Register(r).type = "REG"
  BY LooseOperands
<1>2. i.kind \in {"Unary", "Binary", "Copy"} => dst \in Loose /\ dst.type = "PSEUDO"
  BY TackyFields, LooseOperands
<1>3. CASE i.kind = "Return"
  <2>1. convert_val(i.src) \in Loose
    BY <1>3, TackyFields, LooseOperands
  <2>2. Mov(convert_val(i.src), Register("AX")) \in Fresh /\ Ret \in Fresh
    BY <1>1, <2>1, TwoOperandsFit, NoOperandFits DEF RegASM
  <2> QED
    BY <1>3, <2>2, FreshBody, LowerForms
<1>4. CASE i.kind = "Unary"
  <2> DEFINE src == convert_val(i.src)
  <2>1. src \in Loose /\ dst \in Loose /\ dst.type = "PSEUDO"
    BY <1>2, <1>4, TackyFields, LooseOperands
  <2>2. CASE i.op = "NOT"
    <3>1. /\ Cmp(Immediate(0), src) \in Fresh
          /\ Mov(Immediate(0), dst) \in Fresh
          /\ SetCC("E", dst) \in Fresh
      BY <1>1, <2>1, TwoOperandsFit, OneOperandFits DEF CondCode
    <3> QED
      BY <1>4, <2>2, <3>1, FreshBody, LowerForms DEF LowerUnary
  <2>3. CASE i.op # "NOT"
    <3>1. convert_unary[i.op] \in UnaryOpASM
      BY <1>4, <2>3, TackyFields DEF convert_unary, TackyUnaryOp, UnaryOpASM
    <3>2. Mov(src, dst) \in Fresh /\ UnaryASM(convert_unary[i.op], dst) \in Fresh
      BY <2>1, <3>1, TwoOperandsFit, OneOperandFits
    <3> QED
      BY <1>4, <2>3, <3>2, FreshBody, LowerForms DEF LowerUnary
  <2> QED
    BY <2>2, <2>3
<1>5. CASE i.kind = "Binary"
  <2> DEFINE src1 == convert_val(i.src1)
             src2 == convert_val(i.src2)
             half == IF i.op = "DIVIDE" THEN "AX" ELSE "DX"
  <2>1. /\ src1 \in Loose /\ src2 \in Loose
        /\ dst \in Loose /\ dst.type = "PSEUDO"
    BY <1>2, <1>5, TackyFields, LooseOperands
  <2>2. Lower(i) = LowerBinary(i.op, src1, src2, dst)
    BY <1>5, LowerForms
  <2>3. half \in RegASM /\ "AX" \in RegASM
    BY DEF RegASM
  <2> HIDE DEF dst, src1, src2, half
  <2>4. CASE i.op \in {"DIVIDE", "REMAINDER"}
    <3>1. /\ Mov(src1, Register("AX")) \in Fresh /\ Cdq \in Fresh
          /\ Idiv(src2) \in Fresh /\ Mov(Register(half), dst) \in Fresh
      BY <1>1, <2>1, <2>3, TwoOperandsFit, OneOperandFits, NoOperandFits
    <3>2. <<Mov(src1, Register("AX")), Cdq, Idiv(src2), Mov(Register(half), dst)>> \in Seq(Fresh)
      BY <3>1, FreshBody
    <3>3. LowerBinary(i.op, src1, src2, dst) = Divided(i.op, src1, src2, dst)
      BY <2>4, BinaryForms
    <3>4. Divided(i.op, src1, src2, dst) \in Seq(Fresh)
      BY <3>2 DEF Divided, half
    <3> QED
      BY <2>2, <3>3, <3>4
  <2>5. CASE i.op \in RelationalOp
    <3>1. convert_to_condition_code[i.op] \in CondCode
      BY <2>5 DEF RelationalOp, convert_to_condition_code, CondCode
    <3>2. /\ Cmp(src2, src1) \in Fresh
          /\ Mov(Immediate(0), dst) \in Fresh
          /\ SetCC(convert_to_condition_code[i.op], dst) \in Fresh
      BY <1>1, <2>1, <3>1, TwoOperandsFit, OneOperandFits
    <3>3. LowerBinary(i.op, src1, src2, dst) = Related(i.op, src1, src2, dst)
      BY <2>5, BinaryForms
    <3>4. Related(i.op, src1, src2, dst) \in Seq(Fresh)
      BY <3>2, FreshBody DEF Related
    <3> QED
      BY <2>2, <3>3, <3>4
  <2>6. CASE i.op \in {"ADD", "SUBTRACT", "MULTIPLY"}
    <3>1. convert_binary[i.op] \in BinaryOpASM
      BY <2>6 DEF convert_binary, BinaryOpASM
    <3>2. Mov(src1, dst) \in Fresh /\ BinaryASM(convert_binary[i.op], src2, dst) \in Fresh
      BY <2>1, <3>1, TwoOperandsFit
    <3>3. LowerBinary(i.op, src1, src2, dst) = Computed(i.op, src1, src2, dst)
      BY <2>6, BinaryForms
    <3>4. Computed(i.op, src1, src2, dst) \in Seq(Fresh)
      BY <3>2, FreshBody DEF Computed
    <3> QED
      BY <2>2, <3>3, <3>4
  <2> QED
    BY <1>5, <2>4, <2>5, <2>6, TackyFields DEF TackyBinaryOp
<1>6. CASE i.kind = "Copy"
  <2>1. Mov(convert_val(i.src), dst) \in Fresh
    BY <1>2, <1>6, TackyFields, LooseOperands, TwoOperandsFit
  <2> QED
    BY <1>6, <2>1, FreshBody, LowerForms
<1>7. CASE i.kind \in {"Jump", "Label"}
  <2>1. /\ i.kind = "Jump" => Jmp(i.target) \in Fresh
        /\ i.kind = "Label" => AsmLabel(i.id) \in Fresh
    BY TackyFields, NoOperandFits
  <2> QED
    BY <1>7, <2>1, FreshBody, LowerForms
<1>8. CASE i.kind \in {"JumpIfZero", "JumpIfNotZero"}
  <2>1. convert_val(i.cond) \in Loose /\ i.target \in LabelId
    BY <1>8, TackyFields, LooseOperands
  <2>2. /\ Cmp(Immediate(0), convert_val(i.cond)) \in Fresh
        /\ \A cc \in {"E", "NE"} : JmpCC(cc, i.target) \in Fresh
    BY <1>1, <2>1, TwoOperandsFit, NoOperandFits DEF CondCode
  <2> QED
    BY <1>8, <2>2, FreshBody, LowerForms
<1> QED
  BY <1>3, <1>4, <1>5, <1>6, <1>7, <1>8 DEF TackyInstruction

LEMMA VisitSteps ==
  ASSUME IInv, VisitInstruction, ~BeginAllocation
  PROVE  IInv'
<1>1. phase = "visit" /\ next <= Len(tacky) /\ PushBack(Lower(tacky[next]))
  BY VisitLowers
<1>2. next \in 1..Len(tacky) /\ tacky[next] \in TackyInstruction
  <2>1. tacky \in Seq(TackyInstruction) /\ next \in Nat \ {0} /\ Len(tacky) \in Nat
    BY LenProperties DEF IInv, TypeOK
  <2> QED
    BY <1>1, <2>1, ElementOfSeq
<1> QED
  BY <1>1, <1>2, LowerFresh, PushBackStep

LEMMA BeginAllocationStep ==
  ASSUME IInv, BeginAllocation
  PROVE  IInv'
<1>1. phase' = "allocate" /\ next' = 1 /\ operand' = 1
      /\ UNCHANGED <<tacky, asm_instructions, cur_offset, offset_map, out>>
  BY DEF BeginAllocation
<1>2. PassedPlaced'
  BY <1>1 DEF PassedPlaced, Passed
<1> QED
  BY <1>1, <1>2 DEF IInv, TypeOK, SlotsAbove, SlotsDisjoint, SlotsNamed, IsSlot

-----------------------------------------------------------------------------
(* Allocation. *)

LEMMA OperandsAreSeq ==
  ASSUME NEW i \in AsmInstruction
  PROVE  i.ops \in Seq(AsmOperand) /\ Len(i.ops) \in Nat
<1>1. i.ops \in Seq(AsmOperand)
  BY EmptySeq DEF AsmInstruction
<1> QED
  BY <1>1, LenProperties

(* replace_pseudo changes the one operand, and the instruction still fits. *)
LEMMA ReplacedFits ==
  ASSUME NEW i \in Lowered, NEW k \in 1..Len(i.ops), NEW offset \in Int
  PROVE  LET j == [i EXCEPT !.ops[k] = Stack(offset)]
         IN  /\ j \in Lowered
             /\ Len(j.ops) = Len(i.ops)
             /\ \A q \in 1..Len(i.ops) : j.ops[q] = IF q = k THEN Stack(offset) ELSE i.ops[q]
<1> DEFINE ops == [i.ops EXCEPT ![k] = Stack(offset)]
           j   == [i EXCEPT !.ops = ops]
<1>1. i \in AsmInstruction /\ Fits(i)
  BY DEF Lowered
<1>2. i.ops \in Seq(AsmOperand) /\ Len(i.ops) \in Nat \ {0}
  BY <1>1, OperandsAreSeq
<1>3. Stack(offset) \in AsmOperand /\ Stack(offset).type = "STACK"
  BY DEF Stack, AsmOperand, Placed
<1>4. /\ ops \in Seq(AsmOperand)
      /\ Len(ops) = Len(i.ops)
      /\ \A q \in 1..Len(i.ops) : ops[q] = IF q = k THEN Stack(offset) ELSE i.ops[q]
  BY <1>2, <1>3, ExceptSeq
<1>5. i.ops # <<>>
  BY <1>2, EmptySeq
<1> HIDE DEF ops
<1>6. j \in AsmInstruction /\ j.ops = ops /\ j.kind = i.kind
  BY <1>1, <1>4, <1>5 DEF AsmInstruction
<1>7. Fits(j)
  <2>1. i.kind \in {"Mov", "Binary", "Cmp"} => Len(ops) = 2 /\ 2 \in 1..Len(i.ops)
    BY <1>1, <1>4 DEF Fits
  <2>2. i.kind \in {"Unary", "SetCC", "Idiv"} => Len(ops) = 1
    BY <1>1, <1>4 DEF Fits
  <2> QED
    BY <1>1, <1>2, <1>3, <1>4, <1>6, <2>1, <2>2 DEF Fits
<1> QED
  BY <1>4, <1>6, <1>7 DEF Lowered, ops

LEMMA PlacedOperand ==
  ASSUME IInv, AtOperand, NEW offset \in Int, Replace(offset)
  PROVE  /\ next \in 1..Len(asm_instructions)
         /\ operand \in 1..Len(asm_instructions[next].ops)
         /\ asm_instructions' \in Seq(Lowered)
         /\ Len(asm_instructions') = Len(asm_instructions)
         /\ \A i \in 1..Len(asm_instructions) :
              /\ Len(asm_instructions'[i].ops) = Len(asm_instructions[i].ops)
              /\ \A k \in 1..Len(asm_instructions[i].ops) :
                   asm_instructions'[i].ops[k] =
                     IF i = next /\ k = operand THEN Stack(offset) ELSE asm_instructions[i].ops[k]
<1> DEFINE new == [asm_instructions[next] EXCEPT !.ops[operand] = Stack(offset)]
<1>1. asm_instructions \in Seq(Lowered) /\ Len(asm_instructions) \in Nat
      /\ next \in Nat \ {0} /\ operand \in Nat \ {0}
  BY LenProperties DEF IInv, TypeOK
<1>2. next \in 1..Len(asm_instructions)
  BY <1>1 DEF AtOperand
<1>3. asm_instructions[next] \in Lowered
  BY <1>1, <1>2, ElementOfSeq
<1>4. operand \in 1..Len(asm_instructions[next].ops)
  BY <1>1, <1>3, OperandsAreSeq DEF AtOperand, Lowered
<1>5. /\ new \in Lowered
      /\ Len(new.ops) = Len(asm_instructions[next].ops)
      /\ \A q \in 1..Len(asm_instructions[next].ops) :
           new.ops[q] = IF q = operand THEN Stack(offset) ELSE asm_instructions[next].ops[q]
  BY <1>3, <1>4, ReplacedFits
<1>6. asm_instructions' = [asm_instructions EXCEPT ![next] = new]
  BY DEF Replace
<1> HIDE DEF new
<1>7. /\ asm_instructions' \in Seq(Lowered)
      /\ Len(asm_instructions') = Len(asm_instructions)
      /\ \A i \in 1..Len(asm_instructions) :
           asm_instructions'[i] = IF i = next THEN new ELSE asm_instructions[i]
  BY <1>1, <1>2, <1>5, <1>6, ExceptSeq
<1> QED
  BY <1>2, <1>4, <1>5, <1>7

(* A pseudo-register gives way to a slot, of which the map knows the name. *)
LEMMA ReplaceStep ==
  ASSUME IInv, AtOperand, NEW offset \in Int, Replace(offset),
         UNCHANGED <<phase, tacky, next, out>>,
         cur_offset' \in Int, DOMAIN offset_map' \subseteq Name,
         \A x \in DOMAIN offset_map' : offset_map'[x] \in Int,
         DOMAIN offset_map \subseteq DOMAIN offset_map',
         \A x \in DOMAIN offset_map : offset_map'[x] = offset_map[x],
         \E x \in DOMAIN offset_map' : offset_map'[x] = offset,
         SlotsAbove', SlotsDisjoint'
  PROVE  IInv'
<1>1. /\ asm_instructions' \in Seq(Lowered)
      /\ Len(asm_instructions') = Len(asm_instructions)
      /\ \A i \in 1..Len(asm_instructions) :
           /\ Len(asm_instructions'[i].ops) = Len(asm_instructions[i].ops)
           /\ \A k \in 1..Len(asm_instructions[i].ops) :
                asm_instructions'[i].ops[k] =
                  IF i = next /\ k = operand THEN Stack(offset) ELSE asm_instructions[i].ops[k]
  BY PlacedOperand
<1>2. asm_instructions' \in Seq(AsmInstruction)
  BY <1>1, SeqMonotonic DEF Lowered
<1>3. phase = "allocate" /\ operand' = operand + 1
      /\ next \in Nat \ {0} /\ operand \in Nat \ {0}
  BY DEF AtOperand, Replace, IInv, TypeOK
<1>4. TypeOK'
  BY <1>2, <1>3 DEF IInv, TypeOK
<1>5. ASSUME NEW i \in 1..Len(asm_instructions), NEW k \in 1..Len(asm_instructions[i].ops)
      PROVE  /\ IsSlot(asm_instructions[i].ops[k])'
             /\ Passed(i, k)' => asm_instructions'[i].ops[k].type # "PSEUDO"
  <2>1. CASE i = next /\ k = operand
    <3>1. asm_instructions'[i].ops[k] = Stack(offset)
      BY <1>1, <2>1
    <3> QED
      BY <3>1 DEF IsSlot, Stack
  <2>2. CASE ~(i = next /\ k = operand)
    <3>1. asm_instructions'[i].ops[k] = asm_instructions[i].ops[k]
      BY <1>1, <2>2
    <3>2. IsSlot(asm_instructions[i].ops[k])
      BY DEF IInv, SlotsNamed
    <3>3. IsSlot(asm_instructions[i].ops[k])'
      BY <3>1, <3>2 DEF IsSlot
    <3>4. Passed(i, k)' => Passed(i, k)
      <4>1. i \in Int
        OBVIOUS
      <4>2. k \in Int
        OBVIOUS
      <4> QED
        BY <1>3, <2>2, <4>1, <4>2 DEF Passed
    <3> QED
      BY <3>1, <3>3, <3>4 DEF IInv, PassedPlaced
  <2> QED
    BY <2>1, <2>2
<1>6. SlotsNamed' /\ PassedPlaced'
  BY <1>1, <1>5 DEF SlotsNamed, PassedPlaced
<1> QED
  BY <1>1, <1>4, <1>6 DEF IInv

LEMMA HereIsOperand ==
  ASSUME IInv, AtOperand
  PROVE  /\ next \in 1..Len(asm_instructions)
         /\ operand \in 1..Len(asm_instructions[next].ops)
         /\ Here \in AsmOperand
<1>1. asm_instructions \in Seq(Lowered) /\ Len(asm_instructions) \in Nat
      /\ next \in Nat \ {0} /\ operand \in Nat \ {0}
  BY LenProperties DEF IInv, TypeOK
<1>2. next \in 1..Len(asm_instructions)
  BY <1>1 DEF AtOperand
<1>3. asm_instructions[next] \in AsmInstruction
  BY <1>1, <1>2, ElementOfSeq DEF Lowered
<1>4. asm_instructions[next].ops \in Seq(AsmOperand)
      /\ operand \in 1..Len(asm_instructions[next].ops)
  BY <1>1, <1>3, OperandsAreSeq DEF AtOperand
<1> QED
  BY <1>2, <1>4, ElementOfSeq DEF Here

(* The slot of a new name is right below the lowest one so far, *)
LEMMA ReplaceNewStep ==
  ASSUME IInv, ReplaceNewPseudo
  PROVE  IInv'
<1> DEFINE low == cur_offset - 4
<1>1. Here.type = "PSEUDO" /\ Here.id \in Name /\ Here.id \notin DOMAIN offset_map
  <2>1. Here \in AsmOperand /\ Here.type = "PSEUDO"
    BY HereIsOperand DEF ReplaceNewPseudo
  <2> QED
    BY <2>1 DEF AsmOperand, Value, Reg, Unplaced, Placed, ReplaceNewPseudo
<1>2. /\ cur_offset \in Int /\ cur_offset <= 0 /\ low \in Int
      /\ DOMAIN offset_map \subseteq Name
      /\ \A x \in DOMAIN offset_map : offset_map[x] \in Int /\ cur_offset <= offset_map[x]
      /\ SlotsDisjoint
  BY DEF IInv, TypeOK, SlotsAbove
<1>3. /\ AtOperand /\ Replace(low)
      /\ UNCHANGED <<phase, tacky, next, out>>
      /\ cur_offset' = low
      /\ DOMAIN offset_map' = DOMAIN offset_map \cup {Here.id}
      /\ \A x \in DOMAIN offset_map' :
           offset_map'[x] = IF x = Here.id THEN low ELSE offset_map[x]
  BY DEF ReplaceNewPseudo
<1>4. SlotsAbove'
  BY <1>2, <1>3 DEF SlotsAbove
<1>5. SlotsDisjoint'
  <2> SUFFICES ASSUME NEW x \in DOMAIN offset_map', NEW y \in DOMAIN offset_map'
               PROVE  /\ offset_map'[x] + 4 <= 0
                      /\ x # y => \/ offset_map'[x] + 4 <= offset_map'[y]
                                  \/ offset_map'[y] + 4 <= offset_map'[x]
    BY DEF SlotsDisjoint
  <2> QED
    BY <1>2, <1>3 DEF SlotsDisjoint
<1> QED
  BY <1>1, <1>2, <1>3, <1>4, <1>5, ReplaceStep

(* and that of a known one is its own. *)
LEMMA ReplaceKnownStep ==
  ASSUME IInv, ReplaceKnownPseudo
  PROVE  IInv'
<1> DEFINE offset == offset_map[Here.id]
<1>1. /\ AtOperand /\ Replace(offset) /\ Here.id \in DOMAIN offset_map
      /\ UNCHANGED <<phase, tacky, next, cur_offset, offset_map, out>>
  BY DEF ReplaceKnownPseudo
<1>2. offset \in Int
  BY <1>1 DEF IInv, TypeOK
<1>3. SlotsAbove' /\ SlotsDisjoint'
  BY <1>1 DEF IInv, SlotsAbove, SlotsDisjoint
<1>4. /\ cur_offset' \in Int /\ DOMAIN offset_map' \subseteq Name
      /\ \A x \in DOMAIN offset_map' : offset_map'[x] \in Int
  BY <1>1 DEF IInv, TypeOK
<1> QED
  BY <1>1, <1>2, <1>3, <1>4, ReplaceStep

(* The loops of allocate_pseudo, over operands and over instructions.      *)
LEMMA KeepOperandStep ==
  ASSUME IInv, KeepOperand
  PROVE  IInv'
<1>1. /\ phase = "allocate" /\ Here.type # "PSEUDO"
      /\ operand' = operand + 1 /\ operand \in Nat \ {0}
      /\ UNCHANGED <<phase, tacky, next, asm_instructions, cur_offset, offset_map, out>>
  BY DEF KeepOperand, AtOperand, IInv, TypeOK
<1>2. PassedPlaced'
  <2> SUFFICES ASSUME NEW i \in 1..Len(asm_instructions),
                      NEW k \in 1..Len(asm_instructions[i].ops), Passed(i, k)'
               PROVE  asm_instructions[i].ops[k].type # "PSEUDO"
    BY <1>1 DEF PassedPlaced
  <2>1. k \in Int
    OBVIOUS
  <2>2. Passed(i, k) \/ (i = next /\ k = operand)
    BY <1>1, <2>1 DEF Passed
  <2> QED
    BY <1>1, <2>2 DEF IInv, PassedPlaced, Here
<1>3. TypeOK'
  BY <1>1 DEF IInv, TypeOK
<1> QED
  BY <1>1, <1>2, <1>3 DEF IInv, SlotsAbove, SlotsDisjoint, SlotsNamed, IsSlot

LEMMA NextInstructionStep ==
  ASSUME IInv, NextInstruction
  PROVE  IInv'
<1>1. /\ phase = "allocate" /\ next \in Nat \ {0} /\ operand \in Nat \ {0}
      /\ operand > Len(asm_instructions[next].ops)
      /\ next' = next + 1 /\ operand' = 1
      /\ UNCHANGED <<phase, tacky, asm_instructions, cur_offset, offset_map, out>>
  BY DEF NextInstruction, IInv, TypeOK
<1>2. PassedPlaced'
  <2> SUFFICES ASSUME NEW i \in 1..Len(asm_instructions),
                      NEW k \in 1..Len(asm_instructions[i].ops), Passed(i, k)'
               PROVE  asm_instructions[i].ops[k].type # "PSEUDO"
    BY <1>1 DEF PassedPlaced
  <2>1. i \in Int /\ k \in Int
    OBVIOUS
  <2>2. Len(asm_instructions[i].ops) \in Nat
    BY ElementOfSeq, OperandsAreSeq DEF IInv, Lowered
  <2>3. Passed(i, k)
    BY <1>1, <2>1, <2>2 DEF Passed
  <2> QED
    BY <2>3 DEF IInv, PassedPlaced
<1>3. TypeOK'
  BY <1>1 DEF IInv, TypeOK
<1> QED
  BY <1>1, <1>2, <1>3 DEF IInv, SlotsAbove, SlotsDisjoint, SlotsNamed, IsSlot

-----------------------------------------------------------------------------
(* Printing. *)

LEMMA MachineLine ==
  ASSUME NEW m \in Opcode, NEW s \in MachineOperand, NEW d \in MachineOperand
  PROVE  /\ Machine(m, s, d) \in Line
         /\ Encodable(Machine(m, s, d)) <=>
              /\ s.type # "PSEUDO" /\ d.type # "PSEUDO"
              /\ d.type # "IMM"
              /\ ~(InMemory(s) /\ InMemory(d))
              /\ m = "imull" => d.type = "REG"
              /\ m = "idivl" => s.type \in {"REG", "STACK"}
BY DEF Machine, Line, Encodable

LEMMA FixedOperands ==
  /\ r10d \in MachineOperand /\ r10d.type = "REG"
  /\ r11d \in MachineOperand /\ r11d.type = "REG"
  /\ rsp \in MachineOperand /\ rsp.type = "REG"
  /\ rbp \in MachineOperand /\ rbp.type = "REG"
  /\ None \in MachineOperand /\ None.type = "NONE"
BY DEF r10d, r11d, rsp, rbp, None, Register, MachineOperand, AsmOperand, Reg, RegASM

LEMMA FewLines ==
  \A a, b, c \in EncodableLine : /\ <<a>> \in Seq(EncodableLine)
                                 /\ <<a, b>> \in Seq(EncodableLine)
                                 /\ <<a, b, c>> \in Seq(EncodableLine)
OBVIOUS

LEMMA PrologueEncodable == Prologue \in Seq(EncodableLine)
<1>1. /\ Machine("pushq", rbp, None) \in EncodableLine
      /\ Machine("movq", rsp, rbp) \in EncodableLine
  BY FixedOperands, MachineLine DEF EncodableLine, Opcode, InMemory
<1> QED
  BY <1>1, FewLines DEF Prologue

LEMMA BeginPrintingStep ==
  ASSUME IInv, BeginPrinting
  PROVE  IInv'
<1>1. /\ phase = "allocate" /\ next \in Nat \ {0} /\ next > Len(asm_instructions)
      /\ phase' = "print" /\ next' = 1
      /\ out' = Prologue
      /\ UNCHANGED <<tacky, operand, asm_instructions, cur_offset, offset_map>>
  BY DEF BeginPrinting, IInv, TypeOK
<1>2. Len(asm_instructions) \in Nat
  BY LenProperties DEF IInv
<1>3. PassedPlaced'
  <2> SUFFICES ASSUME NEW i \in 1..Len(asm_instructions),
                      NEW k \in 1..Len(asm_instructions[i].ops)
               PROVE  asm_instructions[i].ops[k].type # "PSEUDO"
    BY <1>1 DEF PassedPlaced
  <2>1. Passed(i, k)
    BY <1>1, <1>2 DEF Passed
  <2> QED
    BY <2>1 DEF IInv, PassedPlaced
<1>4. TypeOK'
  BY <1>1 DEF IInv, TypeOK
<1> QED
  BY <1>1, <1>3, <1>4, PrologueEncodable
  DEF IInv, SlotsAbove, SlotsDisjoint, SlotsNamed, IsSlot

(* An operand that allocate_pseudo has placed. *)
Located == {o \in AsmOperand : o.type # "PSEUDO"}

LEMMA LocatedOperand ==
  ASSUME NEW o \in Located
  PROVE  o \in MachineOperand /\ o.type \in {"IMM", "REG", "STACK"}
BY DEF Located, MachineOperand, AsmOperand, Value, Reg, Unplaced, Placed

(* Each code_gen expands every combination of kinds that lowering makes    *)
(* and the hardware lacks.                                                 *)
LEMMA MovEncodable ==
  ASSUME NEW s \in Located, NEW d \in Located, d.type # "IMM"
  PROVE  PrintMov(s, d) \in Seq(EncodableLine)
<1>1. CASE InMemory(s) /\ InMemory(d)
  <2>1. /\ Machine("movl", s, r10d) \in EncodableLine
        /\ Machine("movl", r10d, d) \in EncodableLine
    BY LocatedOperand, FixedOperands, MachineLine DEF EncodableLine, Opcode, InMemory
  <2> QED
    BY <1>1, <2>1, FewLines DEF PrintMov
<1>2. CASE ~(InMemory(s) /\ InMemory(d))
  <2>1. Machine("movl", s, d) \in EncodableLine
    BY <1>2, LocatedOperand, MachineLine DEF EncodableLine, Opcode
  <2> QED
    BY <1>2, <2>1, FewLines DEF PrintMov
<1> QED
  BY <1>1, <1>2

LEMMA BinaryEncodable ==
  ASSUME NEW op \in BinaryOpASM, NEW s \in Located, NEW d \in Located, InMemory(d)
  PROVE  PrintBinary(op, s, d) \in Seq(EncodableLine)
<1>1. CASE op = "MULT"
  <2>1. /\ Machine("movl", d, r11d) \in EncodableLine
        /\ Machine("imull", s, r11d) \in EncodableLine
        /\ Machine("movl", r11d, d) \in EncodableLine
    BY LocatedOperand, FixedOperands, MachineLine DEF EncodableLine, Opcode, InMemory
  <2> QED
    BY <1>1, <2>1, FewLines DEF PrintBinary
<1>2. CASE op # "MULT"
  <2>1. Mnemonic[op] \in {"addl", "subl"}
    BY <1>2 DEF Mnemonic, BinaryOpASM
  <2>2. CASE InMemory(s)
    <3>1. /\ Machine("movl", s, r10d) \in EncodableLine
          /\ Machine(Mnemonic[op], r10d, d) \in EncodableLine
      BY <2>1, LocatedOperand, FixedOperands, MachineLine DEF EncodableLine, Opcode, InMemory
    <3> QED
      BY <1>2, <2>2, <3>1, FewLines DEF PrintBinary
  <2>3. CASE ~InMemory(s)
    <3>1. Machine(Mnemonic[op], s, d) \in EncodableLine
      BY <2>1, <2>3, LocatedOperand, MachineLine DEF EncodableLine, Opcode, InMemory
    <3> QED
      BY <1>2, <2>3, <3>1, FewLines DEF PrintBinary
  <2> QED
    BY <2>2, <2>3
<1> QED
  BY <1>1, <1>2

LEMMA CmpEncodable ==
  ASSUME NEW s \in Located, NEW d \in Located
  PROVE  PrintCmp(s, d) \in Seq(EncodableLine)
<1>1. CASE InMemory(s) /\ InMemory(d)
  <2>1. /\ Machine("movl", s, r10d) \in EncodableLine
        /\ Machine("cmpl", r10d, d) \in EncodableLine
    BY <1>1, LocatedOperand, FixedOperands, MachineLine DEF EncodableLine, Opcode, InMemory
  <2> QED
    BY <1>1, <2>1, FewLines DEF PrintCmp
<1>2. CASE ~(InMemory(s) /\ InMemory(d)) /\ IsImmediate(d)
  <2>1. /\ Machine("movl", d, r11d) \in EncodableLine
        /\ Machine("cmpl", s, r11d) \in EncodableLine
    BY LocatedOperand, FixedOperands, MachineLine DEF EncodableLine, Opcode, InMemory
  <2> QED
    BY <1>2, <2>1, FewLines DEF PrintCmp
<1>3. CASE ~(InMemory(s) /\ InMemory(d)) /\ ~IsImmediate(d)
  <2>1. Machine("cmpl", s, d) \in EncodableLine
    BY <1>3, LocatedOperand, MachineLine DEF EncodableLine, Opcode, IsImmediate
  <2> QED
    BY <1>3, <2>1, FewLines DEF PrintCmp
<1> QED
  BY <1>1, <1>2, <1>3

LEMMA OneOperandEncodable ==
  ASSUME NEW o \in Located
  PROVE  /\ PrintIdiv(o) \in Seq(EncodableLine)
         /\ o.type # "IMM" => /\ \A op \in UnaryOpASM : PrintUnary(op, o) \in Seq(EncodableLine)
                              /\ \A cc \in CondCode : <<Setting(cc, o)>> \in Seq(EncodableLine)
<1>1. PrintIdiv(o) \in Seq(EncodableLine)
  <2>1. CASE IsImmediate(o)
    <3>1. /\ Machine("movl", o, r10d) \in EncodableLine
          /\ Machine("idivl", r10d, None) \in EncodableLine
      BY LocatedOperand, FixedOperands, MachineLine DEF EncodableLine, Opcode, InMemory
    <3> QED
      BY <2>1, <3>1, FewLines DEF PrintIdiv
  <2>2. CASE ~IsImmediate(o)
    <3>1. Machine("idivl", o, None) \in EncodableLine
      BY <2>2, LocatedOperand, FixedOperands, MachineLine
      DEF EncodableLine, Opcode, IsImmediate, InMemory
    <3> QED
      BY <2>2, <3>1, FewLines DEF PrintIdiv
  <2> QED
    BY <2>1, <2>2
<1>2. ASSUME o.type # "IMM", NEW op \in UnaryOpASM
      PROVE  PrintUnary(op, o) \in Seq(EncodableLine)
  <2>1. /\ Machine("notl", None, o) \in EncodableLine
        /\ Machine("negl", None, o) \in EncodableLine
    BY <1>2, LocatedOperand, FixedOperands, MachineLine DEF EncodableLine, Opcode, InMemory
  <2> QED
    BY <2>1, FewLines DEF PrintUnary
<1>3. ASSUME o.type # "IMM", NEW cc \in CondCode
      PROVE  <<Setting(cc, o)>> \in Seq(EncodableLine)
  <2>1. Setting(cc, o) \in Line
    BY LocatedOperand, FixedOperands DEF Setting, Line, Opcode
  <2>2. Encodable(Setting(cc, o))
    BY <1>3, LocatedOperand, FixedOperands DEF Setting, Encodable, InMemory
  <2> QED
    BY <2>1, <2>2, FewLines DEF EncodableLine
<1> QED
  BY <1>1, <1>2, <1>3

LEMMA NoOperandEncodable ==
  /\ PrintRet \in Seq(EncodableLine)
  /\ <<Machine("cdq", None, None)>> \in Seq(EncodableLine)
  /\ \A l \in LabelId : /\ <<Branching("jmp", "", l)>> \in Seq(EncodableLine)
                        /\ <<Branching("label", "", l)>> \in Seq(EncodableLine)
                        /\ \A cc \in CondCode : <<Branching("j", cc, l)>> \in Seq(EncodableLine)
<1>1. /\ Machine("movq", rbp, rsp) \in EncodableLine
      /\ Machine("popq", None, rbp) \in EncodableLine
      /\ Machine("ret", None, None) \in EncodableLine
      /\ Machine("cdq", None, None) \in EncodableLine
  BY FixedOperands, MachineLine DEF EncodableLine, Opcode, InMemory
<1>2. ASSUME NEW m \in {"jmp", "label", "j"}, NEW cc \in CondCode \cup {""}, NEW l \in LabelId
      PROVE  Branching(m, cc, l) \in EncodableLine
  <2>1. Branching(m, cc, l) \in Line
    BY FixedOperands DEF Branching, Line, Opcode
  <2>2. Encodable(Branching(m, cc, l))
    BY FixedOperands DEF Branching, Encodable, InMemory
  <2> QED
    BY <2>1, <2>2 DEF EncodableLine
<1> QED
  BY <1>1, <1>2, FewLines DEF PrintRet

(* The fields of an assembly instruction, by its class. *)
LEMMA AsmFields ==
  ASSUME NEW i \in AsmInstruction
  PROVE  /\ i.kind \in {"Mov", "Unary", "Binary", "Cmp", "SetCC", "Idiv", "Cdq", "Ret", "Jmp",
                        "JmpCC", "Label"}
         /\ i.ops \in Seq(AsmOperand)
         /\ i.kind = "Unary" => i.op \in UnaryOpASM
         /\ i.kind = "Binary" => i.op \in BinaryOpASM
         /\ i.kind = "SetCC" => i.cc \in CondCode
         /\ i.kind = "Jmp" => i.target \in LabelId
         /\ i.kind = "JmpCC" => i.cc \in CondCode /\ i.target \in LabelId
         /\ i.kind = "Label" => i.id \in LabelId
BY OperandsAreSeq DEF AsmInstruction

LEMMA CodeGenEncodable ==
  ASSUME NEW i \in Lowered, \A k \in 1..Len(i.ops) : i.ops[k].type # "PSEUDO"
  PROVE  code_gen(i) \in Seq(EncodableLine)
<1>1. i \in AsmInstruction /\ Fits(i)
  BY DEF Lowered
<1>2. \A k \in 1..Len(i.ops) : i.ops[k] \in Located
  BY <1>1, AsmFields, ElementOfSeq DEF Located
<1>3. CASE i.kind \in {"Mov", "Cmp", "Binary"}
  <2>1. Len(i.ops) = 2 /\ i.ops[1] \in Located /\ i.ops[2] \in Located
    BY <1>1, <1>2, <1>3 DEF Fits
  <2>2. i.kind = "Mov" => i.ops[2].type # "IMM"
    BY <1>1 DEF Fits
  <2>3. i.kind = "Binary" => i.op \in BinaryOpASM /\ InMemory(i.ops[2])
    BY <1>1, <2>1, AsmFields DEF Fits, InMemory, Located
  <2> QED
    BY <1>3, <2>1, <2>2, <2>3, MovEncodable, CmpEncodable, BinaryEncodable DEF code_gen
<1>4. CASE i.kind \in {"Unary", "SetCC", "Idiv"}
  <2>1. Len(i.ops) = 1 /\ i.ops[1] \in Located
    BY <1>1, <1>2, <1>4 DEF Fits
  <2>2. i.kind \in {"Unary", "SetCC"} => i.ops[1].type # "IMM"
    BY <1>1 DEF Fits
  <2> QED
    BY <1>1, <1>4, <2>1, <2>2, AsmFields, OneOperandEncodable DEF code_gen
<1>5. CASE i.kind \in {"Cdq", "Ret", "Jmp", "JmpCC", "Label"}
  BY <1>1, <1>5, AsmFields, NoOperandEncodable DEF code_gen
<1> QED
  BY <1>1, <1>3, <1>4, <1>5, AsmFields

LEMMA PrintInstructionStep ==
  ASSUME IInv, PrintInstruction
  PROVE  IInv'
<1> DEFINE lines == code_gen(asm_instructions[next])
<1>1. /\ phase = "print" /\ next <= Len(asm_instructions)
      /\ next \in Nat \ {0} /\ next' = next + 1
      /\ out' = out \o lines
      /\ UNCHANGED <<phase, tacky, operand, asm_instructions, cur_offset, offset_map>>
  BY DEF PrintInstruction, IInv, TypeOK
<1>2. Len(asm_instructions) \in Nat
  BY LenProperties DEF IInv
<1>3. asm_instructions[next] \in Lowered
  BY <1>1, <1>2, ElementOfSeq DEF IInv
<1>4. \A k \in 1..Len(asm_instructions[next].ops) : asm_instructions[next].ops[k].type # "PSEUDO"
  BY <1>1, <1>2 DEF IInv, PassedPlaced, Passed
<1>5. lines \in Seq(EncodableLine)
  BY <1>3, <1>4, CodeGenEncodable
<1> HIDE DEF lines
<1>6. out' \in Seq(EncodableLine)
  BY <1>1, <1>5, ConcatProperties DEF IInv
<1>7. PassedPlaced'
  BY <1>1 DEF IInv, PassedPlaced, Passed
<1>8. TypeOK'
  BY <1>1 DEF IInv, TypeOK
<1> QED
  BY <1>1, <1>6, <1>7, <1>8 DEF IInv, SlotsAbove, SlotsDisjoint, SlotsNamed, IsSlot

LEMMA EndPrintingStep ==
  ASSUME IInv, EndPrinting
  PROVE  IInv'
<1>1. /\ phase = "print" /\ phase' = "done"
      /\ UNCHANGED <<tacky, next, operand, asm_instructions, cur_offset, offset_map, out>>
  BY DEF EndPrinting
<1>2. PassedPlaced'
  BY <1>1 DEF IInv, PassedPlaced, Passed
<1>3. TypeOK'
  BY <1>1 DEF IInv, TypeOK
<1> QED
  BY <1>1, <1>2, <1>3 DEF IInv, SlotsAbove, SlotsDisjoint, SlotsNamed, IsSlot

-----------------------------------------------------------------------------
(* CodeGen starts with the TACKY code and no assembly. *)
LEMMA InitEstablishes == Init => IInv
<1> SUFFICES ASSUME Init PROVE IInv
  OBVIOUS
<1>1. /\ phase = "visit" /\ next = 1 /\ operand = 1 /\ cur_offset = 0
      /\ asm_instructions = <<>> /\ out = <<>>
      /\ DOMAIN offset_map = {}
      /\ tacky \in TackyCode
  BY DEF Init, CodeGenStart
<1>2. Len(asm_instructions) = 0
  BY <1>1, EmptySeq
<1>3. TypeOK
  BY <1>1, EmptySeq, TackyCodeAssumption DEF TypeOK
<1>4. SlotsNamed /\ PassedPlaced
  BY <1>2 DEF SlotsNamed, PassedPlaced
<1> QED
  BY <1>1, <1>3, <1>4, EmptySeq DEF IInv, SlotsAbove, SlotsDisjoint

(* Every step of the generator keeps the invariant. *)
LEMMA NextPreserves == IInv /\ [Next]_code_vars => IInv'
<1> SUFFICES ASSUME IInv, [Next]_code_vars PROVE IInv'
  OBVIOUS
<1>1. CASE VisitInstruction
  BY <1>1, VisitSteps, BeginAllocationStep
<1>2. CASE AllocatePseudo
  BY <1>2, ReplaceNewStep, ReplaceKnownStep, KeepOperandStep, NextInstructionStep,
     BeginPrintingStep DEF AllocatePseudo
<1>3. CASE PrintInstruction \/ EndPrinting
  BY <1>3, PrintInstructionStep, EndPrintingStep
<1>4. CASE UNCHANGED code_vars
  <2>1. UNCHANGED <<phase, tacky, next, operand, asm_instructions, cur_offset, offset_map, out>>
    BY <1>4 DEF code_vars
  <2> QED
    BY <2>1 DEF IInv, TypeOK, SlotsAbove, SlotsDisjoint, SlotsNamed, IsSlot, PassedPlaced, Passed
<1> QED
  BY <1>1, <1>2, <1>3, <1>4 DEF Next

(* The inductive invariant holds of every reachable state of CodeGen. *)
THEOREM Inductive == Spec => []IInv
BY InitEstablishes, NextPreserves, PTL DEF Spec

(* Every variable always has its type: the conversions are total on what   *)
(* visit hands them, and a replaced operand leaves an instruction of its   *)
(* class.                                                                  *)
THEOREM TypesHold == Spec => []TypeOK
<1>1. IInv => TypeOK
  BY DEF IInv
<1> QED
  BY <1>1, Inductive, PTL

(* However many names a function has, the slots that replace_pseudo hands  *)
(* out never overlap, and all lie below the saved frame pointer.           *)
THEOREM SlotsHold == Spec => []SlotsDisjoint
<1>1. IInv => SlotsDisjoint
  BY DEF IInv
<1> QED
  BY <1>1, Inductive, PTL

LEMMA PrintedFollows == IInv => PrintedEncodable
<1> SUFFICES ASSUME IInv PROVE PrintedEncodable
  OBVIOUS
<1>1. DOMAIN out = 1..Len(out) /\ \A i \in 1..Len(out) : out[i] \in EncodableLine
  BY LenProperties, ElementOfSeq DEF IInv
<1>2. \A i \in DOMAIN out : Encodable(out[i])
  BY <1>1 DEF EncodableLine
<1>3. EveryOperandPlaced
  <2> SUFFICES ASSUME phase \in {"print", "done"},
                      NEW i \in DOMAIN asm_instructions,
                      NEW k \in DOMAIN asm_instructions[i].ops
               PROVE  /\ asm_instructions[i].ops[k].type # "PSEUDO"
                      /\ IsSlot(asm_instructions[i].ops[k])
    BY DEF EveryOperandPlaced, IsSlot
  <2>1. i \in 1..Len(asm_instructions) /\ asm_instructions[i] \in AsmInstruction
    BY LenProperties, ElementOfSeq DEF IInv, TypeOK
  <2>2. k \in 1..Len(asm_instructions[i].ops)
    BY <2>1, AsmFields, LenProperties
  <2> QED
    BY <2>1, <2>2 DEF IInv, SlotsNamed, PassedPlaced, Passed
<1> QED
  BY <1>2, <1>3 DEF PrintedEncodable

(* Whatever TACKY code is compiled, allocate_pseudo has placed every       *)
(* operand once printing begins, a memory operand is the slot of a name,   *)
(* and every line that code_gen prints has a form that x86-64 has.         *)
THEOREM PrintedHolds == Spec => []PrintedEncodable
BY PrintedFollows, Inductive, PTL

-----------------------------------------------------------------------------
(***************************************************************************)
(* The inductive invariant.  What the processor needs to know of the       *)
(* printed lines follows from what the visit methods put side by side, so  *)
(* it has a part for the assembly, one for the lines, and one for the      *)
(* machine.                                                                *)
(***************************************************************************)

(* A conditional instruction stands right behind its comparison; setcc     *)
(* has the clearing of its destination in between, with an immediate, so   *)
(* that it is printed as one mov.                                          *)
Decided(code, a) ==
  /\ code[a].kind = "JmpCC" => a > 1 /\ code[a - 1].kind = "Cmp"
  /\ code[a].kind = "SetCC" => /\ a > 2
                               /\ code[a - 1].kind = "Mov"
                               /\ code[a - 1].ops[1].type = "IMM"
                               /\ code[a - 2].kind = "Cmp"

(* The TACKY instructions that have been lowered. *)
Visited == IF phase = "visit" THEN next - 1 ELSE Len(tacky)

AsmInv ==
  /\ phase = "visit" => next <= Len(tacky) + 1
  /\ \A a \in 1..Len(asm_instructions) :
       /\ Decided(asm_instructions, a)
       /\ asm_instructions[a].kind \in {"Jmp", "JmpCC"} =>
            \E t \in 1..Len(tacky) : Jumps(tacky[t]) /\ tacky[t].target = asm_instructions[a].target
  /\ \A t \in 1..Visited : tacky[t].kind = "Label" =>
       \E a \in 1..Len(asm_instructions) :
         asm_instructions[a].kind = "Label" /\ asm_instructions[a].id = tacky[t].id
  /\ Visited > 0 /\ tacky[Visited].kind = "Return" =>
       /\ Len(asm_instructions) > 0
       /\ asm_instructions[Len(asm_instructions)].kind = "Ret"

(* A line in the middle of the function: it leaves the stack pointer and   *)
(* the frame pointer alone, and its memory operands are slots.             *)
Inner(l) ==
  /\ l.m \notin {"pushq", "popq", "movq", "ret"}
  /\ \A o \in {l.src, l.dst} : /\ IsSlot(o)
                               /\ o.type = "REG" => o.reg \in RegASM

(* A line of the exit of the function, which is printed as a whole. *)
Leaving(lines, i) ==
  \/ /\ lines[i] = Machine("movq", rbp, rsp)
     /\ i + 2 <= Len(lines)
     /\ lines[i + 1] = Machine("popq", None, rbp)
     /\ lines[i + 2] = Machine("ret", None, None)
  \/ /\ lines[i] = Machine("popq", None, rbp)
     /\ i > 3 /\ i + 1 <= Len(lines)
     /\ lines[i - 1] = Machine("movq", rbp, rsp)
     /\ lines[i + 1] = Machine("ret", None, None)
  \/ /\ lines[i] = Machine("ret", None, None)
     /\ i > 4
     /\ lines[i - 2] = Machine("movq", rbp, rsp)
     /\ lines[i - 1] = Machine("popq", None, rbp)

(* A conditional line stands behind a comparison. *)
Decides(lines, i) ==
  /\ lines[i].m = "j" => i > 3 /\ lines[i - 1].m = "cmpl"
  /\ lines[i].m = "set" => i > 4 /\ lines[i - 1].m = "movl" /\ lines[i - 2].m = "cmpl"

(* The assembly instructions that have been printed. *)
Printed == IF phase = "print" THEN next - 1 ELSE Len(asm_instructions)

(* What the last lines are, by the instruction they were printed for. *)
LastLines ==
  Printed > 0 =>
    /\ asm_instructions[Printed].kind = "Ret" => out[Len(out)].m = "ret"
    /\ asm_instructions[Printed].kind = "Cmp" => Len(out) > 2 /\ out[Len(out)].m = "cmpl"
    /\ /\ asm_instructions[Printed].kind = "Mov" /\ asm_instructions[Printed].ops[1].type = "IMM"
       /\ Printed > 1 /\ asm_instructions[Printed - 1].kind = "Cmp"
       => Len(out) > 3 /\ out[Len(out)].m = "movl" /\ out[Len(out) - 1].m = "cmpl"

OutInv ==
  phase \in {"print", "done"} =>
    /\ phase = "print" => next <= Len(asm_instructions) + 1
    /\ Len(out) >= 2
    /\ out[1] = Machine("pushq", rbp, None)
    /\ out[2] = Machine("movq", rsp, rbp)
    /\ \A i \in 3..Len(out) : Inner(out[i]) \/ Leaving(out, i)
    /\ \A i \in 3..Len(out) : Decides(out, i)
    /\ \A i \in 3..Len(out) : out[i].m \in {"j", "jmp"} =>
         \E a \in 1..Len(asm_instructions) :
           /\ asm_instructions[a].kind \in {"Jmp", "JmpCC"}
           /\ asm_instructions[a].target = out[i].label
    /\ \A a \in 1..Printed : asm_instructions[a].kind = "Label" =>
         \E i \in 3..Len(out) : out[i].m = "label" /\ out[i].label = asm_instructions[a].id
    /\ LastLines

(* What the processor may rely on once a well-formed function is compiled. *)
LoadedFunction ==
  /\ Len(out) >= 3
  /\ out[1] = Machine("pushq", rbp, None)
  /\ out[2] = Machine("movq", rsp, rbp)
  /\ \A i \in 3..Len(out) : Inner(out[i]) \/ Leaving(out, i)
  /\ \A i \in 3..Len(out) : Decides(out, i)
  /\ out[Len(out)].m = "ret"
  /\ \A i \in 3..Len(out) : out[i].m \in {"j", "jmp"} =>
       \E k \in 3..Len(out) : out[k].m = "label" /\ out[k].label = out[i].label

(* The two stack pointers and the saved quadword, by the place in the      *)
(* function: from the entry to the exit the frame is the function's own.   *)
StackShape ==
  /\ mem[Cpu!CallSite] = Cpu!ReturnAddress
  /\ ip = 1 \/ out[ip].m = "ret" =>
       reg["BP"] = Cpu!CallersFrame /\ reg["SP"] = Cpu!CallSite
  /\ ip > 1 /\ out[ip].m # "ret" =>
       /\ mem[0] = Cpu!CallersFrame /\ reg["SP"] = 0
       /\ reg["BP"] = IF ip = 2 THEN Cpu!CallersFrame ELSE 0

(* From a comparison to the instruction that decides on it the flags hold  *)
(* what it compared.                                                       *)
Owed(i) ==
  \/ out[i].m \in {"j", "set"}
  \/ out[i].m = "movl" /\ i < Len(out) /\ out[i + 1].m = "set"

MachineInv ==
  /\ status \in {"off", "on", "exited", "fault"}
  /\ status = "off" => ip = 1
  /\ status # "off" => phase = "done" /\ tacky \in Called
  /\ status = "on" =>
       /\ ip \in 1..Len(out)
       /\ DOMAIN reg = RegASM \cup {"SP", "BP"}
       /\ DOMAIN mem = Slots \cup {0, Cpu!CallSite}
       /\ StackShape
       /\ Owed(ip) => flags.valid
  /\ status = "exited" => reg["BP"] = Cpu!CallersFrame /\ reg["SP"] = Cpu!CallSite + 8

BackIInv == IInv /\ AsmInv /\ OutInv /\ MachineInv

-----------------------------------------------------------------------------
(* The assembly.  Every visit method appends a block of its own. *)

Block(body, i) ==
  /\ \A k \in 1..Len(body) :
       /\ Decided(body, k)
       /\ body[k].kind \in {"Jmp", "JmpCC"} => Jumps(i) /\ body[k].target = i.target
  /\ i.kind = "Label" => \E k \in 1..Len(body) : body[k].kind = "Label" /\ body[k].id = i.id
  /\ i.kind = "Return" => Len(body) > 0 /\ body[Len(body)].kind = "Ret"

LEMMA LowerBlock ==
  ASSUME NEW i \in TackyInstruction
  PROVE  Block(Lower(i), i)
<1>1. CASE i.kind = "Return"
  BY <1>1, LowerForms, SMTT(30) DEF Block, Decided, Mov, Ret
<1>2. CASE i.kind = "Unary"
  BY <1>2, LowerForms DEF Block, Decided, LowerUnary, Cmp, Mov, SetCC, UnaryASM, Immediate
<1>3. CASE i.kind = "Binary"
  <2> DEFINE src1 == convert_val(i.src1)
             src2 == convert_val(i.src2)
             dst == convert_val(i.dst)
  <2>1. Lower(i) = LowerBinary(i.op, src1, src2, dst)
    BY <1>3, LowerForms
  <2> HIDE DEF src1, src2, dst
  <2>2. CASE Lower(i) = Divided(i.op, src1, src2, dst)
    BY <1>3, <2>2 DEF Block, Decided, Divided, Cdq, Idiv, Mov
  <2>3. CASE Lower(i) = Related(i.op, src1, src2, dst)
    BY <1>3, <2>3 DEF Block, Decided, Related, Cmp, Mov, SetCC, Immediate
  <2>4. CASE Lower(i) = Computed(i.op, src1, src2, dst)
    BY <1>3, <2>4 DEF Block, Decided, Computed, BinaryASM, Mov
  <2> QED
    BY <2>1, <2>2, <2>3, <2>4 DEF LowerBinary
<1>4. CASE i.kind \in {"Copy", "Jump", "Label"}
  BY <1>4, LowerForms DEF Block, Decided, Mov, Jmp, AsmLabel, Jumps
<1>5. CASE i.kind \in {"JumpIfZero", "JumpIfNotZero"}
  BY <1>5, LowerForms DEF Block, Decided, Cmp, JmpCC, Jumps
<1> QED
  BY <1>1, <1>2, <1>3, <1>4, <1>5 DEF TackyInstruction

LEMMA DecidedElsewhere ==
  ASSUME NEW c, NEW d, NEW k \in Int, NEW a \in Int,
         Decided(c, k),
         d[a] = c[k],
         k > 1 => d[a - 1] = c[k - 1] /\ a > 1,
         k > 2 => d[a - 2] = c[k - 2] /\ a > 2
  PROVE  Decided(d, a)
BY DEF Decided

LEMMA AsmVisit ==
  ASSUME IInv, AsmInv, VisitInstruction, ~BeginAllocation
  PROVE  AsmInv'
<1> DEFINE asm  == asm_instructions
           body == Lower(tacky[next])
           n    == Len(asm)
           b    == Len(body)
<1>1. phase = "visit" /\ next <= Len(tacky) /\ PushBack(body)
  BY VisitLowers
<1>2. /\ next \in 1..Len(tacky) /\ tacky[next] \in TackyInstruction
      /\ next \in Nat /\ Len(tacky) \in Nat
  <2>1. tacky \in Seq(TackyInstruction) /\ next \in Nat \ {0} /\ Len(tacky) \in Nat
    BY LenProperties DEF IInv, TypeOK
  <2> QED
    BY <1>1, <2>1, ElementOfSeq
<1>3. body \in Seq(Fresh) /\ Block(body, tacky[next])
  BY <1>2, LowerFresh, LowerBlock
<1>4. body \in Seq(Lowered)
  BY <1>3, SeqMonotonic DEF Fresh
<1> HIDE DEF body
<1>5. /\ n \in Nat /\ b \in Nat
      /\ Len(asm') = n + b
      /\ \A i \in 1..n : asm'[i] = asm[i]
      /\ \A k \in 1..b : asm'[n + k] = body[k]
  <2>1. asm' = asm \o body
    BY <1>1 DEF PushBack
  <2>2. asm \in Seq(Lowered) /\ n \in Nat /\ b \in Nat
    BY <1>4, LenProperties DEF IInv
  <2>3. /\ Len(asm \o body) = n + b
        /\ \A i \in 1..n + b : (asm \o body)[i] = IF i <= n THEN asm[i] ELSE body[i - n]
    BY <1>4, <2>2, ConcatProperties
  <2> QED
    BY <2>1, <2>2, <2>3
<1>6. phase' = phase /\ tacky' = tacky /\ next' = next + 1
  BY <1>1 DEF PushBack
<1> HIDE DEF asm, n, b
<1>7. ASSUME NEW a \in 1..n + b
      PROVE  /\ Decided(asm', a)
             /\ asm'[a].kind \in {"Jmp", "JmpCC"} =>
                  \E t \in 1..Len(tacky) : Jumps(tacky[t]) /\ tacky[t].target = asm'[a].target
  <2>1. CASE a \in 1..n
    <3>1. /\ Decided(asm, a)
          /\ asm[a].kind \in {"Jmp", "JmpCC"} =>
               \E t \in 1..Len(tacky) : Jumps(tacky[t]) /\ tacky[t].target = asm[a].target
      BY <2>1 DEF AsmInv, asm, n
    <3>2. /\ asm'[a] = asm[a]
          /\ a > 1 => asm'[a - 1] = asm[a - 1]
          /\ a > 2 => asm'[a - 2] = asm[a - 2]
      BY <1>5, <2>1
    <3> QED
      BY <3>1, <3>2 DEF Decided
  <2>2. CASE a - n \in 1..b
    <3> DEFINE k == a - n
    <3>1. Decided(body, k) /\ (body[k].kind \in {"Jmp", "JmpCC"} =>
                                 Jumps(tacky[next]) /\ body[k].target = tacky[next].target)
      BY <1>3, <2>2 DEF Block, b
    <3>2. /\ asm'[a] = body[k]
          /\ k \in Int /\ a \in Int
          /\ k > 1 => asm'[a - 1] = body[k - 1] /\ a > 1
          /\ k > 2 => asm'[a - 2] = body[k - 2] /\ a > 2
      <4>1. /\ a = n + k /\ k \in Int /\ a \in Int
            /\ k > 1 => a - 1 = n + (k - 1) /\ k - 1 \in 1..b /\ a > 1
            /\ k > 2 => a - 2 = n + (k - 2) /\ k - 2 \in 1..b /\ a > 2
        BY <1>5, <2>2
      <4> HIDE DEF k
      <4> QED
        BY <1>5, <2>2, <4>1 DEF k
    <3> HIDE DEF k
    <3>3. Decided(asm', a)
      BY <3>1, <3>2, DecidedElsewhere
    <3>4. asm'[a].kind \in {"Jmp", "JmpCC"} =>
            Jumps(tacky[next]) /\ tacky[next].target = asm'[a].target
      BY <3>1, <3>2
    <3> QED
      BY <1>2, <3>3, <3>4
  <2> QED
    BY <1>5, <2>1, <2>2
<1>8. ASSUME NEW t \in 1..next, tacky[t].kind = "Label"
      PROVE  \E a \in 1..n + b : asm'[a].kind = "Label" /\ asm'[a].id = tacky[t].id
  <2>1. CASE t = next
    <3>1. PICK k \in 1..b : body[k].kind = "Label" /\ body[k].id = tacky[next].id
      BY <1>3, <1>8, <2>1 DEF Block, b
    <3>2. n + k \in 1..n + b /\ asm'[n + k] = body[k]
      BY <1>5
    <3> QED
      BY <2>1, <3>1, <3>2
  <2>2. CASE t # next
    <3>1. t \in 1..Visited
      BY <1>1, <1>2, <2>2 DEF Visited
    <3>2. PICK a \in 1..n : asm[a].kind = "Label" /\ asm[a].id = tacky[t].id
      BY <1>8, <3>1 DEF AsmInv, asm, n
    <3>3. a \in 1..n + b /\ asm'[a] = asm[a]
      BY <1>5
    <3> QED
      BY <3>2, <3>3
  <2> QED
    BY <2>1, <2>2
<1>9. tacky[next].kind = "Return" => n + b > 0 /\ asm'[n + b].kind = "Ret"
  <2> SUFFICES ASSUME tacky[next].kind = "Return" PROVE n + b > 0 /\ asm'[n + b].kind = "Ret"
    OBVIOUS
  <2>1. b > 0 /\ body[b].kind = "Ret"
    BY <1>3 DEF Block, b
  <2> QED
    BY <1>5, <2>1
<1>10. Visited' = next
  BY <1>1, <1>2, <1>6 DEF Visited
<1> QED
  BY <1>1, <1>2, <1>5, <1>6, <1>7, <1>8, <1>9, <1>10 DEF AsmInv, asm

(* The other steps keep what the assembly is made of: allocate_pseudo puts *)
(* slots where pseudo-registers were, and no more.                         *)
SameMake ==
  /\ Len(asm_instructions') = Len(asm_instructions)
  /\ \A a \in 1..Len(asm_instructions) :
       LET i == asm_instructions[a]
           j == asm_instructions'[a]
       IN  /\ j.kind = i.kind
           /\ i.kind \in {"Jmp", "JmpCC"} => j.target = i.target
           /\ i.kind = "Label" => j.id = i.id
           /\ i.kind = "Mov" /\ i.ops[1].type = "IMM" => j.ops[1].type = "IMM"

LEMMA AsmKept ==
  ASSUME IInv, AsmInv, SameMake, tacky' = tacky,
         phase' = "visit" => next' <= Len(tacky) + 1,
         Visited' = Visited
  PROVE  AsmInv'
<1> DEFINE asm == asm_instructions
           n == Len(asm_instructions)
<1>1. /\ n \in Nat /\ Len(asm') = n
      /\ \A a \in 1..n : /\ asm'[a].kind = asm[a].kind
                         /\ asm[a].kind \in {"Jmp", "JmpCC"} => asm'[a].target = asm[a].target
                         /\ asm[a].kind = "Label" => asm'[a].id = asm[a].id
                         /\ asm[a].kind = "Mov" /\ asm[a].ops[1].type = "IMM" =>
                              asm'[a].ops[1].type = "IMM"
  BY LenProperties DEF IInv, SameMake
<1>2. /\ \A a \in 1..n :
           /\ Decided(asm, a)
           /\ asm[a].kind \in {"Jmp", "JmpCC"} =>
                \E t \in 1..Len(tacky) : Jumps(tacky[t]) /\ tacky[t].target = asm[a].target
      /\ \A t \in 1..Visited : tacky[t].kind = "Label" =>
           \E a \in 1..n : asm[a].kind = "Label" /\ asm[a].id = tacky[t].id
      /\ Visited > 0 /\ tacky[Visited].kind = "Return" => n > 0 /\ asm[n].kind = "Ret"
  BY DEF AsmInv
<1> HIDE DEF asm, n
<1>3. ASSUME NEW a \in 1..n
      PROVE  Decided(asm', a)
  <2>1. Decided(asm, a) /\ a \in Int
    BY <1>2
  <2>2. /\ a > 1 => a - 1 \in 1..n
        /\ a > 2 => a - 2 \in 1..n
    BY <1>1
  <2> QED
    BY <1>1, <2>1, <2>2 DEF Decided
<1>4. ASSUME NEW a \in 1..n, asm'[a].kind \in {"Jmp", "JmpCC"}
      PROVE  \E t \in 1..Len(tacky) : Jumps(tacky[t]) /\ tacky[t].target = asm'[a].target
  BY <1>1, <1>2, <1>4
<1>5. ASSUME NEW t \in 1..Visited, tacky[t].kind = "Label"
      PROVE  \E a \in 1..n : asm'[a].kind = "Label" /\ asm'[a].id = tacky[t].id
  BY <1>1, <1>2, <1>5
<1>6. Visited > 0 /\ tacky[Visited].kind = "Return" => n > 0 /\ asm'[n].kind = "Ret"
  BY <1>1, <1>2
<1> QED
  BY <1>1, <1>3, <1>4, <1>5, <1>6 DEF AsmInv, asm

LEMMA ReplacedKeeps ==
  ASSUME NEW i \in AsmInstruction, NEW ops
  PROVE  LET j == [i EXCEPT !.ops = ops]
         IN  /\ j.kind = i.kind
             /\ i.kind \in {"Jmp", "JmpCC"} => j.target = i.target
             /\ i.kind = "Label" => j.id = i.id
BY DEF AsmInstruction

LEMMA ReplaceMake ==
  ASSUME IInv, AtOperand, Here.type = "PSEUDO", NEW offset \in Int, Replace(offset)
  PROVE  SameMake
<1> DEFINE asm == asm_instructions
           ops == [asm[next].ops EXCEPT ![operand] = Stack(offset)]
           new == [asm[next] EXCEPT !.ops = ops]
<1>1. /\ next \in 1..Len(asm)
      /\ operand \in 1..Len(asm[next].ops)
      /\ Len(asm') = Len(asm)
      /\ \A i \in 1..Len(asm) : \A k \in 1..Len(asm[i].ops) :
           asm'[i].ops[k] = IF i = next /\ k = operand THEN Stack(offset) ELSE asm[i].ops[k]
  BY PlacedOperand
<1>2. asm \in Seq(Lowered) /\ Len(asm) \in Nat
  BY LenProperties DEF IInv
<1>3. asm' = [asm EXCEPT ![next] = new]
  BY DEF Replace
<1>4. asm[next] \in AsmInstruction
  BY <1>1, <1>2, ElementOfSeq DEF Lowered
<1>5. /\ new.kind = asm[next].kind
      /\ asm[next].kind \in {"Jmp", "JmpCC"} => new.target = asm[next].target
      /\ asm[next].kind = "Label" => new.id = asm[next].id
  BY <1>4, ReplacedKeeps
<1>6. asm[next].ops[operand].type = "PSEUDO"
  BY DEF Here
<1> HIDE DEF ops, new
<1>7. \A a \in 1..Len(asm) : asm'[a] = IF a = next THEN new ELSE asm[a]
  BY <1>1, <1>2, <1>3
<1>8. ASSUME NEW a \in 1..Len(asm), asm[a].kind = "Mov", asm[a].ops[1].type = "IMM"
      PROVE  asm'[a].ops[1].type = "IMM"
  <2>1. asm[a] \in Lowered
    BY <1>2, ElementOfSeq
  <2>2. 1 \in 1..Len(asm[a].ops)
    BY <1>8, <2>1 DEF Lowered, Fits
  <2> HIDE DEF asm
  <2> QED
    BY <1>1, <1>6, <1>8, <2>2
<1> HIDE DEF asm
<1>9. \A a \in 1..Len(asm) :
        /\ asm'[a].kind = asm[a].kind
        /\ asm[a].kind \in {"Jmp", "JmpCC"} => asm'[a].target = asm[a].target
        /\ asm[a].kind = "Label" => asm'[a].id = asm[a].id
  BY <1>5, <1>7
<1> QED
  BY <1>1, <1>8, <1>9 DEF SameMake, asm

LEMMA AsmStep ==
  ASSUME IInv, AsmInv, Next
  PROVE  AsmInv'
<1>1. CASE VisitInstruction /\ ~BeginAllocation
  BY <1>1, AsmVisit
<1>2. CASE BeginAllocation
  <2>1. /\ phase = "visit" /\ next > Len(tacky) /\ phase' = "allocate"
        /\ UNCHANGED <<tacky, asm_instructions>>
    BY <1>2 DEF BeginAllocation
  <2>2. next \in Nat /\ Len(tacky) \in Nat
    BY LenProperties DEF IInv, TypeOK
  <2>3. Visited' = Visited
    BY <2>1, <2>2 DEF Visited, AsmInv
  <2> QED
    BY <2>1, <2>3, AsmKept DEF SameMake
<1>3. CASE ReplaceNewPseudo
  <2>1. /\ AtOperand /\ Here.type = "PSEUDO" /\ Replace(cur_offset - 4)
        /\ cur_offset - 4 \in Int
        /\ phase = "allocate" /\ phase' = phase /\ tacky' = tacky
    BY <1>3 DEF ReplaceNewPseudo, AtOperand, IInv, TypeOK
  <2> QED
    BY <2>1, ReplaceMake, AsmKept DEF Visited
<1>4. CASE ReplaceKnownPseudo
  <2>1. /\ AtOperand /\ Here.type = "PSEUDO" /\ Replace(offset_map[Here.id])
        /\ offset_map[Here.id] \in Int
        /\ phase = "allocate" /\ phase' = phase /\ tacky' = tacky
    BY <1>4 DEF ReplaceKnownPseudo, AtOperand, IInv, TypeOK
  <2> QED
    BY <2>1, ReplaceMake, AsmKept DEF Visited
<1>5. CASE KeepOperand \/ NextInstruction \/ BeginPrinting \/ PrintInstruction \/ EndPrinting
  <2>1. /\ phase # "visit" /\ phase' # "visit"
        /\ UNCHANGED <<tacky, asm_instructions>>
    BY <1>5 DEF KeepOperand, AtOperand, NextInstruction, BeginPrinting, PrintInstruction,
       EndPrinting
  <2> QED
    BY <2>1, AsmKept DEF SameMake, Visited
<1> QED
  BY <1>1, <1>2, <1>3, <1>4, <1>5 DEF Next, VisitInstruction, AllocatePseudo

LEMMA AsmInit == Init => AsmInv
<1> SUFFICES ASSUME Init PROVE AsmInv
  OBVIOUS
<1>1. phase = "visit" /\ next = 1 /\ asm_instructions = <<>> /\ Len(tacky) \in Nat
  BY TackyCodeAssumption, LenProperties DEF Init, CodeGenStart
<1>2. Len(asm_instructions) = 0
  BY <1>1, EmptySeq
<1> QED
  BY <1>1, <1>2 DEF AsmInv, Visited

-----------------------------------------------------------------------------
(* The lines. *)

PrintedFor(lines, i) ==
  /\ i.kind # "Ret" => \A k \in 1..Len(lines) : Inner(lines[k])
  /\ i.kind = "Ret" => lines = PrintRet
  /\ \A k \in 1..Len(lines) :
       /\ lines[k].m = "j" => i.kind = "JmpCC" /\ k = 1
       /\ lines[k].m = "set" => i.kind = "SetCC" /\ k = 1
       /\ lines[k].m \in {"j", "jmp"} =>
            i.kind \in {"Jmp", "JmpCC"} /\ lines[k].label = i.target
  /\ i.kind = "Label" => Len(lines) > 0 /\ lines[1].m = "label" /\ lines[1].label = i.id
  /\ i.kind = "Cmp" => Len(lines) > 0 /\ lines[Len(lines)].m = "cmpl"
  /\ i.kind = "Mov" /\ i.ops[1].type = "IMM" => Len(lines) = 1 /\ lines[1].m = "movl"

(* The operands that a placed instruction is printed with. *)
Settled(o) == o \in Located /\ IsSlot(o)

Usable(o) == Settled(o) \/ o \in {None, r10d, r11d}

Plain == {"movl", "addl", "subl", "imull", "notl", "negl", "cmpl", "idivl", "cdq"}

LEMMA InnerLine ==
  \A m \in Plain : \A s, d :
    Usable(s) /\ Usable(d) => Inner(Machine(m, s, d)) /\ Machine(m, s, d).m = m
<1> SUFFICES ASSUME NEW m \in Plain, NEW s, NEW d, Usable(s), Usable(d)
             PROVE  Inner(Machine(m, s, d)) /\ Machine(m, s, d).m = m
  OBVIOUS
<1>1. \A o \in {s, d} : IsSlot(o) /\ (o.type = "REG" => o.reg \in RegASM)
  <2> SUFFICES ASSUME NEW o, Usable(o)
               PROVE  IsSlot(o) /\ (o.type = "REG" => o.reg \in RegASM)
    OBVIOUS
  <2>1. CASE Settled(o)
    BY <2>1 DEF Settled, Located, AsmOperand, Value, Reg, Unplaced, Placed
  <2>2. CASE o \in {None, r10d, r11d}
    BY <2>2 DEF None, r10d, r11d, Register, IsSlot, InMemory, RegASM
  <2> QED
    BY <2>1, <2>2 DEF Usable
<1> QED
  BY <1>1 DEF Inner, Machine, Plain

LEMMA UsableOperands ==
  /\ Usable(None) /\ Usable(r10d) /\ Usable(r11d)
  /\ \A o : Settled(o) => Usable(o)
BY DEF Usable

LEMMA InnerBranch ==
  ASSUME NEW m \in {"jmp", "j", "label"}, NEW cc, NEW l
  PROVE  /\ Inner(Branching(m, cc, l))
         /\ Branching(m, cc, l).m = m /\ Branching(m, cc, l).label = l
BY DEF Inner, Branching, None, IsSlot, InMemory

LEMMA InnerSetting ==
  ASSUME NEW cc, NEW d, Settled(d)
  PROVE  Inner(Setting(cc, d))
<1>1. d.type = "REG" => d.reg \in RegASM
  BY DEF Settled, Located, AsmOperand, Value, Reg, Unplaced, Placed
<1> QED
  BY <1>1 DEF Inner, Setting, None, IsSlot, InMemory, Settled

LEMMA TwoOperandLines ==
  ASSUME NEW s, Settled(s), NEW d, Settled(d), NEW op \in BinaryOpASM
  PROVE  /\ \A k \in 1..Len(PrintMov(s, d)) : Inner(PrintMov(s, d)[k])
                                               /\ PrintMov(s, d)[k].m = "movl"
         /\ s.type = "IMM" => Len(PrintMov(s, d)) = 1
         /\ \A k \in 1..Len(PrintCmp(s, d)) : Inner(PrintCmp(s, d)[k])
                                               /\ PrintCmp(s, d)[k].m \in {"movl", "cmpl"}
         /\ Len(PrintCmp(s, d)) > 0 /\ PrintCmp(s, d)[Len(PrintCmp(s, d))].m = "cmpl"
         /\ \A k \in 1..Len(PrintBinary(op, s, d)) :
              /\ Inner(PrintBinary(op, s, d)[k])
              /\ PrintBinary(op, s, d)[k].m \in {"movl", "addl", "subl", "imull"}
<1>1. \A m \in {"movl", "cmpl", "addl", "subl", "imull"} :
        \A a, b \in {s, d, r10d, r11d} : Inner(Machine(m, a, b)) /\ Machine(m, a, b).m = m
  BY InnerLine, UsableOperands DEF Plain
<1>2. \A k \in 1..Len(PrintMov(s, d)) : Inner(PrintMov(s, d)[k]) /\ PrintMov(s, d)[k].m = "movl"
  BY <1>1 DEF PrintMov
<1>3. s.type = "IMM" => Len(PrintMov(s, d)) = 1
  BY DEF PrintMov, InMemory
<1>4. /\ \A k \in 1..Len(PrintCmp(s, d)) : Inner(PrintCmp(s, d)[k])
                                           /\ PrintCmp(s, d)[k].m \in {"movl", "cmpl"}
      /\ Len(PrintCmp(s, d)) > 0 /\ PrintCmp(s, d)[Len(PrintCmp(s, d))].m = "cmpl"
  BY <1>1 DEF PrintCmp
<1>5. Mnemonic[op] \in {"addl", "subl", "imull"}
  BY DEF Mnemonic, BinaryOpASM
<1>6. \A k \in 1..Len(PrintBinary(op, s, d)) :
        /\ Inner(PrintBinary(op, s, d)[k])
        /\ PrintBinary(op, s, d)[k].m \in {"movl", "addl", "subl", "imull"}
  BY <1>1, <1>5 DEF PrintBinary
<1> QED
  BY <1>2, <1>3, <1>4, <1>6

LEMMA OneOperandLines ==
  ASSUME NEW o, Settled(o), NEW op \in UnaryOpASM
  PROVE  /\ \A k \in 1..Len(PrintUnary(op, o)) :
              Inner(PrintUnary(op, o)[k]) /\ PrintUnary(op, o)[k].m \in {"notl", "negl"}
         /\ \A k \in 1..Len(PrintIdiv(o)) :
              Inner(PrintIdiv(o)[k]) /\ PrintIdiv(o)[k].m \in {"movl", "idivl"}
<1>1. \A m \in {"notl", "negl", "movl", "idivl"} :
        \A a, b \in {None, o, r10d} : Inner(Machine(m, a, b)) /\ Machine(m, a, b).m = m
  BY InnerLine, UsableOperands DEF Plain
<1> QED
  BY <1>1 DEF PrintUnary, PrintIdiv

(* The instructions that are printed in plain lines. *)
LEMMA PlainLines ==
  ASSUME NEW lines, NEW i, i.kind \notin {"Ret", "Jmp", "JmpCC", "Label", "SetCC"},
         \A k \in 1..Len(lines) : Inner(lines[k]) /\ lines[k].m \in Plain,
         i.kind = "Cmp" => Len(lines) > 0 /\ lines[Len(lines)].m = "cmpl",
         i.kind = "Mov" /\ i.ops[1].type = "IMM" => Len(lines) = 1 /\ lines[1].m = "movl"
  PROVE  PrintedFor(lines, i)
BY DEF PrintedFor, Plain

LEMMA GeneratedLines ==
  ASSUME NEW i \in Lowered, \A k \in 1..Len(i.ops) : Settled(i.ops[k])
  PROVE  PrintedFor(code_gen(i), i)
<1>1. i \in AsmInstruction /\ Fits(i)
  BY DEF Lowered
<1>2. CASE i.kind = "Mov"
  <2> DEFINE lines == PrintMov(i.ops[1], i.ops[2])
  <2>1. Settled(i.ops[1]) /\ Settled(i.ops[2]) /\ code_gen(i) = lines
    BY <1>1, <1>2 DEF Fits, code_gen
  <2>2. /\ \A k \in 1..Len(lines) : Inner(lines[k]) /\ lines[k].m \in Plain
        /\ i.ops[1].type = "IMM" => Len(lines) = 1 /\ lines[1].m = "movl"
    BY <2>1, TwoOperandLines DEF BinaryOpASM, Plain
  <2> HIDE DEF lines
  <2> QED
    BY <1>2, <2>1, <2>2, PlainLines
<1>3. CASE i.kind = "Cmp"
  <2> DEFINE lines == PrintCmp(i.ops[1], i.ops[2])
  <2>1. Settled(i.ops[1]) /\ Settled(i.ops[2]) /\ code_gen(i) = lines
    BY <1>1, <1>3 DEF Fits, code_gen
  <2>2. /\ \A k \in 1..Len(lines) : Inner(lines[k]) /\ lines[k].m \in Plain
        /\ Len(lines) > 0 /\ lines[Len(lines)].m = "cmpl"
    BY <2>1, TwoOperandLines DEF BinaryOpASM, Plain
  <2> HIDE DEF lines
  <2> QED
    BY <1>3, <2>1, <2>2, PlainLines
<1>4. CASE i.kind = "Binary"
  <2> DEFINE lines == PrintBinary(i.op, i.ops[1], i.ops[2])
  <2>1. /\ Settled(i.ops[1]) /\ Settled(i.ops[2]) /\ i.op \in BinaryOpASM
        /\ code_gen(i) = lines
    BY <1>1, <1>4, AsmFields DEF Fits, code_gen
  <2>2. \A k \in 1..Len(lines) : Inner(lines[k]) /\ lines[k].m \in Plain
    BY <2>1, TwoOperandLines DEF Plain
  <2> HIDE DEF lines
  <2> QED
    BY <1>4, <2>1, <2>2, PlainLines
<1>5. CASE i.kind = "Unary"
  <2> DEFINE lines == PrintUnary(i.op, i.ops[1])
  <2>1. Settled(i.ops[1]) /\ i.op \in UnaryOpASM /\ code_gen(i) = lines
    BY <1>1, <1>5, AsmFields DEF Fits, code_gen
  <2>2. \A k \in 1..Len(lines) : Inner(lines[k]) /\ lines[k].m \in Plain
    BY <2>1, OneOperandLines DEF Plain
  <2> HIDE DEF lines
  <2> QED
    BY <1>5, <2>1, <2>2, PlainLines
<1>6. CASE i.kind = "Idiv"
  <2> DEFINE lines == PrintIdiv(i.ops[1])
  <2>1. Settled(i.ops[1]) /\ code_gen(i) = lines
    BY <1>1, <1>6 DEF Fits, code_gen
  <2>2. \A k \in 1..Len(lines) : Inner(lines[k]) /\ lines[k].m \in Plain
    BY <2>1, OneOperandLines DEF Plain, UnaryOpASM
  <2> HIDE DEF lines
  <2> QED
    BY <1>6, <2>1, <2>2, PlainLines
<1>7. CASE i.kind = "SetCC"
  <2>1. Settled(i.ops[1]) /\ code_gen(i) = <<Setting(i.cc, i.ops[1])>>
    BY <1>1, <1>7 DEF Fits, code_gen
  <2>2. Inner(Setting(i.cc, i.ops[1])) /\ Setting(i.cc, i.ops[1]).m = "set"
    BY <2>1, InnerSetting DEF Setting
  <2> QED
    BY <1>7, <2>1, <2>2 DEF PrintedFor
<1>8. CASE i.kind = "Cdq"
  <2> DEFINE line == Machine("cdq", None, None)
  <2>1. code_gen(i) = <<line>>
    BY <1>8 DEF code_gen
  <2>2. Inner(line) /\ line.m = "cdq"
    BY InnerLine, UsableOperands DEF Plain
  <2> HIDE DEF line
  <2> QED
    BY <1>8, <2>1, <2>2 DEF PrintedFor
<1>9. CASE i.kind = "Ret"
  <2>1. code_gen(i) = PrintRet
    BY <1>9 DEF code_gen
  <2>2. /\ Len(PrintRet) = 3
        /\ PrintRet[1].m = "movq" /\ PrintRet[2].m = "popq" /\ PrintRet[3].m = "ret"
    BY DEF PrintRet, Machine
  <2> QED
    BY <1>9, <2>1, <2>2 DEF PrintedFor
<1>10. CASE i.kind = "Jmp"
  <2> DEFINE cc == ""
             line == Branching("jmp", cc, i.target)
  <2>1. code_gen(i) = <<line>>
    BY <1>10 DEF code_gen
  <2> HIDE DEF cc
  <2>2. Inner(line) /\ line.m = "jmp" /\ line.label = i.target
    BY InnerBranch
  <2> HIDE DEF line
  <2> QED
    BY <1>10, <2>1, <2>2 DEF PrintedFor
<1>11. CASE i.kind = "JmpCC"
  <2> DEFINE line == Branching("j", i.cc, i.target)
  <2>1. code_gen(i) = <<line>>
    BY <1>11 DEF code_gen
  <2>2. Inner(line) /\ line.m = "j" /\ line.label = i.target
    BY InnerBranch
  <2> HIDE DEF line
  <2> QED
    BY <1>11, <2>1, <2>2 DEF PrintedFor
<1>12. CASE i.kind = "Label"
  <2> DEFINE cc == ""
             line == Branching("label", cc, i.id)
  <2>1. code_gen(i) = <<line>>
    BY <1>12 DEF code_gen
  <2> HIDE DEF cc
  <2>2. Inner(line) /\ line.m = "label" /\ line.label = i.id
    BY InnerBranch
  <2> HIDE DEF line
  <2> QED
    BY <1>12, <2>1, <2>2 DEF PrintedFor
<1> QED
  BY <1>1, <1>2, <1>3, <1>4, <1>5, <1>6, <1>7, <1>8, <1>9, <1>10, <1>11, <1>12, AsmFields

LEMMA OutBegin ==
  ASSUME IInv, BeginPrinting
  PROVE  OutInv'
<1>1. phase' = "print" /\ next' = 1 /\ out' = Prologue /\ asm_instructions' = asm_instructions
  BY DEF BeginPrinting
<1>2. Printed' = 0
  BY <1>1 DEF Printed
<1>3. Len(asm_instructions) \in Nat
  BY LenProperties DEF IInv
<1>4. Len(out') = 2
  BY <1>1 DEF Prologue
<1>5. out'[1] = Machine("pushq", rbp, None) /\ out'[2] = Machine("movq", rsp, rbp)
  BY <1>1 DEF Prologue
<1> QED
  BY <1>1, <1>2, <1>3, <1>4, <1>5 DEF OutInv, LastLines

(* The exit, as it is printed. *)
LEMMA ExitLines ==
  /\ Len(PrintRet) = 3
  /\ PrintRet[1] = Machine("movq", rbp, rsp) /\ PrintRet[2] = Machine("popq", None, rbp)
  /\ PrintRet[3] = Machine("ret", None, None) /\ PrintRet[3].m = "ret"
BY DEF PrintRet, Machine

LEMMA LinesOfNext ==
  ASSUME IInv, phase = "print", next <= Len(asm_instructions)
  PROVE  /\ asm_instructions[next] \in Lowered
         /\ code_gen(asm_instructions[next]) \in Seq(EncodableLine)
         /\ PrintedFor(code_gen(asm_instructions[next]), asm_instructions[next])
<1> DEFINE i == asm_instructions[next]
<1>1. next \in 1..Len(asm_instructions) /\ asm_instructions \in Seq(Lowered)
  BY LenProperties DEF IInv, TypeOK
<1>2. i \in Lowered
  BY <1>1, ElementOfSeq
<1>3. \A k \in 1..Len(i.ops) : i.ops[k].type # "PSEUDO" /\ IsSlot(i.ops[k])
  BY <1>1 DEF IInv, PassedPlaced, Passed, SlotsNamed
<1>4. \A k \in 1..Len(i.ops) : i.ops[k] \in AsmOperand
  BY <1>2, AsmFields, ElementOfSeq DEF Lowered
<1>5. \A k \in 1..Len(i.ops) : Settled(i.ops[k])
  BY <1>3, <1>4 DEF Settled, Located
<1> HIDE DEF i
<1>6. code_gen(i) \in Seq(EncodableLine)
  BY <1>2, <1>3, CodeGenEncodable
<1>7. PrintedFor(code_gen(i), i)
  BY <1>2, <1>5, GeneratedLines
<1> QED
  BY <1>2, <1>6, <1>7 DEF i

LEMMA OutPrint ==
  ASSUME IInv, AsmInv, OutInv, PrintInstruction
  PROVE  OutInv'
<1> DEFINE asm   == asm_instructions
           i     == asm[next]
           lines == code_gen(i)
           n     == Len(out)
           l     == Len(lines)
<1>1. /\ phase = "print" /\ next <= Len(asm) /\ next' = next + 1
      /\ out' = out \o lines
      /\ phase' = phase /\ asm' = asm /\ offset_map' = offset_map
  BY DEF PrintInstruction
<1>2. next \in 1..Len(asm) /\ Len(asm) \in Nat /\ next \in Nat
  BY <1>1, LenProperties DEF IInv, TypeOK
<1>3. lines \in Seq(EncodableLine) /\ PrintedFor(lines, i)
  BY <1>1, LinesOfNext
<1>4. Decided(asm, next)
  BY <1>2 DEF AsmInv
<1>5. /\ n >= 2
      /\ out[1] = Machine("pushq", rbp, None) /\ out[2] = Machine("movq", rsp, rbp)
      /\ \A k \in 3..n : Inner(out[k]) \/ Leaving(out, k)
      /\ \A k \in 3..n : Decides(out, k)
      /\ \A k \in 3..n : out[k].m \in {"j", "jmp"} =>
           \E a \in 1..Len(asm) : asm[a].kind \in {"Jmp", "JmpCC"} /\ asm[a].target = out[k].label
      /\ \A a \in 1..next - 1 : asm[a].kind = "Label" =>
           \E k \in 3..n : out[k].m = "label" /\ out[k].label = asm[a].id
  BY <1>1 DEF OutInv, Printed
<1>6. next - 1 > 0 =>
        /\ asm[next - 1].kind = "Cmp" => n > 2 /\ out[n].m = "cmpl"
        /\ /\ asm[next - 1].kind = "Mov" /\ asm[next - 1].ops[1].type = "IMM"
           /\ next - 1 > 1 /\ asm[next - 2].kind = "Cmp"
           => n > 3 /\ out[n].m = "movl" /\ out[n - 1].m = "cmpl"
  <2>1. Printed = next - 1 /\ LastLines /\ Printed - 1 = next - 2
    BY <1>1, <1>2 DEF OutInv, Printed
  <2> QED
    BY <2>1 DEF LastLines
<1> HIDE DEF i, lines
<1>7. /\ n \in Nat /\ l \in Nat
      /\ Len(out') = n + l
      /\ \A k \in 1..n : out'[k] = out[k]
      /\ \A k \in 1..l : out'[n + k] = lines[k]
  <2>1. out \in Seq(EncodableLine) /\ n \in Nat /\ l \in Nat
    BY <1>3, LenProperties DEF IInv
  <2>2. /\ Len(out \o lines) = n + l
        /\ \A k \in 1..n + l : (out \o lines)[k] = IF k <= n THEN out[k] ELSE lines[k - n]
    BY <1>3, <2>1, ConcatProperties
  <2> QED
    BY <1>1, <2>1, <2>2
<1> HIDE DEF asm, n, l
<1>8. \A k \in 3..n + l : k \in 3..n \/ \E q \in 1..l : k = n + q
  <2> TAKE k \in 3..n + l
  <2>1. k \in 3..n \/ (k - n \in 1..l /\ k = n + (k - n))
    BY <1>7
  <2> QED
    BY <2>1
<1>9. \A k \in 3..n : k \in 1..n
  OBVIOUS
<1>10. \A q \in 1..l : n + q \in 3..n + l
  BY <1>5, <1>7
<1>11. ASSUME NEW k \in 3..n + l
       PROVE  (Inner(out[k]) \/ Leaving(out, k))'
  <2>1. CASE k \in 3..n
    <3>1. CASE Inner(out[k])
      BY <1>1, <1>7, <1>9, <2>1, <3>1 DEF Inner, IsSlot
    <3>2. CASE Leaving(out, k)
      <4>1. /\ out'[k] = out[k]
            /\ k + 1 <= n => out'[k + 1] = out[k + 1]
            /\ k + 2 <= n => out'[k + 2] = out[k + 2] /\ k + 1 <= n
            /\ out'[k - 1] = out[k - 1] /\ out'[k - 2] = out[k - 2]
            /\ n <= n + l /\ n \in Int /\ n + l \in Int
        BY <1>7, <2>1
      <4> QED
        BY <1>7, <2>1, <3>2, <4>1 DEF Leaving, n
    <3> QED
      BY <1>5, <2>1, <3>1, <3>2
  <2>2. ASSUME NEW q \in 1..l, k = n + q PROVE (Inner(out[k]) \/ Leaving(out, k))'
    <3>1. CASE i.kind # "Ret"
      <4>1. Inner(lines[q]) /\ out'[k] = lines[q]
        BY <1>3, <1>7, <2>2, <3>1 DEF PrintedFor, l
      <4> QED
        BY <1>1, <4>1 DEF Inner, IsSlot
    <3>2. CASE i.kind = "Ret"
      <4>1. lines = PrintRet /\ l = 3
        BY <1>3, <3>2, ExitLines DEF PrintedFor, l
      <4>2. /\ out'[n + 1] = Machine("movq", rbp, rsp)
            /\ out'[n + 2] = Machine("popq", None, rbp)
            /\ out'[n + 3] = Machine("ret", None, None)
            /\ Len(out') = n + 3
        BY <1>7, <4>1, ExitLines
      <4>3. n >= 2 /\ n \in Nat
        BY <1>5, <1>7
      <4>4. k = n + 1 \/ k = n + 2 \/ k = n + 3
        BY <2>2, <4>1
      <4>5. CASE k = n + 1
        <5>1. k + 1 = n + 2 /\ k + 2 = n + 3
          BY <4>3, <4>5
        <5> QED
          BY <4>2, <4>3, <4>5, <5>1 DEF Leaving
      <4>6. CASE k = n + 2
        <5>1. k + 1 = n + 3 /\ k - 1 = n + 1 /\ k > 3
          BY <4>3, <4>6
        <5> QED
          BY <4>2, <4>3, <4>6, <5>1 DEF Leaving
      <4>7. CASE k = n + 3
        <5>1. k - 1 = n + 2 /\ k - 2 = n + 1 /\ k > 4
          BY <4>3, <4>7
        <5> QED
          BY <4>2, <4>3, <4>7, <5>1 DEF Leaving
      <4> QED
        BY <4>4, <4>5, <4>6, <4>7
    <3> QED
      BY <3>1, <3>2
  <2> QED
    BY <1>8, <2>1, <2>2
<1>12. ASSUME NEW k \in 3..n + l
       PROVE  Decides(out, k)'
  <2>1. CASE k \in 3..n
    <3>1. out'[k] = out[k] /\ out'[k - 1] = out[k - 1] /\ out'[k - 2] = out[k - 2]
      BY <1>7, <2>1
    <3> QED
      BY <1>5, <2>1, <3>1 DEF Decides
  <2>2. ASSUME NEW q \in 1..l, k = n + q PROVE Decides(out, k)'
    <3>1. /\ lines[q].m = "j" => i.kind = "JmpCC" /\ q = 1
          /\ lines[q].m = "set" => i.kind = "SetCC" /\ q = 1
          /\ out'[k] = lines[q]
      BY <1>3, <1>7, <2>2 DEF PrintedFor, l
    <3>2. i.kind = "JmpCC" => n > 2 /\ out[n].m = "cmpl"
      BY <1>2, <1>4, <1>6 DEF Decided, i
    <3>3. i.kind = "SetCC" => n > 3 /\ out[n].m = "movl" /\ out[n - 1].m = "cmpl"
      BY <1>2, <1>4, <1>6 DEF Decided, i
    <3>4. /\ n > 2 => out'[n] = out[n] /\ out'[n - 1] = out[n - 1]
          /\ q = 1 => k - 1 = n /\ k - 2 = n - 1 /\ k = n + 1
          /\ n > 2 => n + 1 > 3
          /\ n > 3 => n + 1 > 4 /\ n > 2
      BY <1>7, <2>2
    <3> QED
      BY <3>1, <3>2, <3>3, <3>4 DEF Decides
  <2> QED
    BY <1>8, <2>1, <2>2
<1>13. ASSUME NEW k \in 3..n + l, out'[k].m \in {"j", "jmp"}
       PROVE  \E a \in 1..Len(asm) :
                asm[a].kind \in {"Jmp", "JmpCC"} /\ asm[a].target = out'[k].label
  <2>1. CASE k \in 3..n
    BY <1>5, <1>7, <1>9, <1>13, <2>1
  <2>2. ASSUME NEW q \in 1..l, k = n + q
        PROVE  asm[next].kind \in {"Jmp", "JmpCC"} /\ asm[next].target = out'[k].label
    BY <1>3, <1>7, <1>13, <2>2 DEF PrintedFor, i, l
  <2> QED
    BY <1>2, <1>8, <2>1, <2>2
<1>14. ASSUME NEW a \in 1..next, asm[a].kind = "Label"
       PROVE  \E k \in 3..n + l : out'[k].m = "label" /\ out'[k].label = asm[a].id
  <2>1. CASE a = next
    <3>1. l > 0 /\ lines[1].m = "label" /\ lines[1].label = asm[a].id
      BY <1>3, <1>14, <2>1 DEF PrintedFor, i, l
    <3>2. 1 \in 1..l
      BY <1>7, <3>1
    <3> QED
      BY <1>7, <1>10, <3>1, <3>2, SMTT(30)
  <2>2. CASE a # next
    <3>1. a \in 1..next - 1
      BY <1>2, <2>2
    <3>2. PICK k \in 3..n : out[k].m = "label" /\ out[k].label = asm[a].id
      BY <1>5, <1>14, <3>1
    <3>3. k \in 3..n + l /\ out'[k] = out[k]
      BY <1>7
    <3> QED
      BY <3>2, <3>3
  <2> QED
    BY <2>1, <2>2
<1>15. LastLines'
  <2>1. Printed' = next
    BY <1>1, <1>2 DEF Printed
  <2>2. i.kind = "Ret" => out'[n + l].m = "ret"
    <3>1. i.kind = "Ret" => lines = PrintRet /\ l = 3
      BY <1>3, ExitLines DEF PrintedFor, l
    <3> QED
      BY <1>7, <3>1, ExitLines
  <2>3. i.kind = "Cmp" => n + l > 2 /\ out'[n + l].m = "cmpl"
    <3> SUFFICES ASSUME i.kind = "Cmp" PROVE n + l > 2 /\ out'[n + l].m = "cmpl"
      OBVIOUS
    <3>1. l > 0 /\ lines[l].m = "cmpl"
      BY <1>3 DEF PrintedFor, l
    <3>2. l \in 1..l /\ n + l > 2
      BY <1>5, <1>7, <3>1
    <3> QED
      BY <1>7, <3>1, <3>2
  <2>4. /\ i.kind = "Mov" /\ i.ops[1].type = "IMM"
        /\ next > 1 /\ asm[next - 1].kind = "Cmp"
        => n + l > 3 /\ out'[n + l].m = "movl" /\ out'[n + l - 1].m = "cmpl"
    <3> SUFFICES ASSUME i.kind = "Mov", i.ops[1].type = "IMM",
                        next > 1, asm[next - 1].kind = "Cmp"
                 PROVE  n + l > 3 /\ out'[n + l].m = "movl" /\ out'[n + l - 1].m = "cmpl"
      OBVIOUS
    <3>1. l = 1 /\ lines[1].m = "movl"
      BY <1>3 DEF PrintedFor, l
    <3>2. n > 2 /\ out[n].m = "cmpl"
      BY <1>2, <1>6
    <3>3. 1 \in 1..l /\ n + l > 3 /\ n + l = n + 1 /\ n + l - 1 = n /\ n \in 1..n
      BY <1>7, <3>1, <3>2
    <3> QED
      BY <1>7, <3>1, <3>2, <3>3
  <2>5. asm_instructions' = asm_instructions /\ Len(out') = n + l /\ asm = asm_instructions
    BY <1>1, <1>7 DEF asm
  <2>6. i = asm_instructions[next]
    BY DEF i, asm
  <2>7. /\ asm_instructions'[Printed'] = i
        /\ asm_instructions'[Printed' - 1] = asm[next - 1]
        /\ out'[Len(out')] = out'[n + l] /\ out'[Len(out') - 1] = out'[n + l - 1]
    <3>1. asm_instructions'[Printed'] = asm_instructions[next]
      BY <2>1, <2>5
    <3>2. asm_instructions'[Printed' - 1] = asm_instructions[next - 1]
      BY <2>1, <2>5
    <3>3. out'[Len(out')] = out'[n + l]
      BY <2>5
    <3>4. out'[Len(out') - 1] = out'[n + l - 1]
      BY <1>7, <2>5
    <3>5. asm[next - 1] = asm_instructions[next - 1]
      BY DEF asm
    <3> QED
      BY <2>6, <3>1, <3>2, <3>3, <3>4, <3>5
  <2> HIDE DEF i, asm, n, l
  <2> QED
    BY <2>1, <2>2, <2>3, <2>4, <2>5, <2>7 DEF LastLines
<1>16. Printed' = next /\ next' <= Len(asm) + 1
  BY <1>1, <1>2 DEF Printed, asm
<1>17. out'[1] = out[1] /\ out'[2] = out[2] /\ Len(out') >= 2
  BY <1>5, <1>7
<1>18. asm_instructions' = asm_instructions /\ asm = asm_instructions /\ Len(out') = n + l
  BY <1>1, <1>7 DEF asm
<1>19. \A k \in 3..Len(out') : (Inner(out[k]) \/ Leaving(out, k))' /\ Decides(out, k)'
  BY <1>11, <1>12, <1>18
<1>20. \A k \in 3..Len(out') : out'[k].m \in {"j", "jmp"} =>
         \E a \in 1..Len(asm_instructions') :
           asm_instructions'[a].kind \in {"Jmp", "JmpCC"} /\ asm_instructions'[a].target = out'[k].label
  BY <1>13, <1>18
<1>21. \A a \in 1..Printed' : asm_instructions'[a].kind = "Label" =>
         \E k \in 3..Len(out') : out'[k].m = "label" /\ out'[k].label = asm_instructions'[a].id
  BY <1>14, <1>16, <1>18
<1>22. /\ next' <= Len(asm_instructions') + 1
       /\ Len(out') >= 2
       /\ out'[1] = Machine("pushq", rbp, None)
       /\ out'[2] = Machine("movq", rsp, rbp)
  BY <1>5, <1>16, <1>17, <1>18
<1> QED
  BY <1>15, <1>19, <1>20, <1>21, <1>22 DEF OutInv

LEMMA OutStep ==
  ASSUME IInv, AsmInv, OutInv, Next
  PROVE  OutInv'
<1>1. CASE PrintInstruction
  BY <1>1, OutPrint
<1>2. CASE BeginPrinting
  BY <1>2, OutBegin
<1>3. CASE EndPrinting
  <2>1. /\ phase = "print" /\ next > Len(asm_instructions) /\ phase' = "done"
        /\ UNCHANGED <<out, asm_instructions, offset_map>>
    BY <1>3 DEF EndPrinting
  <2>2. next <= Len(asm_instructions) + 1
    BY <2>1 DEF OutInv
  <2>3. next \in Nat /\ Len(asm_instructions) \in Nat
    BY LenProperties DEF IInv, TypeOK
  <2>4. Printed' = Printed
    BY <2>1, <2>2, <2>3 DEF Printed
  <2> QED
    BY <2>1, <2>4, SMTT(60) DEF OutInv, LastLines, Inner, Leaving, Decides, IsSlot
<1>4. CASE VisitInstruction \/ ReplaceNewPseudo \/ ReplaceKnownPseudo \/ KeepOperand
           \/ NextInstruction
  <2>1. phase' \in {"visit", "allocate"}
    <3>1. CASE VisitInstruction /\ ~BeginAllocation
      BY <3>1, VisitLowers DEF PushBack
    <3>2. CASE BeginAllocation
      BY <3>2 DEF BeginAllocation
    <3>3. CASE ~VisitInstruction
      BY <1>4, <3>3 DEF ReplaceNewPseudo, ReplaceKnownPseudo, KeepOperand, AtOperand,
         NextInstruction
    <3> QED
      BY <3>1, <3>2, <3>3
  <2> QED
    BY <2>1 DEF OutInv
<1> QED
  BY <1>1, <1>2, <1>3, <1>4 DEF Next, AllocatePseudo

LEMMA OutInit == Init => OutInv
BY DEF Init, CodeGenStart, OutInv

-----------------------------------------------------------------------------
(* What the processor executes. *)

LEMMA FunctionLoaded ==
  ASSUME IInv, AsmInv, OutInv, phase = "done", tacky \in Called
  PROVE  LoadedFunction
<1>1. WellFormed(tacky) /\ tacky \in Seq(TackyInstruction)
  BY CalledAssumption
<1>2. /\ tacky[Len(tacky)].kind = "Return"
      /\ \A t \in 1..Len(tacky) : Jumps(tacky[t]) =>
           \E j \in 1..Len(tacky) : tacky[j] = Label(tacky[t].target)
  BY <1>1, LenProperties DEF WellFormed
<1>3. Len(tacky) \in Nat /\ Len(tacky) > 0
  BY <1>1, LenProperties, EmptySeq DEF WellFormed
<1>4. Visited = Len(tacky) /\ Printed = Len(asm_instructions)
  BY DEF Visited, Printed
<1>5. Len(asm_instructions) > 0 /\ asm_instructions[Len(asm_instructions)].kind = "Ret"
  BY <1>2, <1>3, <1>4 DEF AsmInv
<1>6. /\ Len(out) >= 2
      /\ out[1] = Machine("pushq", rbp, None)
      /\ out[2] = Machine("movq", rsp, rbp)
      /\ \A i \in 3..Len(out) : Inner(out[i]) \/ Leaving(out, i)
      /\ \A i \in 3..Len(out) : Decides(out, i)
  BY DEF OutInv
<1>7. out[Len(out)].m = "ret"
  BY <1>4, <1>5 DEF OutInv, LastLines
<1>8. Len(out) >= 3
  <2>1. Len(out) \in Nat /\ Len(out) >= 2
    BY LenProperties DEF IInv, OutInv
  <2>2. out[2] = Machine("movq", rsp, rbp)
    BY DEF OutInv
  <2>3. Machine("movq", rsp, rbp).m = "movq"
    BY DEF Machine
  <2>4. Len(out) # 2
    BY <1>7, <2>2, <2>3
  <2> QED
    BY <2>1, <2>4
<1>9. ASSUME NEW i \in 3..Len(out), out[i].m \in {"j", "jmp"}
      PROVE  \E k \in 3..Len(out) : out[k].m = "label" /\ out[k].label = out[i].label
  <2>1. PICK a \in 1..Len(asm_instructions) :
          /\ asm_instructions[a].kind \in {"Jmp", "JmpCC"}
          /\ asm_instructions[a].target = out[i].label
    BY <1>9 DEF OutInv
  <2>2. PICK t \in 1..Len(tacky) : Jumps(tacky[t]) /\ tacky[t].target = out[i].label
    BY <2>1 DEF AsmInv
  <2>3. PICK j \in 1..Len(tacky) : tacky[j] = Label(out[i].label)
    BY <1>2, <2>2
  <2>4. tacky[j].kind = "Label" /\ tacky[j].id = out[i].label
    BY <2>3 DEF Label
  <2>5. PICK b \in 1..Len(asm_instructions) :
          asm_instructions[b].kind = "Label" /\ asm_instructions[b].id = out[i].label
    BY <1>4, <2>4 DEF AsmInv
  <2>6. \A c \in 1..Printed : asm_instructions[c].kind = "Label" =>
          \E k \in 3..Len(out) : out[k].m = "label" /\ out[k].label = asm_instructions[c].id
    BY DEF OutInv
  <2>7. b \in 1..Printed
    BY <1>4
  <2> QED
    BY <2>5, <2>6, <2>7, Zenon
<1> QED
  BY <1>6, <1>7, <1>8, <1>9 DEF LoadedFunction

(* The slots lie below both saved quadwords. *)
LEMMA SlotsBelow ==
  ASSUME IInv, NEW a \in Slots
  PROVE  a \in Int /\ a < 0
BY DEF Slots, IInv, TypeOK, SlotsDisjoint

(* A result goes to a register of the data or to a slot. *)
LEMMA WriteInner ==
  ASSUME IInv, NEW o, IsSlot(o), o.type = "REG" => o.reg \in RegASM,
         reg["BP"] = 0, DOMAIN reg = RegASM \cup {"SP", "BP"},
         DOMAIN mem = Slots \cup {0, Cpu!CallSite},
         NEW x, Cpu!Write(o, x)
  PROVE  /\ DOMAIN reg' = DOMAIN reg /\ DOMAIN mem' = DOMAIN mem
         /\ reg'["SP"] = reg["SP"] /\ reg'["BP"] = reg["BP"]
         /\ mem'[0] = mem[0] /\ mem'[Cpu!CallSite] = mem[Cpu!CallSite]
<1>1. CASE o.type = "REG" /\ reg' = [reg EXCEPT ![o.reg] = x] /\ UNCHANGED mem
  <2>1. o.reg # "SP" /\ o.reg # "BP"
    BY <1>1 DEF RegASM
  <2> QED
    BY <1>1, <2>1
<1>2. CASE o.type = "STACK" /\ mem' = [mem EXCEPT ![Cpu!Address(o)] = x] /\ UNCHANGED reg
  <2>1. o.offset \in Slots
    BY <1>2 DEF IsSlot, InMemory, Slots
  <2>2. Cpu!Address(o) = o.offset /\ o.offset # 0 /\ o.offset # 8
    BY <2>1, SlotsBelow DEF Cpu!Address
  <2> HIDE DEF Slots
  <2> QED
    BY <1>2, <2>2 DEF Cpu!CallSite
<1> QED
  BY <1>1, <1>2 DEF Cpu!Write

LEMMA SameConstants ==
  /\ Cpu!CallSite = 8 /\ Cpu!CallersFrame = 2000 /\ Cpu!ReturnAddress = 1000
  /\ Cpu!RegASM = RegASM
BY DEF Cpu!CallSite, Cpu!CallersFrame, Cpu!ReturnAddress, Cpu!RegASM, RegASM

(* What a line in the middle of the function does to the machine. *)
Inside ==
  /\ DOMAIN reg' = DOMAIN reg /\ DOMAIN mem' = DOMAIN mem
  /\ reg'["SP"] = reg["SP"] /\ reg'["BP"] = reg["BP"]
  /\ mem'[0] = mem[0] /\ mem'[Cpu!CallSite] = mem[Cpu!CallSite]
  /\ \/ status' = "fault"
     \/ /\ status' = "on"
        /\ \/ /\ ip' = ip + 1
              /\ out[ip].m = "cmpl" => flags'.valid
              /\ out[ip].m = "movl" => flags' = flags
           \/ out[ip].m \in {"j", "jmp"} /\ ip' = Cpu!LineOf(out[ip].label)

LEMMA InnerStep ==
  ASSUME IInv, Inner(out[ip]), reg["BP"] = 0, DOMAIN reg = RegASM \cup {"SP", "BP"},
         DOMAIN mem = Slots \cup {0, Cpu!CallSite}, Cpu!Execute
  PROVE  Inside
<1> DEFINE line == out[ip]
<1>1. /\ line.m \notin {"pushq", "popq", "movq", "ret"}
      /\ IsSlot(line.dst) /\ (line.dst.type = "REG" => line.dst.reg \in RegASM)
  BY DEF Inner
<1>2. \A x : Cpu!Write(line.dst, x) =>
        /\ DOMAIN reg' = DOMAIN reg /\ DOMAIN mem' = DOMAIN mem
        /\ reg'["SP"] = reg["SP"] /\ reg'["BP"] = reg["BP"]
        /\ mem'[0] = mem[0] /\ mem'[Cpu!CallSite] = mem[Cpu!CallSite]
  BY <1>1, WriteInner
<1>3. status = "on"
  BY DEF Cpu!Execute, Cpu!Fetch, Cpu!Move, Cpu!Arithmetic, Cpu!Complement, Cpu!Negate, Cpu!Compare,
     Cpu!SetByte, Cpu!SignExtend, Cpu!Divide, Cpu!JumpAlways, Cpu!JumpOnCondition, Cpu!PassLabel,
     Cpu!Push, Cpu!Pop, Cpu!Return
<1>4. CASE Cpu!Move
  BY <1>1, <1>2, <1>3, <1>4 DEF Cpu!Move, Cpu!Fetch, Cpu!Advance, Cpu!Dst, Inside
<1>5. CASE Cpu!Arithmetic
  BY <1>1, <1>2, <1>3, <1>5 DEF Cpu!Arithmetic, Cpu!Fetch, Cpu!Advance, Cpu!Dst, Inside
<1>6. CASE Cpu!Complement \/ Cpu!Negate \/ Cpu!SetByte
  BY <1>1, <1>2, <1>3, <1>6 DEF Cpu!Complement, Cpu!Negate, Cpu!SetByte, Cpu!Fetch, Cpu!Advance,
     Cpu!Dst, Inside
<1>7. CASE Cpu!Compare
  BY <1>1, <1>3, <1>7 DEF Cpu!Compare, Cpu!Compared, Cpu!Fetch, Cpu!Advance, Inside
<1>8. CASE Cpu!SignExtend
  BY <1>1, <1>3, <1>8 DEF Cpu!SignExtend, Cpu!Fetch, Cpu!Advance, Inside
<1>9. CASE Cpu!Divide
  BY <1>1, <1>3, <1>9 DEF Cpu!Divide, Cpu!Fetch, Cpu!Advance, Inside
<1>10. CASE Cpu!JumpAlways \/ Cpu!JumpOnCondition \/ Cpu!PassLabel
  BY <1>1, <1>3, <1>10 DEF Cpu!JumpAlways, Cpu!JumpOnCondition, Cpu!PassLabel, Cpu!JumpTo,
     Cpu!Fetch, Cpu!Advance, Inside
<1>11. CASE Cpu!Push \/ Cpu!Pop \/ Cpu!Return
  BY <1>1, <1>11 DEF Cpu!Push, Cpu!Pop, Cpu!Return, Cpu!Fetch
<1> QED
  BY <1>4, <1>5, <1>6, <1>7, <1>8, <1>9, <1>10, <1>11 DEF Cpu!Execute

(* The entry and the exit of the function, line by line. *)
LEMMA EntryLines ==
  /\ Machine("pushq", rbp, None).m = "pushq"
  /\ Machine("pushq", rbp, None).src.type = "REG" /\ Machine("pushq", rbp, None).src.reg = "BP"
  /\ Machine("movq", rsp, rbp).m = "movq"
  /\ Machine("movq", rsp, rbp).src.type = "REG" /\ Machine("movq", rsp, rbp).src.reg = "SP"
  /\ Machine("movq", rsp, rbp).dst.type = "REG" /\ Machine("movq", rsp, rbp).dst.reg = "BP"
  /\ Machine("movq", rbp, rsp).m = "movq"
  /\ Machine("movq", rbp, rsp).src.type = "REG" /\ Machine("movq", rbp, rsp).src.reg = "BP"
  /\ Machine("movq", rbp, rsp).dst.type = "REG" /\ Machine("movq", rbp, rsp).dst.reg = "SP"
  /\ Machine("popq", None, rbp).m = "popq"
  /\ Machine("popq", None, rbp).dst.reg = "BP"
  /\ Machine("ret", None, None).m = "ret"
BY DEF Machine, rbp, rsp, Register

(* Which instruction it is that the processor executes. *)
LEMMA Fetched ==
  ASSUME Cpu!Execute
  PROVE  /\ status = "on"
         /\ out[ip].m = "movq" => Cpu!Move
         /\ out[ip].m = "pushq" => Cpu!Push
         /\ out[ip].m = "popq" => Cpu!Pop
         /\ out[ip].m = "ret" => Cpu!Return
BY DEF Cpu!Execute, Cpu!Fetch, Cpu!Move, Cpu!Arithmetic, Cpu!Complement, Cpu!Negate, Cpu!Compare,
   Cpu!SetByte, Cpu!SignExtend, Cpu!Divide, Cpu!JumpAlways, Cpu!JumpOnCondition, Cpu!PassLabel,
   Cpu!Push, Cpu!Pop, Cpu!Return

LEMMA PushStep ==
  ASSUME out[ip] = Machine("pushq", rbp, None), Cpu!Execute,
         DOMAIN reg = RegASM \cup {"SP", "BP"},
         DOMAIN mem = Slots \cup {0, Cpu!CallSite}, reg["SP"] = Cpu!CallSite
  PROVE  /\ DOMAIN reg' = DOMAIN reg /\ DOMAIN mem' = DOMAIN mem
         /\ reg'["SP"] = 0 /\ reg'["BP"] = reg["BP"]
         /\ mem'[0] = reg["BP"] /\ mem'[Cpu!CallSite] = mem[Cpu!CallSite]
         /\ ip' = ip + 1 /\ status' = "on" /\ flags' = flags
<1>1. Cpu!Push /\ status = "on"
  BY Fetched, EntryLines
<1>2. Cpu!Read(Cpu!Src) = reg["BP"]
  BY EntryLines DEF Cpu!Read, Cpu!Src
<1>3. /\ reg' = [reg EXCEPT !["SP"] = 0]
      /\ mem' = [mem EXCEPT ![0] = reg["BP"]]
      /\ ip' = ip + 1 /\ status' = status /\ flags' = flags
  BY <1>1, <1>2, SameConstants DEF Cpu!Push, Cpu!Advance
<1> QED
  BY <1>1, <1>3, SameConstants

LEMMA MoveStep ==
  ASSUME NEW s \in {"SP", "BP"}, NEW d \in {"SP", "BP"},
         out[ip].m = "movq", out[ip].src.type = "REG", out[ip].src.reg = s,
         out[ip].dst.type = "REG", out[ip].dst.reg = d, Cpu!Execute,
         DOMAIN reg = RegASM \cup {"SP", "BP"}
  PROVE  /\ reg' = [reg EXCEPT ![d] = reg[s]] /\ mem' = mem
         /\ ip' = ip + 1 /\ status' = "on" /\ flags' = flags
<1>1. Cpu!Move /\ status = "on"
  BY Fetched
<1>2. Cpu!Read(Cpu!Src) = reg[s]
  BY DEF Cpu!Read, Cpu!Src
<1>3. Cpu!Write(Cpu!Dst, reg[s])
  BY <1>1, <1>2 DEF Cpu!Move
<1>4. reg' = [reg EXCEPT ![d] = reg[s]] /\ mem' = mem
  BY <1>3 DEF Cpu!Write, Cpu!Dst
<1> QED
  BY <1>1, <1>4 DEF Cpu!Move, Cpu!Advance

LEMMA PopStep ==
  ASSUME out[ip] = Machine("popq", None, rbp), Cpu!Execute,
         DOMAIN reg = RegASM \cup {"SP", "BP"}, reg["SP"] = 0
  PROVE  /\ DOMAIN reg' = DOMAIN reg /\ mem' = mem
         /\ reg'["SP"] = 8 /\ reg'["BP"] = mem[0]
         /\ ip' = ip + 1 /\ status' = "on" /\ flags' = flags
<1>1. Cpu!Pop /\ status = "on" /\ Cpu!Dst.reg = "BP"
  BY Fetched, EntryLines DEF Cpu!Dst
<1>2. /\ reg' = [reg EXCEPT !["SP"] = 8, !["BP"] = mem[0]]
      /\ ip' = ip + 1 /\ status' = status /\ flags' = flags /\ mem' = mem
  BY <1>1 DEF Cpu!Pop, Cpu!Advance
<1> QED
  BY <1>1, <1>2

LEMMA ReturnStep ==
  ASSUME out[ip].m = "ret", Cpu!Execute,
         DOMAIN reg = RegASM \cup {"SP", "BP"}, reg["SP"] = Cpu!CallSite,
         mem[Cpu!CallSite] = Cpu!ReturnAddress
  PROVE  /\ status' = "exited" /\ reg'["BP"] = reg["BP"] /\ reg'["SP"] = Cpu!CallSite + 8
<1>1. Cpu!Return
  BY Fetched
<1> QED
  BY <1>1, SameConstants DEF Cpu!Return

(* A line that owes its decision to a comparison has it right before it,   *)
(* or the clearing of the result that stands before a setcc.               *)
LEMMA OwedFrom ==
  ASSUME LoadedFunction, Len(out) \in Nat, NEW i \in 1..Len(out), i + 1 <= Len(out), Owed(i + 1)
  PROVE  out[i].m = "cmpl" \/ (out[i].m = "movl" /\ Owed(i))
<1>1. out[1].m = "pushq" /\ out[2].m = "movq"
  BY EntryLines DEF LoadedFunction
<1>2. CASE out[i + 1].m \in {"j", "set"}
  <2>1. i + 1 # 1 /\ i + 1 # 2
    BY <1>1, <1>2
  <2>2. i + 1 \in 3..Len(out) /\ i + 1 - 1 = i
    BY <2>1
  <2>3. Decides(out, i + 1)
    BY <2>2 DEF LoadedFunction
  <2> QED
    BY <1>2, <2>2, <2>3 DEF Decides, Owed
<1>3. CASE out[i + 1].m = "movl" /\ i + 1 < Len(out) /\ out[i + 1 + 1].m = "set"
  <2>1. i + 1 + 1 \in 3..Len(out) /\ i + 1 + 1 - 2 = i
    BY <1>3
  <2>2. Decides(out, i + 1 + 1)
    BY <2>1 DEF LoadedFunction
  <2> QED
    BY <1>3, <2>1, <2>2 DEF Decides
<1> QED
  BY <1>2, <1>3 DEF Owed

LEMMA JumpLands ==
  ASSUME LoadedFunction, out \in Seq(EncodableLine),
         NEW i \in 3..Len(out), out[i].m \in {"j", "jmp"}
  PROVE  /\ Cpu!LineOf(out[i].label) \in 3..Len(out)
         /\ out[Cpu!LineOf(out[i].label)].m = "label"
<1> DEFINE l == out[i].label
           Target(k) == out[k].m = "label" /\ out[k].label = l
<1>1. DOMAIN out = 1..Len(out) /\ Len(out) \in Nat
  BY LenProperties
<1>2. \E k \in 3..Len(out) : Target(k)
  BY DEF LoadedFunction
<1>3. \E k \in DOMAIN out : Target(k)
  BY <1>1, <1>2
<1>4. Cpu!LineOf(l) = CHOOSE k \in DOMAIN out : Target(k)
  BY DEF Cpu!LineOf
<1>5. Cpu!LineOf(l) \in DOMAIN out /\ out[Cpu!LineOf(l)].m = "label"
  BY <1>3, <1>4
<1>6. out[1].m = "pushq" /\ out[2].m = "movq"
  BY EntryLines DEF LoadedFunction
<1>7. Cpu!LineOf(l) # 1 /\ Cpu!LineOf(l) # 2
  BY <1>5, <1>6
<1> QED
  BY <1>1, <1>5, <1>7

LEMMA BeforeReturn ==
  ASSUME NEW i \in Int, Leaving(out, i), out[i].m = "ret"
  PROVE  out[i - 1] = Machine("popq", None, rbp)
<1>1. Machine("movq", rbp, rsp).m # "ret" /\ Machine("popq", None, rbp).m # "ret"
  BY EntryLines
<1>2. out[i] # Machine("movq", rbp, rsp) /\ out[i] # Machine("popq", None, rbp)
  BY <1>1
<1> QED
  BY <1>2 DEF Leaving

LEMMA ExecuteKeeps ==
  ASSUME IInv, AsmInv, OutInv, MachineInv, Cpu!Execute, UNCHANGED code_vars
  PROVE  MachineInv'
<1>1. status = "on" /\ phase = "done" /\ tacky \in Called
  BY Fetched DEF MachineInv
<1>2. LoadedFunction
  BY <1>1, FunctionLoaded
<1>3. /\ phase' = phase /\ tacky' = tacky /\ out' = out /\ offset_map' = offset_map
      /\ Slots' = Slots
  BY DEF code_vars, Slots
<1>4. /\ ip \in 1..Len(out) /\ ip \in Int
      /\ DOMAIN reg = RegASM \cup {"SP", "BP"}
      /\ DOMAIN mem = Slots \cup {0, Cpu!CallSite}
      /\ StackShape
      /\ Owed(ip) => flags.valid
  BY <1>1 DEF MachineInv
<1>5. out \in Seq(EncodableLine) /\ Len(out) \in Nat
  BY LenProperties DEF IInv
<1>6. out[1].m = "pushq" /\ out[2].m = "movq" /\ Len(out) >= 3 /\ out[Len(out)].m = "ret"
  BY <1>2, EntryLines DEF LoadedFunction
(* It is enough that the step stays in the function, and keeps the shape   *)
(* of the stack and the flags that are owed.                               *)
<1>7. ASSUME status' = "on", ip' \in 1..Len(out), DOMAIN reg' = DOMAIN reg, DOMAIN mem' = DOMAIN mem,
             StackShape', Owed(ip') => flags'.valid
      PROVE  MachineInv'
  BY <1>1, <1>3, <1>4, <1>7 DEF MachineInv, Owed
<1>8. ASSUME ip' = ip + 1, ip + 1 <= Len(out), out[ip].m = "cmpl" => flags'.valid,
             out[ip].m = "movl" => flags' = flags, Owed(ip + 1)
      PROVE  flags'.valid
  BY <1>2, <1>4, <1>5, <1>8, OwedFrom
<1>9. CASE ip = 1
  <2>1. out[ip] = Machine("pushq", rbp, None)
    BY <1>2, <1>9 DEF LoadedFunction
  <2>2. /\ mem[Cpu!CallSite] = Cpu!ReturnAddress
        /\ reg["BP"] = Cpu!CallersFrame /\ reg["SP"] = Cpu!CallSite
    BY <1>4, <1>9 DEF StackShape
  <2>3. /\ DOMAIN reg' = DOMAIN reg /\ DOMAIN mem' = DOMAIN mem
        /\ reg'["SP"] = 0 /\ reg'["BP"] = reg["BP"]
        /\ mem'[0] = reg["BP"] /\ mem'[Cpu!CallSite] = mem[Cpu!CallSite]
        /\ ip' = ip + 1 /\ status' = "on" /\ flags' = flags
    BY <1>4, <2>1, <2>2, PushStep
  <2>4. ip' = 2 /\ out[ip'].m = "movq"
    BY <1>6, <1>9, <2>3
  <2>5. StackShape'
    BY <1>3, <1>9, <2>2, <2>3, <2>4 DEF StackShape
  <2>6. ~Owed(ip')
    BY <2>4 DEF Owed
  <2> QED
    BY <1>5, <1>6, <1>7, <2>3, <2>4, <2>5, <2>6
<1>10. CASE ip = 2
  <2>1. out[ip] = Machine("movq", rsp, rbp)
    BY <1>2, <1>10 DEF LoadedFunction
  <2>2. /\ mem[Cpu!CallSite] = Cpu!ReturnAddress /\ mem[0] = Cpu!CallersFrame
        /\ reg["SP"] = 0
    BY <1>4, <1>6, <1>10 DEF StackShape
  <2>3. /\ reg' = [reg EXCEPT !["BP"] = reg["SP"]] /\ mem' = mem
        /\ ip' = ip + 1 /\ status' = "on" /\ flags' = flags
    BY <1>4, <2>1, EntryLines, MoveStep
  <2>4. reg'["BP"] = 0 /\ reg'["SP"] = 0 /\ DOMAIN reg' = DOMAIN reg
    BY <1>4, <2>2, <2>3
  <2>5. ip' = 3 /\ 3 \in 3..Len(out)
    BY <1>6, <1>10, <2>3
  <2>6. out[3].m # "ret"
    <3>1. Inner(out[3]) \/ Leaving(out, 3)
      BY <1>2, <2>5 DEF LoadedFunction
    <3>2. Inner(out[3]) => out[3].m # "ret"
      BY DEF Inner
    <3>3. Leaving(out, 3) => out[3] = Machine("movq", rbp, rsp)
      BY DEF Leaving
    <3> QED
      BY <3>1, <3>2, <3>3, EntryLines
  <2>7. StackShape'
    BY <1>3, <2>2, <2>3, <2>4, <2>5, <2>6 DEF StackShape
  <2>8. Owed(ip') => flags'.valid
    BY <1>6, <1>8, <1>10, <2>1, <2>3, <2>5
  <2> QED
    BY <1>7, <2>3, <2>4, <2>5, <2>7, <2>8
<1>11. CASE ip \in 3..Len(out) /\ Inner(out[ip])
  <2>1. out[ip].m # "ret" /\ ip # Len(out) /\ ip > 1 /\ ip # 2
    BY <1>6, <1>11 DEF Inner
  <2>2. /\ mem[Cpu!CallSite] = Cpu!ReturnAddress /\ mem[0] = Cpu!CallersFrame
        /\ reg["SP"] = 0 /\ reg["BP"] = 0
    BY <1>4, <2>1 DEF StackShape
  <2>3. Inside
    BY <1>4, <1>11, <2>2, InnerStep
  <2>4. ip + 1 \in 4..Len(out)
    BY <1>4, <1>11, <2>1
  <2>5. ASSUME NEW k \in 3..Len(out), ip' = k, status' = "on", out[k].m # "ret"
        PROVE  StackShape'
    BY <1>3, <2>2, <2>3, <2>5 DEF StackShape, Inside
  <2>6. CASE status' = "fault"
    BY <1>1, <1>3, <2>6 DEF MachineInv
  <2>7. CASE status' = "on" /\ ip' = ip + 1 /\ (out[ip].m = "cmpl" => flags'.valid)
              /\ (out[ip].m = "movl" => flags' = flags)
    <3>1. out[ip + 1].m # "ret"
      <4> SUFFICES ASSUME out[ip + 1].m = "ret" PROVE FALSE
        OBVIOUS
      <4>1. Leaving(out, ip + 1)
        BY <1>2, <2>4 DEF LoadedFunction, Inner
      <4>2. out[ip + 1 - 1] = Machine("popq", None, rbp)
        BY <1>4, <4>1, BeforeReturn
      <4>3. ip + 1 - 1 = ip
        BY <1>4
      <4> QED
        BY <1>11, <4>2, <4>3, EntryLines DEF Inner
    <3>2. StackShape'
      BY <2>4, <2>5, <2>7, <3>1
    <3>3. Owed(ip') => flags'.valid
      BY <1>8, <2>4, <2>7
    <3> QED
      BY <1>7, <2>3, <2>4, <2>7, <3>2, <3>3 DEF Inside
  <2>8. CASE status' = "on" /\ out[ip].m \in {"j", "jmp"} /\ ip' = Cpu!LineOf(out[ip].label)
    <3>1. ip' \in 3..Len(out) /\ out[ip'].m = "label"
      BY <1>2, <1>5, <1>11, <2>8, JumpLands
    <3>2. StackShape'
      BY <2>5, <2>8, <3>1
    <3>3. ~Owed(ip')
      BY <3>1 DEF Owed
    <3> QED
      BY <1>7, <2>3, <2>8, <3>1, <3>2, <3>3 DEF Inside
  <2> QED
    BY <2>3, <2>6, <2>7, <2>8 DEF Inside
<1>12. CASE ip \in 3..Len(out) /\ Leaving(out, ip)
  <2>1. /\ mem[Cpu!CallSite] = Cpu!ReturnAddress
        /\ out[ip].m # "ret" => mem[0] = Cpu!CallersFrame /\ reg["SP"] = 0 /\ reg["BP"] = 0
        /\ out[ip].m = "ret" => reg["BP"] = Cpu!CallersFrame /\ reg["SP"] = Cpu!CallSite
    BY <1>4, <1>12 DEF StackShape
  <2>2. CASE /\ out[ip] = Machine("movq", rbp, rsp) /\ ip + 2 <= Len(out)
             /\ out[ip + 1] = Machine("popq", None, rbp)
    <3>1. /\ reg' = [reg EXCEPT !["SP"] = reg["BP"]] /\ mem' = mem
          /\ ip' = ip + 1 /\ status' = "on" /\ flags' = flags
      BY <1>4, <2>2, EntryLines, MoveStep
    <3>2. reg'["BP"] = 0 /\ reg'["SP"] = 0 /\ DOMAIN reg' = DOMAIN reg
      BY <1>4, <2>1, <2>2, <3>1, EntryLines
    <3>3. ip' \in 3..Len(out) /\ out[ip'].m = "popq"
      BY <1>4, <1>12, <2>2, <3>1, EntryLines
    <3>4. StackShape'
      BY <1>3, <2>1, <2>2, <3>1, <3>2, <3>3, EntryLines DEF StackShape
    <3>5. ~Owed(ip')
      BY <3>3 DEF Owed
    <3> QED
      BY <1>7, <3>1, <3>2, <3>3, <3>4, <3>5
  <2>3. CASE /\ out[ip] = Machine("popq", None, rbp) /\ ip + 1 <= Len(out)
             /\ out[ip + 1] = Machine("ret", None, None)
    <3>1. out[ip].m # "ret"
      BY <2>3, EntryLines
    <3>2. /\ DOMAIN reg' = DOMAIN reg /\ mem' = mem
          /\ reg'["SP"] = 8 /\ reg'["BP"] = mem[0]
          /\ ip' = ip + 1 /\ status' = "on" /\ flags' = flags
      BY <1>4, <2>1, <2>3, <3>1, PopStep
    <3>3. ip' \in 3..Len(out) /\ out[ip'].m = "ret"
      BY <1>4, <1>12, <2>3, <3>2, EntryLines
    <3>4. StackShape'
      BY <1>3, <2>1, <3>1, <3>2, <3>3, SameConstants DEF StackShape
    <3>5. ~Owed(ip')
      BY <3>3 DEF Owed
    <3> QED
      BY <1>7, <3>2, <3>3, <3>4, <3>5
  <2>4. CASE out[ip] = Machine("ret", None, None)
    <3>1. out[ip].m = "ret"
      BY <2>4, EntryLines
    <3>2. status' = "exited" /\ reg'["BP"] = reg["BP"] /\ reg'["SP"] = Cpu!CallSite + 8
      BY <1>4, <2>1, <3>1, ReturnStep
    <3> QED
      BY <1>1, <1>3, <2>1, <3>1, <3>2 DEF MachineInv
  <2> QED
    BY <1>12, <2>2, <2>3, <2>4 DEF Leaving
<1>13. ip = 1 \/ ip = 2 \/ ip \in 3..Len(out)
  BY <1>4, <1>5
<1>14. ip \in 3..Len(out) => Inner(out[ip]) \/ Leaving(out, ip)
  BY <1>2 DEF LoadedFunction
<1> QED
  BY <1>9, <1>10, <1>11, <1>12, <1>13, <1>14

(* The loader calls the function. *)
LEMMA LoadKeeps ==
  ASSUME IInv, AsmInv, OutInv, MachineInv, Load
  PROVE  MachineInv'
<1>1. /\ phase = "done" /\ tacky \in Called
      /\ Cpu!Enter(GarbageInRegs, [Slots -> Garbage])
      /\ phase' = phase /\ tacky' = tacky /\ out' = out /\ Slots' = Slots
  BY DEF Load, code_vars, Slots
<1>2. LoadedFunction
  BY <1>1, FunctionLoaded
<1>3. Len(out) \in Nat /\ Len(out) >= 3 /\ out[1].m = "pushq"
  BY <1>2, LenProperties, EntryLines DEF LoadedFunction, IInv
<1>4. status' = "on" /\ ip' = ip
  BY <1>1 DEF Cpu!Enter
<1>5. PICK r \in GarbageInRegs :
        reg' = [x \in RegASM \cup {"SP", "BP"} |->
                  CASE x = "SP" -> Cpu!CallSite [] x = "BP" -> Cpu!CallersFrame [] OTHER -> r[x]]
  BY <1>1, SameConstants DEF Cpu!Enter
<1>6. PICK s \in [Slots -> Garbage] :
        mem' = [a \in Slots \cup {0, Cpu!CallSite} |->
                  CASE a = Cpu!CallSite -> Cpu!ReturnAddress
                    [] a = Cpu!CallSite - 8 -> 0 [] OTHER -> s[a]]
  BY <1>1, SameConstants DEF Cpu!Enter
<1>7. DOMAIN reg' = RegASM \cup {"SP", "BP"}
      /\ reg'["SP"] = Cpu!CallSite /\ reg'["BP"] = Cpu!CallersFrame
  BY <1>5
<1>8. DOMAIN mem' = Slots \cup {0, Cpu!CallSite} /\ mem'[Cpu!CallSite] = Cpu!ReturnAddress
  BY <1>6, SameConstants
<1>9. status = "off" /\ ip = 1
  BY <1>1 DEF Cpu!Enter, MachineInv
<1>10. StackShape' /\ ~Owed(ip)'
  BY <1>1, <1>3, <1>4, <1>7, <1>8, <1>9 DEF StackShape, Owed
<1> QED
  BY <1>1, <1>3, <1>4, <1>7, <1>8, <1>9, <1>10 DEF MachineInv

-----------------------------------------------------------------------------
LEMMA BackInitEstablishes == BackInit => BackIInv
BY InitEstablishes, AsmInit, OutInit DEF BackInit, BackIInv, MachineStart, Cpu!PowerOff, MachineInv

LEMMA CodeUnchanged ==
  ASSUME UNCHANGED code_vars, AsmInv, OutInv
  PROVE  AsmInv' /\ OutInv'
<1>1. UNCHANGED <<phase, tacky, next, asm_instructions, offset_map, out>>
  BY DEF code_vars
<1>2. AsmInv'
  BY <1>1 DEF AsmInv, Decided, Visited
<1>3. OutInv'
  BY <1>1 DEF OutInv, Inner, Leaving, Decides, IsSlot, LastLines, Printed
<1> QED
  BY <1>2, <1>3

LEMMA BackNextPreserves == BackIInv /\ [BackNext]_vars => BackIInv'
<1> SUFFICES ASSUME IInv, AsmInv, OutInv, MachineInv, [BackNext]_vars PROVE BackIInv'
  BY DEF BackIInv
<1>1. CASE Compile
  <2>1. Next /\ UNCHANGED cpu_vars
    BY <1>1 DEF Compile
  <2>2. IInv' /\ AsmInv' /\ OutInv'
    BY <2>1, NextPreserves, AsmStep, OutStep
  <2>3. phase # "done"
    <3>1. CASE VisitInstruction /\ ~BeginAllocation
      BY <3>1, VisitLowers
    <3>2. CASE BeginAllocation
      BY <3>2 DEF BeginAllocation
    <3>3. CASE AllocatePseudo \/ PrintInstruction \/ EndPrinting
      BY <3>3 DEF AllocatePseudo, ReplaceNewPseudo, ReplaceKnownPseudo, KeepOperand, AtOperand,
         NextInstruction, BeginPrinting, PrintInstruction, EndPrinting
    <3> QED
      BY <2>1, <3>1, <3>2, <3>3 DEF Next
  <2>4. MachineInv'
    BY <2>1, <2>3 DEF MachineInv, cpu_vars
  <2> QED
    BY <2>2, <2>4 DEF BackIInv
<1>2. CASE Load
  <2>1. UNCHANGED code_vars
    BY <1>2 DEF Load
  <2> QED
    BY <1>2, <2>1, NextPreserves, CodeUnchanged, LoadKeeps DEF BackIInv
<1>3. CASE Run
  <2>1. Cpu!Execute /\ UNCHANGED code_vars
    BY <1>3 DEF Run
  <2> QED
    BY <2>1, NextPreserves, CodeUnchanged, ExecuteKeeps DEF BackIInv
<1>4. CASE UNCHANGED vars
  <2>1. UNCHANGED code_vars /\ UNCHANGED cpu_vars
    BY <1>4 DEF vars
  <2>2. MachineInv'
    BY <2>1 DEF MachineInv, StackShape, Owed, Slots, code_vars, cpu_vars
  <2> QED
    BY <2>1, <2>2, NextPreserves, CodeUnchanged DEF BackIInv
<1> QED
  BY <1>1, <1>2, <1>3, <1>4 DEF BackNext

(* The inductive invariant holds of every reachable state of the back end  *)
(* and the processor.                                                      *)
THEOREM BackInductive == BackSpec => []BackIInv
BY BackInitEstablishes, BackNextPreserves, PTL DEF BackSpec

LEMMA FlagsFollow == BackIInv => FlagsOfComparison
BY DEF BackIInv, MachineInv, Owed, FlagsOfComparison

(* Whatever well-formed function is compiled and called, every jcc and     *)
(* setcc that code_gen printed decides on the cmpl it was lowered with:    *)
(* nothing that clobbers the flags gets between them.                      *)
THEOREM FlagsHold == BackSpec => []FlagsOfComparison
BY FlagsFollow, BackInductive, PTL

LEMMA StaysFollows == BackIInv => StaysInFunction
<1> SUFFICES ASSUME IInv, AsmInv, OutInv, MachineInv, status = "on"
             PROVE  /\ ip \in DOMAIN out
                    /\ \A o \in {out[ip].src, out[ip].dst} :
                         InMemory(o) => reg["BP"] + o.offset \in Slots
  BY DEF BackIInv, StaysInFunction
<1>1. LoadedFunction /\ ip \in 1..Len(out) /\ StackShape
  BY FunctionLoaded DEF MachineInv
<1>2. out \in Seq(EncodableLine) /\ DOMAIN out = 1..Len(out) /\ Len(out) \in Nat
  BY LenProperties DEF IInv
<1>3. CASE ip \in 3..Len(out) /\ Inner(out[ip])
  <2>1. reg["BP"] = 0
    BY <1>1, <1>3 DEF StackShape, Inner
  <2>2. \A o \in {out[ip].src, out[ip].dst} : InMemory(o) => o.offset \in Slots
    BY <1>3 DEF Inner, IsSlot, Slots
  <2>3. \A a \in Slots : a \in Int
    BY SlotsBelow
  <2> HIDE DEF Slots
  <2>4. \A o \in {out[ip].src, out[ip].dst} : InMemory(o) => reg["BP"] + o.offset \in Slots
    BY <2>1, <2>2, <2>3
  <2> QED
    BY <1>1, <1>2, <2>4
<1>4. CASE ip = 1 \/ ip = 2 \/ (ip \in 3..Len(out) /\ Leaving(out, ip))
  <2>1. PICK s, d \in {None, rbp, rsp} : \E m : out[ip] = Machine(m, s, d)
    BY <1>1, <1>4 DEF LoadedFunction, Leaving
  <2>2. \A o \in {out[ip].src, out[ip].dst} : ~InMemory(o)
    <3>1. \A m : Machine(m, s, d).src = s /\ Machine(m, s, d).dst = d
      BY DEF Machine
    <3>3. out[ip].src = s /\ out[ip].dst = d
      BY <2>1, <3>1
    <3>2. \A o \in {None, rbp, rsp} : ~InMemory(o)
      BY DEF None, rbp, rsp, Register, InMemory
    <3> QED
      BY <3>2, <3>3
  <2> QED
    BY <1>1, <1>2, <2>2
<1>5. ip \in 3..Len(out) => Inner(out[ip]) \/ Leaving(out, ip)
  BY <1>1 DEF LoadedFunction
<1>6. ip = 1 \/ ip = 2 \/ ip \in 3..Len(out)
  BY <1>1, <1>2
<1> QED
  BY <1>3, <1>4, <1>5, <1>6

LEMMA ReturnFollows == BackIInv => ReturnsToCaller
BY StaysFollows DEF BackIInv, MachineInv, StackShape, ReturnsToCaller

(* Whatever well-formed function is called, with whatever in its frame:    *)
(* the printed code never runs off its end, touches only its slots through *)
(* %rbp, and returns to the caller's address with %rsp and %rbp as they    *)
(* were, although no instruction ever reserves the frame.                  *)
THEOREM ReturnHolds == BackSpec => []ReturnsToCaller
BY ReturnFollows, BackInductive, PTL

-----------------------------------------------------------------------------
(***************************************************************************)
(* The inductive invariant.  Its first part says which assembly            *)
(* instructions and which lines belong to which TACKY instruction; the     *)
(* second one what registers, slots and flags hold between the lines of a  *)
(* TACKY instruction.                                                      *)
(***************************************************************************)

(* Operand o stands for the operand p that lowering made. *)
PlacedAs(o, p) ==
  \/ o = p
  \/ p.type = "PSEUDO" /\ p.id \in DOMAIN offset_map /\ o = Stack(offset_map[p.id])

(* Assembly instruction a is b with some of its operands placed. *)
Places(a, b) ==
  /\ a.kind = b.kind
  /\ a.kind \in {"Unary", "Binary"} => a.op = b.op
  /\ a.kind \in {"SetCC", "JmpCC"} => a.cc = b.cc
  /\ a.kind \in {"Jmp", "JmpCC"} => a.target = b.target
  /\ a.kind = "Label" => a.id = b.id
  /\ Len(a.ops) = Len(b.ops)
  /\ \A k \in 1..Len(b.ops) : PlacedAs(a.ops[k], b.ops[k])

(* The assembly of TACKY instruction t begins at first[t]. *)
Blocks(first) ==
  /\ first \in [1..Visited + 1 -> Nat \ {0}]
  /\ first[1] = 1 /\ first[Visited + 1] = Len(asm_instructions) + 1
  /\ \A t \in 1..Visited :
       /\ first[t + 1] = first[t] + Len(Lower(tacky[t]))
       /\ first[t + 1] <= Len(asm_instructions) + 1
       /\ \A j \in 1..Len(Lower(tacky[t])) :
            /\ Places(asm_instructions[first[t] + j - 1], Lower(tacky[t])[j])
            /\ origin[first[t] + j - 1] = t
  /\ \A a \in 1..Len(asm_instructions) :
       \E t \in 1..Visited : \E j \in 1..Len(Lower(tacky[t])) : a = first[t] + j - 1

AsmShape ==
  /\ origin \in Seq(Nat) /\ Len(origin) = Len(asm_instructions)
  /\ \E first : Blocks(first)

(* The lines of assembly instruction a begin at at[a], after the entry. *)
Lines(at) ==
  /\ at \in [1..Printed + 1 -> Nat \ {0}]
  /\ at[1] = 3 /\ at[Printed + 1] = Len(out) + 1
  /\ \A a \in 1..Printed :
       /\ at[a + 1] = at[a] + Len(code_gen(asm_instructions[a]))
       /\ 3 <= at[a] /\ at[a + 1] <= Len(out) + 1
       /\ \A m \in 1..Len(code_gen(asm_instructions[a])) :
            /\ out[at[a] + m - 1] = code_gen(asm_instructions[a])[m]
            /\ out_origin[at[a] + m - 1] = origin[a]
  /\ \A i \in 3..Len(out) :
       \E a \in 1..Printed : \E m \in 1..Len(code_gen(asm_instructions[a])) :
         i = at[a] + m - 1

OutShape ==
  phase \in {"print", "done"} =>
    /\ out_origin \in Seq(Nat) /\ Len(out_origin) = Len(out)
    /\ out_origin[1] = 1 /\ out_origin[2] = 1
    /\ \E at : Lines(at)

(* Slots are for the variables of the code only. *)
NamesKnown == DOMAIN offset_map \subseteq Meaning!VariablesOf(tacky)

(* The values that the TACKY code reads: those of the beginning of the     *)
(* instruction, whatever its lines have written so far.                    *)
Val(v) == IF v.tag = "const" THEN Wrap(v.value) ELSE settled[offset_map[v.id]]

Unwritten == \A s \in Slots : mem[s] = settled[s]
Holding(d, x) == \A s \in Slots : mem[s] = IF s = offset_map[d.id] THEN x ELSE settled[s]

(* Before the j-th assembly instruction of the TACKY instruction i. *)
Sign(x) == IF x < 0 THEN -1 ELSE 0

UnaryStage(i, j) ==
  /\ i.op = "NOT" => /\ flags = Cpu!Compared(Val(i.src), 0)
                     /\ j = 2 => Unwritten
                     /\ j = 3 => Holding(i.dst, 0)
  /\ i.op # "NOT" => Holding(i.dst, Val(i.src))

Overflows(i) == Val(i.src2) = 0 \/ (Val(i.src1) = MinInt /\ Val(i.src2) = -1)

DivisionStage(i, j) ==
  /\ Unwritten
  /\ j < 4 => reg["AX"] = Val(i.src1)
  /\ j = 3 => reg["DX"] = Sign(Val(i.src1))
  /\ j = 4 => /\ ~Overflows(i)
              /\ reg["AX"] = Quotient(Val(i.src1), Val(i.src2))
              /\ reg["DX"] = Remainder(Val(i.src1), Val(i.src2))

RelationalStage(i, j) ==
  /\ flags = Cpu!Compared(Val(i.src1), Val(i.src2))
  /\ j = 2 => Unwritten
  /\ j = 3 => Holding(i.dst, 0)

BinaryStage(i, j) ==
  /\ i.op \in {"DIVIDE", "REMAINDER"} => DivisionStage(i, j)
  /\ i.op \in RelationalOp => RelationalStage(i, j)
  /\ i.op \in {"ADD", "SUBTRACT", "MULTIPLY"} => Holding(i.dst, Val(i.src1))

Stage(i, j) ==
  /\ j = 1 => Unwritten
  /\ j > 1 =>
       /\ i.kind = "Return" => Unwritten /\ reg["AX"] = Val(i.src)
       /\ i.kind = "Unary" => UnaryStage(i, j)
       /\ i.kind = "Binary" => BinaryStage(i, j)
       /\ i.kind \in {"JumpIfZero", "JumpIfNotZero"} =>
            Unwritten /\ flags = Cpu!Compared(Val(i.cond), 0)

(* What an operand holds, inside the function. *)
Content(o) ==
  IF o.type = "IMM" THEN Wrap(o.val) ELSE IF o.type = "REG" THEN reg[o.reg] ELSE mem[o.offset]

(* The three operations on words, destination first. *)
Combined(m, x, y) ==
  IF m = "addl" THEN Wrap(x + y) ELSE IF m = "subl" THEN Wrap(x - y) ELSE Wrap(x * y)

(* Before the m-th line of the assembly instruction a: what code_gen has   *)
(* put into its scratch registers.                                         *)
Scratch(a, m) ==
  /\ a.kind \in {"Mov", "Idiv"} /\ m = 2 => reg["R10"] = Content(a.ops[1])
  /\ a.kind = "Cmp" /\ m = 2 =>
       IF IsImmediate(a.ops[2]) THEN reg["R11"] = Content(a.ops[2])
       ELSE reg["R10"] = Content(a.ops[1])
  /\ a.kind = "Binary" /\ a.op # "MULT" /\ m = 2 => reg["R10"] = Content(a.ops[1])
  /\ a.kind = "Binary" /\ a.op = "MULT" =>
       /\ m = 2 => reg["R11"] = Content(a.ops[2])
       /\ m = 3 => reg["R11"] = Combined("imull", Content(a.ops[2]), Content(a.ops[1]))

(* The j-th assembly instruction of the TACKY instruction t, and its m-th  *)
(* line.                                                                   *)
At(first, t, j) == first[t] + j - 1
LineNo(first, at, t, j, m) == at[At(first, t, j)] + m - 1

Place(first, t, j, m) ==
  /\ t \in 1..Len(tacky)
  /\ j \in 1..Len(Lower(tacky[t]))
  /\ m \in 1..Len(code_gen(asm_instructions[At(first, t, j)]))

(* The processor is there. *)
AtLine(first, at, t, j, m) ==
  /\ Place(first, t, j, m)
  /\ ip = LineNo(first, at, t, j, m)
  /\ Stage(tacky[t], j)
  /\ Scratch(asm_instructions[At(first, t, j)], m)

Progress ==
  status = "on" =>
    /\ \A s \in Slots : settled[s] \in Word
    /\ ip < 3 => Unwritten
    /\ ip >= 3 => \E first, at : /\ Blocks(first) /\ Lines(at)
                                /\ \E t, j, m : AtLine(first, at, t, j, m)

MeaningInv == AsmShape /\ OutShape /\ NamesKnown /\ Progress
-----------------------------------------------------------------------------
(* The assembly of every TACKY instruction.                                *)

LEMMA TupleLengths ==
  \A a, b, c, d : /\ Len(<<a>>) \in 1..4 /\ Len(<<a, b>>) \in 1..4
                  /\ Len(<<a, b, c>>) \in 1..4 /\ Len(<<a, b, c, d>>) \in 1..4
OBVIOUS

LEMMA LowerLength ==
  ASSUME NEW i \in TackyInstruction
  PROVE  Lower(i) \in Seq(Fresh) /\ Len(Lower(i)) \in 1..4
<1>1. \/ \E a : Lower(i) = <<a>>
      \/ \E a, b : Lower(i) = <<a, b>>
      \/ \E a, b, c : Lower(i) = <<a, b, c>>
      \/ \E a, b, c, d : Lower(i) = <<a, b, c, d>>
  <2>1. CASE i.kind \in {"Copy", "Jump", "Label"}
    BY <2>1, LowerForms
  <2>2. CASE i.kind \in {"Return", "JumpIfZero", "JumpIfNotZero"}
    BY <2>2, LowerForms
  <2>3. CASE i.kind = "Unary"
    BY <2>3, LowerForms DEF LowerUnary
  <2>4. CASE i.kind = "Binary"
    BY <2>4, LowerForms DEF LowerBinary, Divided, Related, Computed
  <2> QED
    BY <2>1, <2>2, <2>3, <2>4 DEF TackyInstruction
<1> QED
  BY <1>1, TupleLengths, LowerFresh

LEMMA PlacesItself ==
  ASSUME NEW a
  PROVE  Places(a, a)
BY DEF Places, PlacedAs

(* A visit method appends the block of its instruction. *)
LEMMA ShapeVisit ==
  ASSUME IInv, AsmInv, AsmShape, VisitInstruction, ~BeginAllocation
  PROVE  AsmShape'
<1> DEFINE asm  == asm_instructions
           body == Lower(tacky[next])
           n    == Len(asm)
           b    == Len(body)
           mine == [k \in 1..b |-> next]
<1>1. phase = "visit" /\ next <= Len(tacky) /\ PushBack(body)
  BY VisitLowers
<1>2. /\ next \in 1..Len(tacky) /\ tacky[next] \in TackyInstruction
      /\ next \in Nat \ {0} /\ Len(tacky) \in Nat
  <2>1. tacky \in Seq(TackyInstruction) /\ next \in Nat \ {0} /\ Len(tacky) \in Nat
    BY LenProperties DEF IInv, TypeOK
  <2> QED
    BY <1>1, <2>1, ElementOfSeq
<1>3. body \in Seq(Fresh) /\ b \in 1..4
  BY <1>2, LowerLength
<1>4. body \in Seq(Lowered)
  BY <1>3, SeqMonotonic DEF Fresh
<1>5. mine \in Seq(Nat) /\ Len(mine) = b /\ \A k \in 1..b : mine[k] = next
  <2> HIDE DEF b
  <2> QED
    BY <1>2, <1>3
<1>6. /\ asm' = asm \o body /\ origin' = origin \o mine
      /\ phase' = phase /\ tacky' = tacky /\ next' = next + 1 /\ offset_map' = offset_map
  BY <1>1 DEF PushBack
<1> HIDE DEF body, mine
<1>7. /\ n \in Nat
      /\ Len(asm') = n + b
      /\ \A i \in 1..n : asm'[i] = asm[i]
      /\ \A k \in 1..b : asm'[n + k] = body[k]
  <2>1. asm \in Seq(Lowered) /\ n \in Nat
    BY LenProperties DEF IInv
  <2>2. /\ Len(asm \o body) = n + b
        /\ \A i \in 1..n + b : (asm \o body)[i] = IF i <= n THEN asm[i] ELSE body[i - n]
    BY <1>4, <2>1, ConcatProperties
  <2> QED
    BY <1>3, <1>6, <2>1, <2>2
<1>8. /\ origin' \in Seq(Nat) /\ Len(origin') = n + b
      /\ \A i \in 1..n : origin'[i] = origin[i]
      /\ \A k \in 1..b : origin'[n + k] = next
  <2>1. origin \in Seq(Nat) /\ Len(origin) = n /\ b \in Nat /\ n \in Nat
    BY <1>3, <1>7 DEF AsmShape
  <2> HIDE DEF n, b
  <2>2. /\ (origin \o mine) \in Seq(Nat)
        /\ Len(origin \o mine) = n + b
        /\ \A i \in 1..n + b : (origin \o mine)[i] = IF i <= n THEN origin[i] ELSE mine[i - n]
    BY <1>5, <2>1, ConcatProperties
  <2>3. \A k \in 1..b : n + k \in 1..n + b /\ ~(n + k <= n) /\ n + k - n = k
    BY <2>1
  <2>4. \A i \in 1..n : i \in 1..n + b /\ i <= n
    BY <2>1
  <2>5. \A k \in 1..b : (origin \o mine)[n + k] = next
    <3> TAKE k \in 1..b
    <3>1. (origin \o mine)[n + k] = mine[n + k - n]
      BY <2>1, <2>2, <2>3
    <3> QED
      BY <1>5, <2>3, <3>1
  <2> QED
    BY <1>6, <2>2, <2>4, <2>5
<1>9. Visited = next - 1 /\ Visited' = next
  BY <1>1, <1>2, <1>6 DEF Visited
<1>10. PICK first : Blocks(first)
  BY DEF AsmShape
<1> HIDE DEF n, b, asm
<1>11. /\ first \in [1..next -> Nat \ {0}]
       /\ first[1] = 1 /\ first[next] = n + 1
       /\ \A t \in 1..next - 1 :
            /\ first[t + 1] = first[t] + Len(Lower(tacky[t]))
            /\ first[t + 1] <= n + 1
            /\ \A j \in 1..Len(Lower(tacky[t])) :
                 /\ Places(asm[first[t] + j - 1], Lower(tacky[t])[j])
                 /\ origin[first[t] + j - 1] = t
       /\ \A a \in 1..n :
            \E t \in 1..next - 1 : \E j \in 1..Len(Lower(tacky[t])) : a = first[t] + j - 1
  <2>1. next - 1 + 1 = next
    BY <1>2
  <2> QED
    BY <1>9, <1>10, <2>1 DEF Blocks, n, asm
<1>12. PICK more : /\ more \in [1..next + 1 -> Nat \ {0}]
                   /\ \A t \in 1..next : more[t] = first[t]
                   /\ more[next + 1] = n + b + 1
  <2> DEFINE f == [t \in 1..next + 1 |-> IF t <= next THEN first[t] ELSE n + b + 1]
  <2>1. /\ f \in [1..next + 1 -> Nat \ {0}]
        /\ \A t \in 1..next : f[t] = first[t]
        /\ f[next + 1] = n + b + 1
    BY <1>2, <1>3, <1>7, <1>11
  <2> QED
    BY <2>1
<1>13. \A t \in 1..next - 1 : t \in 1..next /\ t + 1 \in 1..next
  BY <1>2
<1>14. ASSUME NEW t \in 1..next
       PROVE  /\ more[t + 1] = more[t] + Len(Lower(tacky[t]))
              /\ more[t + 1] <= n + b + 1
              /\ \A j \in 1..Len(Lower(tacky[t])) :
                   /\ Places(asm'[more[t] + j - 1], Lower(tacky[t])[j])
                   /\ origin'[more[t] + j - 1] = t
  <2>1. CASE t = next
    <3>1. more[t] = n + 1 /\ more[t + 1] = n + b + 1 /\ Len(Lower(tacky[t])) = b
      BY <1>2, <1>11, <1>12, <2>1 DEF b, body
    <3>2. \A j \in 1..b : more[t] + j - 1 = n + j
      BY <1>3, <1>7, <3>1
    <3>3. \A j \in 1..b : asm'[more[t] + j - 1] = Lower(tacky[t])[j] /\ origin'[more[t] + j - 1] = t
      BY <1>7, <1>8, <2>1, <3>2 DEF body
    <3> QED
      BY SMTT(30), <1>3, <1>7, <3>1, <3>3, PlacesItself
  <2>2. CASE t # next
    <3>1. t \in 1..next - 1
      BY <1>2, <2>2
    <3>2. /\ more[t] = first[t] /\ more[t + 1] = first[t + 1]
          /\ first[t] \in Nat \ {0} /\ first[t + 1] \in Nat
          /\ first[t + 1] = first[t] + Len(Lower(tacky[t]))
          /\ first[t + 1] <= n + 1
      BY <1>11, <1>12, <1>13, <3>1
    <3>3. Len(Lower(tacky[t])) \in Nat
      <4>1. t \in 1..Len(tacky) /\ tacky \in Seq(TackyInstruction)
        BY <1>2, <3>1 DEF IInv, TypeOK
      <4>2. tacky[t] \in TackyInstruction
        BY <4>1, ElementOfSeq
      <4> QED
        BY <4>2, LowerLength
    <3>4. \A j \in 1..Len(Lower(tacky[t])) : first[t] + j - 1 \in 1..n
      BY <1>7, <3>2, <3>3
    <3>5. \A j \in 1..Len(Lower(tacky[t])) :
            /\ asm'[more[t] + j - 1] = asm[first[t] + j - 1]
            /\ origin'[more[t] + j - 1] = origin[first[t] + j - 1]
      BY <1>7, <1>8, <3>2, <3>4
    <3>6. n + 1 <= n + b + 1
      BY <1>3, <1>7
    <3>7. more[t + 1] <= n + b + 1
      BY <1>3, <1>7, <3>2
    <3> QED
      BY <1>11, <3>1, <3>2, <3>5, <3>7
  <2> QED
    BY <2>1, <2>2
<1>15. ASSUME NEW a \in 1..n + b
       PROVE  \E t \in 1..next : \E j \in 1..Len(Lower(tacky[t])) : a = more[t] + j - 1
  <2>1. CASE a \in 1..n
    <3>1. PICK t \in 1..next - 1 : \E j \in 1..Len(Lower(tacky[t])) : a = first[t] + j - 1
      BY <1>11, <2>1
    <3>2. t \in 1..next /\ more[t] = first[t]
      BY <1>12, <1>13
    <3> QED
      BY <3>1, <3>2
  <2>2. CASE a - n \in 1..b
    <3>1. next \in 1..next /\ more[next] = n + 1
      BY <1>2, <1>11, <1>12
    <3>2. a = more[next] + (a - n) - 1
      BY <1>7, <2>2, <3>1
    <3>3. Len(Lower(tacky[next])) = b
      BY DEF b, body
    <3> QED
      BY <2>2, <3>1, <3>2, <3>3
  <2> QED
    BY <1>3, <1>7, <2>1, <2>2
<1>16. more[1] = 1
  BY <1>2, <1>11, <1>12
<1>17. Blocks(more)'
  <2>1. /\ \A t \in 1..next :
              /\ more[t + 1] = more[t] + Len(Lower(tacky[t]))
              /\ more[t + 1] <= n + b + 1
              /\ \A j \in 1..Len(Lower(tacky[t])) :
                   /\ Places(asm'[more[t] + j - 1], Lower(tacky[t])[j])
                   /\ origin'[more[t] + j - 1] = t
    BY <1>14
  <2>3. Len(asm_instructions') = n + b /\ asm_instructions' = asm'
    BY <1>7 DEF asm
  <2>4. more \in [1..Visited' + 1 -> Nat \ {0}] /\ more[Visited' + 1] = Len(asm_instructions') + 1
    BY <1>9, <1>12, <2>3
  <2>5. ASSUME NEW t \in 1..Visited'
        PROVE  /\ more[t + 1] = more[t] + Len(Lower(tacky'[t]))
               /\ more[t + 1] <= Len(asm_instructions') + 1
               /\ \A j \in 1..Len(Lower(tacky'[t])) :
                    /\ Places(asm_instructions[more[t] + j - 1], Lower(tacky[t])[j])'
                    /\ origin'[more[t] + j - 1] = t
    <3>1. t \in 1..next /\ tacky' = tacky
      BY <1>6, <1>9
    <3>2. \A j : Places(asm'[more[t] + j - 1], Lower(tacky[t])[j]) =>
                 Places(asm_instructions[more[t] + j - 1], Lower(tacky[t])[j])'
      BY ZenonT(30), <1>6, <2>3 DEF Places, PlacedAs
    <3> QED
      BY <2>1, <2>3, <3>1, <3>2
  <2>6. \A a \in 1..Len(asm_instructions') :
          \E t \in 1..Visited' : \E j \in 1..Len(Lower(tacky'[t])) : a = more[t] + j - 1
    BY <1>6, <1>9, <1>15, <2>3
  <2> QED
    BY <1>16, <2>4, <2>5, <2>6 DEF Blocks
<1> QED
  BY <1>7, <1>8, <1>17 DEF AsmShape, asm

LEMMA VisitedNat ==
  ASSUME IInv
  PROVE  Visited \in Nat
<1>1. next \in Nat \ {0} /\ Len(tacky) \in Nat
  BY LenProperties DEF IInv, TypeOK
<1> QED
  BY <1>1 DEF Visited

(* allocate_pseudo places operands, and the shape stays. *)
LEMMA ShapeKept ==
  ASSUME IInv, AsmShape,
         Len(asm_instructions') = Len(asm_instructions), origin' = origin, tacky' = tacky,
         Visited' = Visited,
         \A a \in 1..Len(asm_instructions) : \A b :
           Places(asm_instructions[a], b) => Places(asm_instructions[a], b)'
  PROVE  AsmShape'
<1>1. PICK first : Blocks(first)
  BY DEF AsmShape
<1>2. Blocks(first)'
  <2>1. \A t \in 1..Visited : \A j \in 1..Len(Lower(tacky[t])) :
          first[t] + j - 1 \in 1..Len(asm_instructions)
    <3> TAKE t \in 1..Visited
    <3> TAKE j \in 1..Len(Lower(tacky[t]))
    <3>1. /\ first[t] \in Nat \ {0}
          /\ first[t + 1] = first[t] + Len(Lower(tacky[t]))
          /\ first[t + 1] <= Len(asm_instructions) + 1
      <4>1. /\ first[t + 1] = first[t] + Len(Lower(tacky[t]))
            /\ first[t + 1] <= Len(asm_instructions) + 1
        BY <1>1 DEF Blocks
      <4>2. first \in [1..Visited + 1 -> Nat \ {0}] /\ t \in 1..Visited + 1
        BY <1>1, VisitedNat DEF Blocks
      <4> QED
        BY <4>1, <4>2
    <3>2. Len(asm_instructions) \in Nat
      BY LenProperties DEF AsmShape
    <3>3. Len(Lower(tacky[t])) \in Int
      OBVIOUS
    <3> QED
      BY <3>1, <3>2, <3>3
  <2>2. \A t \in 1..Visited : \A j \in 1..Len(Lower(tacky[t])) :
          Places(asm_instructions[first[t] + j - 1], Lower(tacky[t])[j])
    BY <1>1 DEF Blocks
  <2>3. \A t \in 1..Visited : \A j \in 1..Len(Lower(tacky[t])) :
          Places(asm_instructions[first[t] + j - 1], Lower(tacky[t])[j])'
    <3> TAKE t \in 1..Visited
    <3> TAKE j \in 1..Len(Lower(tacky[t]))
    <3> DEFINE a == first[t] + j - 1
               b == Lower(tacky[t])[j]
    <3>1. a \in 1..Len(asm_instructions) /\ Places(asm_instructions[a], b)
      BY <2>1, <2>2
    <3>2. Places(asm_instructions[a], b)'
      BY <3>1
    <3> QED
      BY <3>2
  <2> QED
    BY <1>1, <2>3 DEF Blocks
<1> QED
  BY <1>2 DEF AsmShape

LEMMA SamePlaces ==
  ASSUME \A o, p : PlacedAs(o, p) => PlacedAs(o, p)'
  PROVE  \A a, b : Places(a, b) => Places(a, b)'
BY DEF Places

LEMMA Reshaped ==
  ASSUME NEW i \in AsmInstruction, NEW ops
  PROVE  LET j == [i EXCEPT !.ops = ops]
         IN  /\ j.kind = i.kind
             /\ i.kind \in {"Unary", "Binary"} => j.op = i.op
             /\ i.kind \in {"SetCC", "JmpCC"} => j.cc = i.cc
             /\ i.kind \in {"Jmp", "JmpCC"} => j.target = i.target
             /\ i.kind = "Label" => j.id = i.id
BY DEF AsmInstruction

LEMMA ShapeReplace ==
  ASSUME IInv, AsmShape, AtOperand, Here.type = "PSEUDO", NEW offset \in Int, Replace(offset),
         UNCHANGED <<phase, tacky, next, origin>>,
         DOMAIN offset_map \subseteq DOMAIN offset_map',
         \A x \in DOMAIN offset_map : offset_map'[x] = offset_map[x],
         Here.id \in DOMAIN offset_map', offset_map'[Here.id] = offset
  PROVE  AsmShape'
<1> DEFINE asm == asm_instructions
           ops == [asm[next].ops EXCEPT ![operand] = Stack(offset)]
           new == [asm[next] EXCEPT !.ops = ops]
<1>1. /\ next \in 1..Len(asm)
      /\ operand \in 1..Len(asm[next].ops)
      /\ Len(asm') = Len(asm)
      /\ \A i \in 1..Len(asm) :
           /\ Len(asm'[i].ops) = Len(asm[i].ops)
           /\ \A k \in 1..Len(asm[i].ops) :
                asm'[i].ops[k] = IF i = next /\ k = operand THEN Stack(offset) ELSE asm[i].ops[k]
  BY PlacedOperand
<1>2. asm \in Seq(Lowered) /\ Len(asm) \in Nat
  BY LenProperties DEF IInv
<1>3. asm' = [asm EXCEPT ![next] = new]
  BY DEF Replace
<1>4. asm[next] \in AsmInstruction
  BY <1>1, <1>2, ElementOfSeq DEF Lowered
<1>5. /\ new.kind = asm[next].kind
      /\ asm[next].kind \in {"Unary", "Binary"} => new.op = asm[next].op
      /\ asm[next].kind \in {"SetCC", "JmpCC"} => new.cc = asm[next].cc
      /\ asm[next].kind \in {"Jmp", "JmpCC"} => new.target = asm[next].target
      /\ asm[next].kind = "Label" => new.id = asm[next].id
  BY <1>4, Reshaped
<1>6. Here = asm[next].ops[operand]
  BY DEF Here
<1> HIDE DEF ops, new
<1>7. \A a \in 1..Len(asm) : asm'[a] = IF a = next THEN new ELSE asm[a]
  BY <1>1, <1>2, <1>3
<1>8. \A o, p : PlacedAs(o, p) => PlacedAs(o, p)'
  BY DEF PlacedAs
<1>9. \A p : PlacedAs(Here, p) => p.type = "PSEUDO" /\ p.id = Here.id
  BY DEF PlacedAs, Stack
<1>10. \A p : PlacedAs(Here, p) => p.type = "PSEUDO" /\ p.id \in DOMAIN offset_map'
                                   /\ Stack(offset) = Stack(offset_map'[p.id])
  BY <1>9
<1>11. ASSUME NEW a \in 1..Len(asm), NEW b, Places(asm[a], b)
       PROVE  Places(asm[a], b)'
  <2> HIDE DEF asm
  <2>1. CASE a # next
    <3>1. asm'[a] = asm[a]
      BY <1>7, <2>1
    <3> QED
      BY <1>8, <1>11, <3>1, SamePlaces DEF Places
  <2>2. CASE a = next
    <3>1. asm'[a] = new /\ Len(new.ops) = Len(asm[a].ops)
      BY <1>1, <1>7, <2>2
    <3>2. ASSUME NEW k \in 1..Len(b.ops) PROVE PlacedAs(asm[a].ops[k], b.ops[k])'
      <4>1. PlacedAs(asm[a].ops[k], b.ops[k]) /\ k \in 1..Len(asm[a].ops)
        BY <1>11 DEF Places
      <4>2. CASE k = operand
        <5>1. asm'[a].ops[k] = Stack(offset)
          BY <1>1, <2>2, <4>2
        <5>2. asm[a].ops[k] = Here
          BY <1>6, <2>2, <4>2
        <5> QED
          BY <1>10, <4>1, <5>1, <5>2 DEF PlacedAs
      <4>3. CASE k # operand
        <5>1. asm'[a].ops[k] = asm[a].ops[k]
          BY <1>1, <4>1, <4>3
        <5> QED
          BY <1>8, <4>1, <5>1 DEF PlacedAs
      <4> QED
        BY <4>2, <4>3
    <3> QED
      BY <1>5, <1>11, <2>2, <3>1, <3>2 DEF Places
  <2> QED
    BY <2>1, <2>2
<1>12. Visited' = Visited
  BY DEF Visited
<1> QED
  BY <1>1, <1>11, <1>12, ShapeKept

LEMMA ShapeStep ==
  ASSUME IInv, AsmInv, AsmShape, Next
  PROVE  AsmShape'
<1>1. CASE VisitInstruction /\ ~BeginAllocation
  BY <1>1, ShapeVisit
<1>2. CASE BeginAllocation
  <2>1. /\ phase = "visit" /\ next > Len(tacky) /\ phase' = "allocate"
        /\ UNCHANGED <<tacky, asm_instructions, origin, offset_map>>
    BY <1>2 DEF BeginAllocation
  <2>2. next \in Nat /\ Len(tacky) \in Nat
    BY LenProperties DEF IInv, TypeOK
  <2>3. Visited' = Visited
    BY <2>1, <2>2 DEF Visited, AsmInv
  <2> QED
    BY <2>1, <2>3, ShapeKept DEF Places, PlacedAs
<1>3. CASE ReplaceNewPseudo
  <2>1. /\ AtOperand /\ Here.type = "PSEUDO" /\ Replace(cur_offset - 4)
        /\ cur_offset - 4 \in Int
        /\ UNCHANGED <<phase, tacky, next, origin>>
        /\ Here.id \notin DOMAIN offset_map
        /\ offset_map' = [x \in DOMAIN offset_map \cup {Here.id} |->
                            IF x = Here.id THEN cur_offset - 4 ELSE offset_map[x]]
    BY <1>3 DEF ReplaceNewPseudo, IInv, TypeOK
  <2>2. /\ DOMAIN offset_map \subseteq DOMAIN offset_map'
        /\ \A x \in DOMAIN offset_map : offset_map'[x] = offset_map[x]
        /\ Here.id \in DOMAIN offset_map' /\ offset_map'[Here.id] = cur_offset - 4
    BY <2>1
  <2> QED
    BY <2>1, <2>2, ShapeReplace
<1>4. CASE ReplaceKnownPseudo
  <2>1. /\ AtOperand /\ Here.type = "PSEUDO" /\ Replace(offset_map[Here.id])
        /\ offset_map[Here.id] \in Int /\ Here.id \in DOMAIN offset_map
        /\ UNCHANGED <<phase, tacky, next, origin, offset_map>>
    BY <1>4 DEF ReplaceKnownPseudo, IInv, TypeOK
  <2> QED
    BY <2>1, ShapeReplace
<1>5. CASE KeepOperand \/ NextInstruction \/ BeginPrinting \/ PrintInstruction \/ EndPrinting
  <2>1. /\ phase # "visit" /\ phase' # "visit"
        /\ UNCHANGED <<tacky, asm_instructions, origin, offset_map>>
    BY <1>5 DEF KeepOperand, AtOperand, NextInstruction, BeginPrinting, PrintInstruction,
       EndPrinting
  <2> QED
    BY <2>1, ShapeKept DEF Places, PlacedAs, Visited
<1> QED
  BY <1>1, <1>2, <1>3, <1>4, <1>5 DEF Next, VisitInstruction, AllocatePseudo

LEMMA ShapeInit == Init => AsmShape
<1> SUFFICES ASSUME Init PROVE AsmShape
  OBVIOUS
<1>1. phase = "visit" /\ next = 1 /\ asm_instructions = <<>> /\ origin = <<>>
  BY DEF Init, CodeGenStart
<1>2. Visited = 0
  BY <1>1 DEF Visited
<1>3. Len(asm_instructions) = 0 /\ origin \in Seq(Nat) /\ Len(origin) = 0
  BY <1>1, EmptySeq
<1>4. Blocks([t \in 1..1 |-> 1])
  BY <1>2, <1>3 DEF Blocks
<1> QED
  BY <1>3, <1>4 DEF AsmShape

-----------------------------------------------------------------------------
(* The lines of every assembly instruction. *)

LEMMA LinesBegin ==
  ASSUME IInv, BeginPrinting
  PROVE  OutShape'
<1>1. /\ phase' = "print" /\ next' = 1 /\ out' = Prologue
      /\ out_origin' = [k \in DOMAIN Prologue |-> 1]
  BY DEF BeginPrinting
<1>2. DOMAIN Prologue = 1..2 /\ Len(Prologue) = 2
  BY DEF Prologue
<1>3. out_origin' = [k \in 1..2 |-> 1]
  BY <1>1, <1>2
<1>4. out_origin' \in Seq(Nat) /\ Len(out_origin') = 2 /\ out_origin'[1] = 1 /\ out_origin'[2] = 1
  BY <1>3
<1>5. Len(out') = 2
  BY <1>1, <1>2
<1>6. Printed' = 0
  BY <1>1 DEF Printed
<1> DEFINE at == [a \in 1..1 |-> 3]
<1>7. Lines(at)'
  BY <1>5, <1>6 DEF Lines
<1> QED
  BY <1>4, <1>5, <1>7 DEF OutShape

LEMMA LinesPrint ==
  ASSUME IInv, AsmInv, AsmShape, OutInv, OutShape, PrintInstruction
  PROVE  OutShape'
<1> DEFINE lines == code_gen(asm_instructions[next])
           n     == Len(out)
           b     == Len(lines)
           from  == origin[next]
           mine  == [k \in 1..b |-> from]
<1>1. /\ phase = "print" /\ next <= Len(asm_instructions) /\ next' = next + 1
      /\ out' = out \o lines /\ out_origin' = out_origin \o mine
      /\ UNCHANGED <<phase, asm_instructions, origin>>
  BY DEF PrintInstruction
<1>2. next \in 1..Len(asm_instructions) /\ next \in Nat \ {0}
  BY <1>1, LenProperties DEF IInv, TypeOK
<1>3. lines \in Seq(EncodableLine) /\ b \in Nat
  BY <1>1, LinesOfNext, LenProperties
<1>4. from \in Nat
  BY <1>2, ElementOfSeq DEF AsmShape
<1>5. mine \in Seq(Nat) /\ Len(mine) = b /\ \A k \in 1..b : mine[k] = from
  <2> HIDE DEF b, from
  <2> QED
    BY <1>3, <1>4
<1> HIDE DEF lines, mine, from
<1>6. /\ n \in Nat /\ n >= 2
      /\ Len(out') = n + b
      /\ \A i \in 1..n : out'[i] = out[i]
      /\ \A k \in 1..b : out'[n + k] = lines[k]
  <2>1. out \in Seq(EncodableLine) /\ n \in Nat /\ n >= 2
    BY <1>1, LenProperties DEF IInv, OutInv
  <2>2. /\ Len(out \o lines) = n + b
        /\ \A i \in 1..n + b : (out \o lines)[i] = IF i <= n THEN out[i] ELSE lines[i - n]
    BY <1>3, <2>1, ConcatProperties
  <2> HIDE DEF n, b
  <2>3. \A k \in 1..b : n + k \in 1..n + b /\ ~(n + k <= n) /\ n + k - n = k
    BY <1>3, <2>1
  <2>4. \A i \in 1..n : i \in 1..n + b /\ i <= n
    BY <1>3, <2>1
  <2>5. \A k \in 1..b : (out \o lines)[n + k] = lines[k]
    <3> TAKE k \in 1..b
    <3>1. (out \o lines)[n + k] = lines[n + k - n]
      BY <1>3, <2>1, <2>2, <2>3
    <3> QED
      BY <2>3, <3>1
  <2> QED
    BY <1>1, <2>1, <2>2, <2>4, <2>5
<1>7. out_origin \in Seq(Nat) /\ Len(out_origin) = n /\ out_origin[1] = 1 /\ out_origin[2] = 1
  BY <1>1 DEF OutShape
<1>8. /\ out_origin' \in Seq(Nat) /\ Len(out_origin') = n + b
      /\ \A i \in 1..n : out_origin'[i] = out_origin[i]
      /\ \A k \in 1..b : out_origin'[n + k] = from
  <2> HIDE DEF n, b
  <2>2. /\ (out_origin \o mine) \in Seq(Nat)
        /\ Len(out_origin \o mine) = n + b
        /\ \A i \in 1..n + b :
             (out_origin \o mine)[i] = IF i <= n THEN out_origin[i] ELSE mine[i - n]
    BY ZenonT(30), <1>5, <1>7, ConcatProperties
  <2>3. \A k \in 1..b : n + k \in 1..n + b /\ ~(n + k <= n) /\ n + k - n = k
    BY <1>3, <1>6
  <2>4. \A i \in 1..n : i \in 1..n + b /\ i <= n
    BY <1>3, <1>6
  <2>5. \A k \in 1..b : (out_origin \o mine)[n + k] = from
    <3> TAKE k \in 1..b
    <3>1. (out_origin \o mine)[n + k] = mine[n + k - n]
      BY <1>3, <1>6, <2>2, <2>3
    <3> QED
      BY <1>5, <2>3, <3>1
  <2> QED
    BY <1>1, <2>2, <2>4, <2>5
<1>9. Printed = next - 1 /\ Printed' = next
  BY <1>1, <1>2 DEF Printed
<1>10. PICK at : Lines(at)
  BY <1>1 DEF OutShape
<1> HIDE DEF n, b
<1>11. /\ at \in [1..next -> Nat \ {0}]
       /\ at[1] = 3 /\ at[next] = n + 1
       /\ \A a \in 1..next - 1 :
            /\ at[a + 1] = at[a] + Len(code_gen(asm_instructions[a]))
            /\ 3 <= at[a] /\ at[a + 1] <= n + 1
            /\ \A m \in 1..Len(code_gen(asm_instructions[a])) :
                 /\ out[at[a] + m - 1] = code_gen(asm_instructions[a])[m]
                 /\ out_origin[at[a] + m - 1] = origin[a]
       /\ \A i \in 3..n :
            \E a \in 1..next - 1 : \E m \in 1..Len(code_gen(asm_instructions[a])) :
              i = at[a] + m - 1
  <2>1. next - 1 + 1 = next
    BY <1>2
  <2> QED
    BY <1>9, <1>10, <2>1 DEF Lines, n
<1>12. PICK more : /\ more \in [1..next + 1 -> Nat \ {0}]
                   /\ \A a \in 1..next : more[a] = at[a]
                   /\ more[next + 1] = n + b + 1
  <2> DEFINE f == [a \in 1..next + 1 |-> IF a <= next THEN at[a] ELSE n + b + 1]
  <2>1. /\ f \in [1..next + 1 -> Nat \ {0}]
        /\ \A a \in 1..next : f[a] = at[a]
        /\ f[next + 1] = n + b + 1
    BY <1>2, <1>3, <1>6, <1>11
  <2> QED
    BY <2>1
<1>13. \A a \in 1..next - 1 : a \in 1..next /\ a + 1 \in 1..next /\ a \in 1..Len(asm_instructions)
  BY <1>2
<1>14. ASSUME NEW a \in 1..next
       PROVE  /\ more[a + 1] = more[a] + Len(code_gen(asm_instructions[a]))
              /\ 3 <= more[a] /\ more[a + 1] <= n + b + 1
              /\ \A m \in 1..Len(code_gen(asm_instructions[a])) :
                   /\ out'[more[a] + m - 1] = code_gen(asm_instructions[a])[m]
                   /\ out_origin'[more[a] + m - 1] = origin[a]
  <2>1. CASE a = next
    <3>1. more[a] = n + 1 /\ more[a + 1] = n + b + 1 /\ Len(code_gen(asm_instructions[a])) = b
      BY <1>2, <1>11, <1>12, <2>1 DEF b, lines
    <3>2. \A m \in 1..b : more[a] + m - 1 = n + m
      BY <1>3, <1>6, <3>1
    <3>3. \A m \in 1..b : /\ out'[more[a] + m - 1] = code_gen(asm_instructions[a])[m]
                          /\ out_origin'[more[a] + m - 1] = origin[a]
      BY <1>6, <1>8, <2>1, <3>2 DEF lines, from
    <3> QED
      BY <1>3, <1>6, <3>1, <3>3
  <2>2. CASE a # next
    <3>1. a \in 1..next - 1
      BY <1>2, <2>2
    <3>2. /\ more[a] = at[a] /\ more[a + 1] = at[a + 1]
          /\ at[a] \in Nat \ {0} /\ at[a + 1] \in Nat
          /\ at[a + 1] = at[a] + Len(code_gen(asm_instructions[a]))
          /\ 3 <= at[a] /\ at[a + 1] <= n + 1
      BY <1>11, <1>12, <1>13, <3>1
    <3>5. \A m \in 1..Len(code_gen(asm_instructions[a])) : at[a] + m - 1 \in 1..n
      <4> DEFINE c == Len(code_gen(asm_instructions[a]))
      <4>1. c = at[a + 1] - at[a] \/ c \notin Int
        <5> HIDE DEF c
        <5>1. at[a + 1] = at[a] + c
          BY <3>2 DEF c
        <5> QED
          BY <3>2, <5>1
      <4> HIDE DEF c
      <4> SUFFICES ASSUME NEW m \in 1..c PROVE at[a] + m - 1 \in 1..n
        BY DEF c
      <4>2. c \in Int
        <5>1. asm_instructions[a] \in Lowered
          BY <1>2, <3>1, ElementOfSeq DEF IInv
        <5>2. \A k \in 1..Len(asm_instructions[a].ops) : asm_instructions[a].ops[k].type # "PSEUDO"
          BY <1>1, <1>13, <3>1 DEF IInv, PassedPlaced, Passed
        <5> QED
          BY <5>1, <5>2, CodeGenEncodable, LenProperties DEF c
      <4> QED
        BY SMTT(30), <1>6, <3>2, <4>1, <4>2
    <3>6. \A m \in 1..Len(code_gen(asm_instructions[a])) :
            /\ out'[more[a] + m - 1] = out[at[a] + m - 1]
            /\ out_origin'[more[a] + m - 1] = out_origin[at[a] + m - 1]
      BY <1>6, <1>8, <3>2, <3>5
    <3>7. more[a + 1] <= n + b + 1
      BY <1>3, <1>6, <3>2
    <3> QED
      BY <1>11, <3>1, <3>2, <3>6, <3>7
  <2> QED
    BY <2>1, <2>2
<1>15. ASSUME NEW i \in 3..n + b
       PROVE  \E a \in 1..next : \E m \in 1..Len(code_gen(asm_instructions[a])) :
                i = more[a] + m - 1
  <2>1. CASE i \in 3..n
    <3>1. PICK a \in 1..next - 1 : \E m \in 1..Len(code_gen(asm_instructions[a])) :
            i = at[a] + m - 1
      BY <1>11, <2>1
    <3>2. a \in 1..next /\ more[a] = at[a]
      BY <1>12, <1>13
    <3> QED
      BY <3>1, <3>2
  <2>2. CASE i - n \in 1..b
    <3>1. next \in 1..next /\ more[next] = n + 1
      BY <1>2, <1>11, <1>12
    <3>2. i = more[next] + (i - n) - 1
      BY <1>6, <2>2, <3>1
    <3>3. Len(code_gen(asm_instructions[next])) = b
      BY DEF b, lines
    <3> QED
      BY <2>2, <3>1, <3>2, <3>3
  <2> QED
    BY <1>3, <1>6, <2>1, <2>2
<1>16. more[1] = 3
  BY <1>2, <1>11, <1>12
<1>17. Lines(more)'
  <2>1. asm_instructions' = asm_instructions /\ origin' = origin
    BY <1>1
  <2>2. more \in [1..Printed' + 1 -> Nat \ {0}] /\ more[Printed' + 1] = Len(out') + 1
    BY <1>6, <1>9, <1>12
  <2>3. \A a \in 1..Printed' :
          /\ more[a + 1] = more[a] + Len(code_gen(asm_instructions'[a]))
          /\ 3 <= more[a] /\ more[a + 1] <= Len(out') + 1
          /\ \A m \in 1..Len(code_gen(asm_instructions'[a])) :
               /\ out'[more[a] + m - 1] = code_gen(asm_instructions'[a])[m]
               /\ out_origin'[more[a] + m - 1] = origin'[a]
    BY <1>6, <1>9, <1>14, <2>1
  <2>4. \A i \in 3..Len(out') :
          \E a \in 1..Printed' : \E m \in 1..Len(code_gen(asm_instructions'[a])) :
            i = more[a] + m - 1
    BY <1>6, <1>9, <1>15, <2>1
  <2> QED
    BY <1>16, <2>2, <2>3, <2>4 DEF Lines
<1>18. 1 \in 1..n /\ 2 \in 1..n
  BY <1>6
<1> QED
  BY <1>6, <1>7, <1>8, <1>17, <1>18 DEF OutShape

LEMMA LinesStep ==
  ASSUME IInv, AsmInv, AsmShape, OutInv, OutShape, Next
  PROVE  OutShape'
<1>1. CASE PrintInstruction
  BY <1>1, LinesPrint
<1>2. CASE BeginPrinting
  BY <1>2, LinesBegin
<1>3. CASE EndPrinting
  <2>1. /\ phase = "print" /\ next > Len(asm_instructions) /\ phase' = "done"
        /\ UNCHANGED <<out, asm_instructions, origin, out_origin>>
    BY <1>3 DEF EndPrinting
  <2>2. next <= Len(asm_instructions) + 1
    BY <2>1 DEF OutInv
  <2>3. next \in Nat /\ Len(asm_instructions) \in Nat
    BY LenProperties DEF IInv, TypeOK
  <2>4. Printed' = Printed
    BY <2>1, <2>2, <2>3 DEF Printed
  <2>5. PICK at : Lines(at)
    BY <2>1 DEF OutShape
  <2>6. Lines(at)'
    BY <2>1, <2>4, <2>5 DEF Lines
  <2> QED
    BY <2>1, <2>6 DEF OutShape
<1>4. CASE VisitInstruction \/ ReplaceNewPseudo \/ ReplaceKnownPseudo \/ KeepOperand
           \/ NextInstruction
  <2>1. phase' \in {"visit", "allocate"}
    <3>1. CASE VisitInstruction /\ ~BeginAllocation
      BY <3>1, VisitLowers DEF PushBack
    <3>2. CASE BeginAllocation
      BY <3>2 DEF BeginAllocation
    <3>3. CASE ~VisitInstruction
      BY <1>4, <3>3 DEF ReplaceNewPseudo, ReplaceKnownPseudo, KeepOperand, AtOperand,
         NextInstruction
    <3> QED
      BY <3>1, <3>2, <3>3
  <2> QED
    BY <2>1 DEF OutShape
<1> QED
  BY <1>1, <1>2, <1>3, <1>4 DEF Next, AllocatePseudo

-----------------------------------------------------------------------------
(* The slots and the variables. *)

(* The pseudo-registers of a block are the variables of its instruction. *)
LEMMA ConvertedNames ==
  ASSUME NEW v \in Operand
  PROVE  /\ v.tag = "const" => /\ convert_val(v) = Immediate(v.value) /\ v.value \in Int
                               /\ Meaning!Named(v) = {}
         /\ v.tag = "var" => convert_val(v) = Pseudo(v.id) /\ Meaning!Named(v) = {v.id}
         /\ v.tag \in {"const", "var"}
BY DEF Operand, convert_val, Meaning!Named

Reading(i) == Meaning!Sources(i) \cup Meaning!Destinations(i)

LEMMA ReadingForms ==
  ASSUME NEW i \in TackyInstruction
  PROVE  /\ i.kind = "Return" => Reading(i) = {i.src}
         /\ i.kind = "Unary" => Reading(i) = {i.src, i.dst}
         /\ i.kind = "Copy" => Reading(i) = {i.src, i.dst}
         /\ i.kind = "Binary" => Reading(i) = {i.src1, i.src2, i.dst}
         /\ i.kind \in {"JumpIfZero", "JumpIfNotZero"} => Reading(i) = {i.cond}
         /\ i.kind \in {"Jump", "Label"} => Reading(i) = {}
         /\ Reading(i) \subseteq Operand
<1>1. Variable \subseteq Operand
  BY DEF Variable, Operand
<1>2. CASE i.kind \in {"Return", "Unary", "Copy"}
  BY <1>1, <1>2, TackyFields DEF Reading, Meaning!Sources, Meaning!Destinations
<1>3. CASE i.kind = "Binary"
  BY <1>1, <1>3, TackyFields DEF Reading, Meaning!Sources, Meaning!Destinations
<1>4. CASE i.kind \in {"JumpIfZero", "JumpIfNotZero", "Jump", "Label"}
  BY <1>4, TackyFields DEF Reading, Meaning!Sources, Meaning!Destinations
<1> QED
  BY <1>2, <1>3, <1>4 DEF TackyInstruction

(* Every operand of the block that is a pseudo-register is a variable that *)
(* the instruction names, and every one of these is an operand.            *)
BlockNames(body, i) ==
  /\ \A j \in 1..Len(body) : \A k \in 1..Len(body[j].ops) :
       body[j].ops[k].type = "PSEUDO" =>
         \E v \in Reading(i) : v.tag = "var" /\ v.id = body[j].ops[k].id
  /\ \A v \in Reading(i) : v.tag = "var" =>
       \E j \in 1..Len(body) : \E k \in 1..Len(body[j].ops) : body[j].ops[k] = Pseudo(v.id)

LEMMA OperandsOf ==
  /\ \A s, d : /\ Mov(s, d).ops = <<s, d>> /\ Cmp(s, d).ops = <<s, d>>
               /\ \A op : BinaryASM(op, s, d).ops = <<s, d>>
  /\ \A o : /\ Idiv(o).ops = <<o>>
            /\ \A op : UnaryASM(op, o).ops = <<o>> /\ SetCC(op, o).ops = <<o>>
  /\ Cdq.ops = <<>> /\ Ret.ops = <<>>
  /\ \A l : Jmp(l).ops = <<>> /\ AsmLabel(l).ops = <<>> /\ \A cc : JmpCC(cc, l).ops = <<>>
BY DEF Mov, Cmp, BinaryASM, Idiv, UnaryASM, SetCC, Cdq, Ret, Jmp, AsmLabel, JmpCC

(* The operands of an instruction, and of a block: those of a set, and     *)
(* immediates and registers.                                               *)
Uses(a, set) ==
  /\ \A k \in 1..Len(a.ops) : a.ops[k] \in set \/ a.ops[k].type \in {"IMM", "REG"}
  /\ \A o \in set : \E k \in 1..Len(a.ops) : a.ops[k] = o

Operands(body, set) ==
  /\ \A j \in 1..Len(body) : \A k \in 1..Len(body[j].ops) :
       body[j].ops[k] \in set \/ body[j].ops[k].type \in {"IMM", "REG"}
  /\ \A o \in set : \E j \in 1..Len(body) : \E k \in 1..Len(body[j].ops) : body[j].ops[k] = o

LEMMA ConstantOperands ==
  /\ \A n : Immediate(n).type = "IMM"
  /\ \A r : Register(r).type = "REG"
  /\ \A x : Pseudo(x).type = "PSEUDO" /\ Pseudo(x).id = x
BY DEF Immediate, Register, Pseudo

LEMMA InstructionUses ==
  /\ \A s, d : /\ Uses(Mov(s, d), {s, d}) /\ Uses(Cmp(s, d), {s, d})
               /\ \A op : Uses(BinaryASM(op, s, d), {s, d})
  /\ \A s, r : Uses(Mov(s, Register(r)), {s}) /\ Uses(Mov(Register(r), s), {s})
  /\ \A s, n : Uses(Mov(Immediate(n), s), {s}) /\ Uses(Cmp(Immediate(n), s), {s})
  /\ \A o : Uses(Idiv(o), {o}) /\ \A op : Uses(UnaryASM(op, o), {o}) /\ Uses(SetCC(op, o), {o})
  /\ Uses(Cdq, {}) /\ Uses(Ret, {})
  /\ \A l : Uses(Jmp(l), {}) /\ Uses(AsmLabel(l), {}) /\ \A cc : Uses(JmpCC(cc, l), {})
<1>1. \A a, s, d : a.ops = <<s, d>> =>
        /\ Uses(a, {s, d})
        /\ s.type \in {"IMM", "REG"} => Uses(a, {d})
        /\ d.type \in {"IMM", "REG"} => Uses(a, {s})
  BY DEF Uses
<1>2. \A a, o : a.ops = <<o>> => Uses(a, {o})
  BY DEF Uses
<1>3. \A a : a.ops = <<>> => Uses(a, {})
  BY DEF Uses
<1>4. \A s, d : /\ Uses(Mov(s, d), {s, d}) /\ Uses(Cmp(s, d), {s, d})
                /\ \A op : Uses(BinaryASM(op, s, d), {s, d})
  BY <1>1, OperandsOf
<1>5. \A s, r : Uses(Mov(s, Register(r)), {s}) /\ Uses(Mov(Register(r), s), {s})
  <2> TAKE s, r
  <2> DEFINE x == Register(r)
  <2>1. x.type = "REG"
    BY ConstantOperands
  <2>2. Mov(s, x).ops = <<s, x>> /\ Mov(x, s).ops = <<x, s>>
    BY OperandsOf
  <2> HIDE DEF x
  <2>3. Uses(Mov(s, x), {s}) /\ Uses(Mov(x, s), {s})
    BY <1>1, <2>1, <2>2
  <2> QED
    BY <2>3 DEF x
<1>6. \A s, n : Uses(Mov(Immediate(n), s), {s}) /\ Uses(Cmp(Immediate(n), s), {s})
  <2> TAKE s, n
  <2> DEFINE x == Immediate(n)
  <2>1. x.type = "IMM"
    BY ConstantOperands
  <2>2. Mov(x, s).ops = <<x, s>> /\ Cmp(x, s).ops = <<x, s>>
    BY OperandsOf
  <2> HIDE DEF x
  <2>3. Uses(Mov(x, s), {s}) /\ Uses(Cmp(x, s), {s})
    BY <1>1, <2>1, <2>2
  <2> QED
    BY <2>3 DEF x
<1>7. \A o : Uses(Idiv(o), {o}) /\ \A op : Uses(UnaryASM(op, o), {o}) /\ Uses(SetCC(op, o), {o})
  BY <1>2, OperandsOf
<1>8. /\ Uses(Cdq, {}) /\ Uses(Ret, {})
      /\ \A l : Uses(Jmp(l), {}) /\ Uses(AsmLabel(l), {}) /\ \A cc : Uses(JmpCC(cc, l), {})
  BY <1>3, OperandsOf
<1> QED
  BY <1>4, <1>5, <1>6, <1>7, <1>8

LEMMA BlockUses ==
  ASSUME NEW a, NEW A, Uses(a, A), NEW b, NEW B, Uses(b, B),
         NEW c, NEW C, Uses(c, C), NEW d, NEW D, Uses(d, D)
  PROVE  /\ Operands(<<a>>, A)
         /\ Operands(<<a, b>>, A \cup B)
         /\ Operands(<<a, b, c>>, A \cup B \cup C)
         /\ Operands(<<a, b, c, d>>, A \cup B \cup C \cup D)
<1>1. Operands(<<a>>, A)
  BY DEF Uses, Operands
<1>2. Operands(<<a, b>>, A \cup B)
  BY DEF Uses, Operands
<1>3. ASSUME NEW body, NEW set, NEW n \in Nat, Len(body) = n,
             \A j \in 1..n : \E E : Uses(body[j], E) /\ E \subseteq set,
             \A o \in set : \E j \in 1..n : \E E : Uses(body[j], E) /\ o \in E
      PROVE  Operands(body, set)
  BY ZenonT(30), <1>3 DEF Uses, Operands
<1>4. Operands(<<a, b, c>>, A \cup B \cup C)
  <2> DEFINE body == <<a, b, c>>
             set  == A \cup B \cup C
  <2>1. Len(body) = 3 /\ body[1] = a /\ body[2] = b /\ body[3] = c
    OBVIOUS
  <2> HIDE DEF body
  <2>2. \A j \in 1..3 : \E E : Uses(body[j], E) /\ E \subseteq set
    BY <2>1
  <2>3. \A o \in set : \E j \in 1..3 : \E E : Uses(body[j], E) /\ o \in E
    BY <2>1
  <2> HIDE DEF set
  <2>4. Operands(body, set)
    BY <1>3, <2>1, <2>2, <2>3
  <2> QED
    BY <2>4 DEF body, set
<1>5. Operands(<<a, b, c, d>>, A \cup B \cup C \cup D)
  <2> DEFINE body == <<a, b, c, d>>
             set  == A \cup B \cup C \cup D
  <2>1. Len(body) = 4 /\ body[1] = a /\ body[2] = b /\ body[3] = c /\ body[4] = d
    OBVIOUS
  <2> HIDE DEF body
  <2>2. \A j \in 1..4 : \E E : Uses(body[j], E) /\ E \subseteq set
    BY <2>1
  <2>3. \A o \in set : \E j \in 1..4 : \E E : Uses(body[j], E) /\ o \in E
    BY <2>1
  <2> HIDE DEF set
  <2>4. Operands(body, set)
    BY <1>3, <2>1, <2>2, <2>3
  <2> QED
    BY <2>4 DEF body, set
<1> QED
  BY <1>1, <1>2, <1>4, <1>5

LEMMA OperandsOne ==
  /\ \A s, r : Operands(<<Mov(s, Register(r)), Ret>>, {s})
  /\ \A s, d : Operands(<<Mov(s, d)>>, {s, d})
  /\ \A l : Operands(<<Jmp(l)>>, {}) /\ Operands(<<AsmLabel(l)>>, {})
  /\ \A n, s, cc, l : Operands(<<Cmp(Immediate(n), s), JmpCC(cc, l)>>, {s})
<1>1. \A s, r : Operands(<<Mov(s, Register(r)), Ret>>, {s})
  <2> TAKE s, r
  <2> DEFINE a == Mov(s, Register(r))
  <2>1. Uses(a, {s}) /\ Uses(Ret, {}) /\ {s} \cup {} = {s}
    BY InstructionUses
  <2> HIDE DEF a
  <2>2. Operands(<<a, Ret>>, {s} \cup {})
    BY <2>1, BlockUses
  <2> QED
    BY <2>1, <2>2 DEF a
<1>2. \A s, d : Operands(<<Mov(s, d)>>, {s, d})
  BY InstructionUses, BlockUses
<1>3. \A l : Operands(<<Jmp(l)>>, {}) /\ Operands(<<AsmLabel(l)>>, {})
  BY InstructionUses, BlockUses
<1>4. \A n, s, cc, l : Operands(<<Cmp(Immediate(n), s), JmpCC(cc, l)>>, {s})
  <2> TAKE n, s, cc, l
  <2> DEFINE a == Cmp(Immediate(n), s)
             b == JmpCC(cc, l)
  <2>1. Uses(a, {s}) /\ Uses(b, {}) /\ {s} \cup {} = {s}
    BY InstructionUses
  <2> HIDE DEF a, b
  <2>2. Operands(<<a, b>>, {s} \cup {})
    BY <2>1, BlockUses
  <2> QED
    BY <2>1, <2>2 DEF a, b
<1> QED
  BY <1>1, <1>2, <1>3, <1>4

LEMMA OperandsTwo ==
  /\ \A op, s, d : Operands(LowerUnary(op, s, d), {s, d})
  /\ \A op, s, t, d : Operands(LowerBinary(op, s, t, d), {s, t, d})
<1>1. \A op, s, d : Operands(LowerUnary(op, s, d), {s, d})
  <2> TAKE op, s, d
  <2>1. {s} \cup {d} \cup {d} = {s, d} /\ {s, d} \cup {d} = {s, d}
    OBVIOUS
  <2>2. Operands(<<Cmp(Immediate(0), s), Mov(Immediate(0), d), SetCC("E", d)>>, {s} \cup {d} \cup {d})
    BY InstructionUses, BlockUses
  <2>3. Operands(<<Mov(s, d), UnaryASM(convert_unary[op], d)>>, {s, d} \cup {d})
    BY InstructionUses, BlockUses
  <2> QED
    BY <2>1, <2>2, <2>3 DEF LowerUnary
<1>2. \A op, s, t, d : Operands(LowerBinary(op, s, t, d), {s, t, d})
  <2> TAKE op, s, t, d
  <2>1. /\ {s} \cup {} \cup {t} \cup {d} = {s, t, d}
        /\ {t, s} \cup {d} \cup {d} = {s, t, d}
        /\ {s, d} \cup {t, d} = {s, t, d}
    OBVIOUS
  <2> DEFINE r == IF op = "DIVIDE" THEN "AX" ELSE "DX"
             x == Register("AX")
             z == Register(r)
             ax == Mov(s, x)
             zd == Mov(z, d)
  <2>2. Uses(ax, {s}) /\ Uses(zd, {d}) /\ Uses(Cdq, {}) /\ Uses(Idiv(t), {t})
    <3> HIDE DEF r
    <3> QED
      BY InstructionUses
  <2> HIDE DEF r, x, z, ax, zd
  <2>3. Operands(<<ax, Cdq, Idiv(t), zd>>, {s} \cup {} \cup {t} \cup {d})
    BY <2>2, BlockUses
  <2>4. Operands(Divided(op, s, t, d), {s, t, d})
    BY <2>1, <2>3 DEF Divided, ax, zd, x, z, r
  <2>5. Operands(Related(op, s, t, d), {t, s} \cup {d} \cup {d})
    BY InstructionUses, BlockUses DEF Related
  <2>6. Operands(Computed(op, s, t, d), {s, d} \cup {t, d})
    BY InstructionUses, BlockUses DEF Computed
  <2> QED
    BY <2>1, <2>4, <2>5, <2>6 DEF LowerBinary
<1> QED
  BY <1>1, <1>2

LEMMA LowerNames ==
  ASSUME NEW i \in TackyInstruction
  PROVE  BlockNames(Lower(i), i)
<1>1. Operands(Lower(i), {convert_val(v) : v \in Reading(i)})
  <2>1. CASE i.kind = "Return"
    BY <2>1, LowerForms, ReadingForms, OperandsOne
  <2>4. CASE i.kind \in {"Jump", "Label"}
    <3>1. {convert_val(v) : v \in Reading(i)} = {}
      BY <2>4, ReadingForms
    <3>2. Lower(i) = <<Jmp(i.target)>> \/ Lower(i) = <<AsmLabel(i.id)>>
      BY <2>4, LowerForms
    <3> QED
      BY <3>1, <3>2, OperandsOne
  <2>5. CASE i.kind \in {"JumpIfZero", "JumpIfNotZero"}
    BY <2>5, LowerForms, ReadingForms, OperandsOne
  <2>2. CASE i.kind = "Copy"
    BY <2>2, LowerForms, ReadingForms, OperandsOne
  <2>3. CASE i.kind \in {"Unary", "Binary"}
    BY <2>3, LowerForms, ReadingForms, OperandsTwo
  <2> QED
    BY <2>1, <2>2, <2>3, <2>4, <2>5 DEF TackyInstruction
<1>2. \A v \in Reading(i) : v \in Operand
  BY ReadingForms
<1>3. \A v \in Reading(i) : convert_val(v).type = "PSEUDO" =>
        v.tag = "var" /\ v.id = convert_val(v).id
  BY <1>2, ConvertedNames, ConstantOperands
<1>4. \A v \in Reading(i) : v.tag = "var" => convert_val(v) = Pseudo(v.id)
  BY <1>2, ConvertedNames
<1> DEFINE body == Lower(i)
<1>5. ASSUME NEW j \in 1..Len(body), NEW k \in 1..Len(body[j].ops), body[j].ops[k].type = "PSEUDO"
      PROVE  \E v \in Reading(i) : v.tag = "var" /\ v.id = body[j].ops[k].id
  <2>1. body[j].ops[k] \in {convert_val(v) : v \in Reading(i)}
    BY <1>1, <1>5 DEF Operands
  <2> QED
    BY <1>3, <1>5, <2>1
<1>6. ASSUME NEW v \in Reading(i), v.tag = "var"
      PROVE  \E j \in 1..Len(body) : \E k \in 1..Len(body[j].ops) : body[j].ops[k] = Pseudo(v.id)
  BY <1>1, <1>4, <1>6 DEF Operands
<1> QED
  BY <1>5, <1>6 DEF BlockNames

LEMMA VariablesNamed ==
  ASSUME NEW c, NEW x
  PROVE  x \in Meaning!VariablesOf(c) <=>
           \E i \in DOMAIN c : \E v \in Reading(c[i]) : v.tag = "var" /\ v.id = x
<1>1. \A v : x \in Meaning!Named(v) <=> v.tag = "var" /\ v.id = x
  BY DEF Meaning!Named
<1> QED
  BY <1>1 DEF Meaning!VariablesOf, Reading

(* Where an assembly instruction is, and what it was lowered from. *)
LEMMA InBlock ==
  ASSUME IInv, AsmInv, NEW first, Blocks(first), NEW t \in 1..Visited, NEW j \in 1..Len(Lower(tacky[t]))
  PROVE  /\ t \in Int /\ j \in Int
         /\ Len(Lower(tacky[t])) \in 1..4
         /\ t \in 1..Len(tacky) /\ tacky[t] \in TackyInstruction
         /\ first[t] \in Nat \ {0} /\ first[t + 1] \in Nat \ {0}
         /\ first[t] + j - 1 \in 1..Len(asm_instructions)
         /\ Places(asm_instructions[first[t] + j - 1], Lower(tacky[t])[j])
<1>1. /\ Len(asm_instructions) \in Nat /\ tacky \in Seq(TackyInstruction) /\ Len(tacky) \in Nat
      /\ Visited \in Nat
  BY VisitedNat, LenProperties DEF IInv, TypeOK
<1>2. t \in 1..Len(tacky)
  <2>1. phase = "visit" => next - 1 <= Len(tacky)
    <3>1. next \in Nat
      BY DEF IInv, TypeOK
    <3> QED
      BY <1>1, <3>1 DEF AsmInv
  <2>2. Visited <= Len(tacky)
    BY <1>1, <2>1 DEF Visited
  <2> QED
    BY <1>1, <2>2
<1>3. tacky[t] \in TackyInstruction
  BY <1>1, <1>2, ElementOfSeq
<1>4. Len(Lower(tacky[t])) \in 1..4
  BY <1>3, LowerLength
<1>5. first \in [1..Visited + 1 -> Nat \ {0}] /\ t \in 1..Visited + 1 /\ t + 1 \in 1..Visited + 1
  BY SMTT(30), <1>1 DEF Blocks
<1>6. /\ first[t + 1] = first[t] + Len(Lower(tacky[t]))
      /\ first[t + 1] <= Len(asm_instructions) + 1
      /\ Places(asm_instructions[first[t] + j - 1], Lower(tacky[t])[j])
  BY DEF Blocks
<1>7. first[t] \in Nat \ {0} /\ first[t + 1] \in Nat \ {0}
  BY <1>5
<1>8. first[t] + j - 1 \in 1..Len(asm_instructions)
  BY <1>1, <1>4, <1>6, <1>7
<1> QED
  BY <1>2, <1>3, <1>4, <1>6, <1>7, <1>8

LEMMA NewName ==
  ASSUME IInv, AsmInv, AsmShape, AtOperand, Here.type = "PSEUDO"
  PROVE  Here.id \in Meaning!VariablesOf(tacky)
<1>1. /\ next \in 1..Len(asm_instructions)
      /\ operand \in 1..Len(asm_instructions[next].ops)
  BY HereIsOperand
<1>2. PICK first : Blocks(first)
  BY DEF AsmShape
<1>3. PICK t \in 1..Visited : \E j \in 1..Len(Lower(tacky[t])) : next = first[t] + j - 1
  BY <1>1, <1>2 DEF Blocks
<1>4. PICK j \in 1..Len(Lower(tacky[t])) : next = first[t] + j - 1
  BY <1>3
<1> DEFINE b == Lower(tacky[t])[j]
<1>5. Places(asm_instructions[next], b) /\ t \in 1..Len(tacky) /\ tacky[t] \in TackyInstruction
  BY <1>2, <1>4, InBlock
<1>6. operand \in 1..Len(b.ops) /\ PlacedAs(Here, b.ops[operand])
  <2> HIDE DEF b
  <2> QED
    BY <1>1, <1>5 DEF Places, Here
<1>7. b.ops[operand] = Here
  <2> HIDE DEF b
  <2> QED
    BY <1>6 DEF PlacedAs, Stack
<1>8. \E v \in Reading(tacky[t]) : v.tag = "var" /\ v.id = Here.id
  BY <1>5, <1>6, <1>7, LowerNames DEF BlockNames
<1>9. t \in DOMAIN tacky
  BY <1>5, LenProperties DEF IInv, TypeOK
<1> QED
  BY <1>8, <1>9, VariablesNamed

LEMMA NamesStep ==
  ASSUME IInv, AsmInv, AsmShape, NamesKnown, Next
  PROVE  NamesKnown'
<1>1. tacky' = tacky
  BY VisitLowers DEF Next, VisitInstruction, BeginAllocation, AllocatePseudo, ReplaceNewPseudo,
     ReplaceKnownPseudo, KeepOperand, NextInstruction, BeginPrinting, PrintInstruction, EndPrinting,
     PushBack
<1>2. DOMAIN offset_map' \subseteq DOMAIN offset_map \cup Meaning!VariablesOf(tacky)
  <2>1. CASE ReplaceNewPseudo
    BY <2>1, NewName DEF ReplaceNewPseudo
  <2>2. CASE ~ReplaceNewPseudo
    BY <2>2, VisitLowers DEF Next, VisitInstruction, BeginAllocation, AllocatePseudo,
       ReplaceKnownPseudo, KeepOperand, NextInstruction, BeginPrinting, PrintInstruction,
       EndPrinting, PushBack
  <2> QED
    BY <2>1, <2>2
<1> QED
  BY <1>1, <1>2 DEF NamesKnown, Meaning!VariablesOf

(* Once printing has begun every variable of the code has its slot. *)
LEMMA EveryVariable ==
  ASSUME IInv, AsmInv, AsmShape, NamesKnown, phase \in {"print", "done"}
  PROVE  DOMAIN offset_map = Meaning!VariablesOf(tacky)
<1> SUFFICES ASSUME NEW x \in Meaning!VariablesOf(tacky) PROVE x \in DOMAIN offset_map
  BY DEF NamesKnown
<1>1. DOMAIN tacky = 1..Len(tacky) /\ Visited = Len(tacky)
  BY LenProperties DEF IInv, TypeOK, Visited
<1>2. PICK t \in 1..Len(tacky) : \E v \in Reading(tacky[t]) : v.tag = "var" /\ v.id = x
  BY <1>1, VariablesNamed
<1>3. tacky[t] \in TackyInstruction
  BY ElementOfSeq DEF IInv, TypeOK
<1>4. PICK j \in 1..Len(Lower(tacky[t])) :
        \E k \in 1..Len(Lower(tacky[t])[j].ops) : Lower(tacky[t])[j].ops[k] = Pseudo(x)
  BY <1>2, <1>3, LowerNames DEF BlockNames
<1>5. PICK first : Blocks(first)
  BY DEF AsmShape
<1> DEFINE b == Lower(tacky[t])[j]
           p == first[t] + j - 1
           a == asm_instructions[p]
<1>6. PICK k \in 1..Len(b.ops) : b.ops[k] = Pseudo(x)
  BY <1>4
<1>7. p \in 1..Len(asm_instructions) /\ Places(a, b)
  BY <1>1, <1>5, InBlock
<1>8. k \in 1..Len(a.ops) /\ PlacedAs(a.ops[k], Pseudo(x))
  <2> HIDE DEF a, b
  <2> QED
    BY <1>6, <1>7 DEF Places
<1>9. a.ops[k].type # "PSEUDO"
  BY <1>7, <1>8 DEF IInv, PassedPlaced, Passed
<1> QED
  BY <1>8, <1>9, ConstantOperands DEF PlacedAs

-----------------------------------------------------------------------------
(* The words. *)

LEMMA WordBounds ==
  /\ WordHalf \in Nat /\ ByteSize \in Nat /\ ByteSize > 1 /\ WordHalf >= 2
  /\ \A n : n \in Word <=> n \in Int /\ -WordHalf <= n /\ n <= WordHalf - 1
  /\ MinInt = -WordHalf
BY WidthAssumption DEF Word, MinInt, MaxInt

LEMMA WrapWord ==
  ASSUME NEW n \in Int
  PROVE  Wrap(n) \in Word
BY WidthAssumption DEF Wrap, Word, MinInt, MaxInt, Modulus

LEMMA WrapId ==
  ASSUME NEW n \in Word
  PROVE  Wrap(n) = n
BY WidthAssumption DEF Wrap, Word, MinInt, MaxInt, Modulus

LEMMA SmallWords ==
  /\ 0 \in Word /\ 1 \in Word /\ -1 \in Word /\ Wrap(0) = 0
  /\ \A b : Bool(b) \in Word
<1>1. 0 \in Word /\ 1 \in Word /\ -1 \in Word
  BY WordBounds
<1> QED
  BY <1>1, WrapId DEF Bool

LEMMA ComplementWord ==
  ASSUME NEW n \in Word
  PROVE  -n - 1 \in Word
BY WordBounds

(* cdq and idiv: the pair of registers holds the word that it was.         *)
LEMMA SignExtended ==
  ASSUME NEW n \in Word
  PROVE  (IF n < 0 THEN -1 ELSE 0) * Modulus + (n % Modulus) = n
BY WidthAssumption DEF Word, MinInt, MaxInt, Modulus

(* setcc: the upper bytes of zero are zero.                                *)
LEMMA ByteCleared == (0 \div ByteSize) * ByteSize = 0
BY WidthAssumption

LEMMA DivisionLaw ==
  ASSUME NEW a \in Nat, NEW b \in Nat, b > 0
  PROVE  a \div b \in Nat /\ a % b \in 0..b - 1 /\ a = b * (a \div b) + (a % b)
OBVIOUS

LEMMA QuotientBound ==
  ASSUME NEW a \in Nat, NEW b \in Nat, NEW q \in Nat, NEW r \in 0..b - 1, b > 0, a = b * q + r
  PROVE  q <= a /\ (b > 1 => 2 * q <= a) /\ (b = 1 => q = a)
OBVIOUS

LEMMA DivisionWords ==
  ASSUME NEW n \in Word, NEW d \in Word, d # 0
  PROVE  /\ Quotient(n, d) \in Word <=> ~(n = MinInt /\ d = -1)
         /\ Remainder(n, d) \in Word
<1>1. /\ n \in Int /\ -WordHalf <= n /\ n <= WordHalf - 1
      /\ d \in Int /\ -WordHalf <= d /\ d <= WordHalf - 1
      /\ WordHalf \in Nat /\ WordHalf >= 2
  BY WordBounds
<1> DEFINE a == Abs(n)
           b == Abs(d)
           q == a \div b
           r == a % b
           p == b * q
<1>2. /\ a \in Nat /\ b \in Nat /\ b > 0 /\ a <= WordHalf /\ b <= WordHalf
      /\ a = (IF n < 0 THEN -n ELSE n) /\ b = (IF d < 0 THEN -d ELSE d)
  BY <1>1 DEF Abs
<1> HIDE DEF a, b
<1>3. q \in Nat /\ r \in 0..b - 1 /\ a = b * q + r
  BY SMTT(30), <1>2, DivisionLaw
<1> HIDE DEF q, r
<1>4. q <= a /\ (b > 1 => 2 * q <= a) /\ (b = 1 => q = a)
  BY <1>2, <1>3, QuotientBound
<1>5. Quotient(n, d) = IF (n < 0) = (d < 0) THEN q ELSE -q
  BY DEF Quotient, a, b, q
<1>6. Quotient(n, d) \in Word <=> ~(n = MinInt /\ d = -1)
  <2>1. CASE b > 1
    BY <1>1, <1>2, <1>3, <1>4, <1>5, <2>1, WordBounds
  <2>2. CASE b = 1
    BY <1>1, <1>2, <1>3, <1>4, <1>5, <2>2, WordBounds
  <2> QED
    BY <1>2, <2>1, <2>2
<1>7. p \in Int /\ a = p + r /\ r \in Int /\ 0 <= r /\ r <= b - 1
  BY <1>2, <1>3
<1>8. d * Quotient(n, d) = IF n < 0 THEN -p ELSE p
  <2>1. (d < 0 /\ d = -b) \/ (~(d < 0) /\ d = b)
    BY <1>1, <1>2
  <2>2. (-b) * q = -(b * q) /\ (-b) * (-q) = b * q /\ b * (-q) = -(b * q)
    BY <1>2, <1>3
  <2> QED
    BY <1>1, <1>5, <2>1, <2>2
<1>9. Remainder(n, d) = IF n < 0 THEN -r ELSE r
  <2> HIDE DEF p
  <2>1. Remainder(n, d) = n - (IF n < 0 THEN -p ELSE p)
    BY <1>8 DEF Remainder
  <2> QED
    BY <1>1, <1>2, <1>7, <2>1
<1> QED
  BY <1>1, <1>2, <1>6, <1>7, <1>9, WordBounds

(* The instances of Words compute the same.                                *)
LEMMA SameWords ==
  /\ Cpu!Word = Word /\ Meaning!Word = Word /\ Cpu!Modulus = Modulus
  /\ \A n : Cpu!Wrap(n) = Wrap(n) /\ Meaning!Wrap(n) = Wrap(n)
  /\ \A b : Cpu!Bool(b) = Bool(b) /\ Meaning!Bool(b) = Bool(b)
  /\ \A n, d : /\ Cpu!Quotient(n, d) = Quotient(n, d) /\ Meaning!Quotient(n, d) = Quotient(n, d)
               /\ Cpu!Remainder(n, d) = Remainder(n, d)
               /\ Meaning!Remainder(n, d) = Remainder(n, d)
<1>1. /\ Cpu!Word = Word /\ Meaning!Word = Word /\ Cpu!Modulus = Modulus
  BY DEF Cpu!Word, Meaning!Word, Word, Cpu!MinInt, Meaning!MinInt, MinInt, Cpu!MaxInt,
         Meaning!MaxInt, MaxInt, Cpu!Modulus, Modulus
<1>2. \A n : Cpu!Wrap(n) = Wrap(n) /\ Meaning!Wrap(n) = Wrap(n)
  BY DEF Cpu!Wrap, Meaning!Wrap, Wrap, Cpu!MinInt, Meaning!MinInt, MinInt, Cpu!Modulus,
         Meaning!Modulus, Modulus
<1>3. \A b : Cpu!Bool(b) = Bool(b) /\ Meaning!Bool(b) = Bool(b)
  BY DEF Cpu!Bool, Meaning!Bool, Bool
<1>4. \A n, d : Cpu!Quotient(n, d) = Quotient(n, d) /\ Meaning!Quotient(n, d) = Quotient(n, d)
  BY DEF Cpu!Quotient, Meaning!Quotient, Quotient, Cpu!Abs, Meaning!Abs, Abs
<1> QED
  BY <1>1, <1>2, <1>3, <1>4 DEF Cpu!Remainder, Meaning!Remainder, Remainder

-----------------------------------------------------------------------------
(* What a line does to the registers of the data and to the slots. *)

Framed ==
  /\ status = "on" /\ reg["BP"] = 0
  /\ DOMAIN reg = RegASM \cup {"SP", "BP"}
  /\ DOMAIN mem = Slots \cup {0, Cpu!CallSite}

Wrote(o, x) ==
  /\ \A r \in RegASM : reg'[r] = IF o.type = "REG" /\ o.reg = r THEN x ELSE reg[r]
  /\ \A s \in Slots : mem'[s] = IF o.type = "STACK" /\ o.offset = s THEN x ELSE mem[s]

Untouched ==
  /\ \A r \in RegASM : reg'[r] = reg[r]
  /\ \A s \in Slots : mem'[s] = mem[s]

Onward == ip' = ip + 1 /\ status' = "on"

LEMMA SettledOperand ==
  ASSUME IInv, NEW o, Settled(o)
  PROVE  /\ o.type \in {"IMM", "REG", "STACK"}
         /\ o.type = "IMM" => o.val \in Int
         /\ o.type = "REG" => o.reg \in RegASM
         /\ o.type = "STACK" => o.offset \in Slots /\ o.offset \in Int
<1>1. o.type = "STACK" => o.offset \in Slots
  BY DEF Settled, IsSlot, InMemory, Slots
<1> HIDE DEF Slots
<1> QED
  BY <1>1 DEF Settled, Located, AsmOperand, Value, Reg, Unplaced, Placed

LEMMA SettledScratch == Settled(r10d) /\ Settled(r11d) /\ r10d.type = "REG" /\ r11d.type = "REG"
                        /\ r10d.reg = "R10" /\ r11d.reg = "R11"
BY DEF r10d, r11d, Register, Settled, Located, IsSlot, InMemory, AsmOperand, Reg, RegASM

LEMMA ReadContent ==
  ASSUME IInv, Framed, NEW o, Settled(o)
  PROVE  Cpu!Read(o) = Content(o)
<1>1. o.type = "STACK" => Cpu!Address(o) = o.offset
  BY SettledOperand DEF Framed, Cpu!Address
<1> QED
  BY <1>1, SettledOperand, SameWords DEF Cpu!Read, Content

LEMMA WriteContent ==
  ASSUME IInv, Framed, NEW o, Settled(o), NEW x, Cpu!Write(o, x)
  PROVE  Wrote(o, x)
<1>1. o.type = "STACK" => Cpu!Address(o) = o.offset /\ o.offset \in Slots
  BY SettledOperand DEF Framed, Cpu!Address
<1>2. CASE o.type = "REG" /\ reg' = [reg EXCEPT ![o.reg] = x] /\ UNCHANGED mem
  BY <1>2 DEF Framed, Wrote
<1>3. CASE o.type = "STACK" /\ mem' = [mem EXCEPT ![Cpu!Address(o)] = x] /\ UNCHANGED reg
  <2> HIDE DEF Slots
  <2> QED
    BY <1>1, <1>3 DEF Framed, Wrote
<1> QED
  BY <1>2, <1>3 DEF Cpu!Write

LEMMA FetchedInner ==
  ASSUME Cpu!Execute
  PROVE  /\ out[ip].m = "movl" => Cpu!Move
         /\ out[ip].m \in {"addl", "subl", "imull"} => Cpu!Arithmetic
         /\ out[ip].m = "notl" => Cpu!Complement
         /\ out[ip].m = "negl" => Cpu!Negate
         /\ out[ip].m = "cmpl" => Cpu!Compare
         /\ out[ip].m = "set" => Cpu!SetByte
         /\ out[ip].m = "cdq" => Cpu!SignExtend
         /\ out[ip].m = "idivl" => Cpu!Divide
         /\ out[ip].m = "jmp" => Cpu!JumpAlways
         /\ out[ip].m = "j" => Cpu!JumpOnCondition
         /\ out[ip].m = "label" => Cpu!PassLabel
BY DEF Cpu!Execute, Cpu!Fetch, Cpu!Move, Cpu!Arithmetic, Cpu!Complement, Cpu!Negate, Cpu!Compare,
   Cpu!SetByte, Cpu!SignExtend, Cpu!Divide, Cpu!JumpAlways, Cpu!JumpOnCondition, Cpu!PassLabel,
   Cpu!Push, Cpu!Pop, Cpu!Return

LEMMA LineMove ==
  ASSUME IInv, Framed, NEW s, Settled(s), NEW d, Settled(d),
         out[ip].m = "movl", out[ip].src = s, out[ip].dst = d, Cpu!Execute
  PROVE  Wrote(d, Content(s)) /\ flags' = flags /\ Onward
<1>1. Cpu!Move
  BY FetchedInner
<1>2. Cpu!Write(d, Content(s))
  BY <1>1, ReadContent DEF Cpu!Move, Cpu!Src, Cpu!Dst
<1> QED
  BY <1>1, <1>2, WriteContent DEF Cpu!Move, Cpu!Advance, Framed, Onward

LEMMA LineArithmetic ==
  ASSUME IInv, Framed, NEW s, Settled(s), NEW d, Settled(d),
         out[ip].m \in {"addl", "subl", "imull"}, out[ip].src = s, out[ip].dst = d, Cpu!Execute
  PROVE  Wrote(d, Combined(out[ip].m, Content(d), Content(s))) /\ Onward
<1>1. Cpu!Arithmetic
  BY FetchedInner
<1> DEFINE x == Content(d)
           y == Content(s)
<1>2. Cpu!Read(Cpu!Dst) = x /\ Cpu!Read(Cpu!Src) = y /\ Cpu!Dst = d
  BY ReadContent DEF Cpu!Src, Cpu!Dst
<1> HIDE DEF x, y
<1>3. Cpu!Write(d, Cpu!Wrap(CASE out[ip].m = "addl" -> x + y
                              [] out[ip].m = "subl" -> x - y
                              [] out[ip].m = "imull" -> x * y))
  BY <1>1, <1>2 DEF Cpu!Arithmetic
<1>4. Cpu!Write(d, Combined(out[ip].m, x, y))
  BY <1>3, SameWords DEF Combined
<1>5. Wrote(d, Combined(out[ip].m, x, y))
  BY <1>4, WriteContent
<1> QED
  BY <1>1, <1>5 DEF Cpu!Arithmetic, Cpu!Advance, Framed, Onward, x, y

LEMMA LineUnary ==
  ASSUME IInv, Framed, NEW d, Settled(d), out[ip].dst = d, Cpu!Execute
  PROVE  /\ out[ip].m = "notl" => Wrote(d, -Content(d) - 1) /\ Onward
         /\ out[ip].m = "negl" => Wrote(d, Wrap(-Content(d))) /\ Onward
<1>1. Cpu!Read(Cpu!Dst) = Content(d) /\ Cpu!Dst = d
  BY ReadContent DEF Cpu!Dst
<1>2. CASE out[ip].m = "notl"
  <2>1. Cpu!Complement
    BY <1>2, FetchedInner
  <2>2. Cpu!Write(d, -Content(d) - 1)
    BY <1>1, <2>1 DEF Cpu!Complement
  <2> QED
    BY <1>2, <2>1, <2>2, WriteContent DEF Cpu!Complement, Cpu!Advance, Framed, Onward
<1>3. CASE out[ip].m = "negl"
  <2>1. Cpu!Negate
    BY <1>3, FetchedInner
  <2>2. Cpu!Write(d, Wrap(-Content(d)))
    BY <1>1, <2>1, SameWords DEF Cpu!Negate
  <2> QED
    BY <1>3, <2>1, <2>2, WriteContent DEF Cpu!Negate, Cpu!Advance, Framed, Onward
<1> QED
  BY <1>2, <1>3

LEMMA LineCompare ==
  ASSUME IInv, Framed, NEW s, Settled(s), NEW d, Settled(d),
         out[ip].m = "cmpl", out[ip].src = s, out[ip].dst = d, Cpu!Execute
  PROVE  flags' = Cpu!Compared(Content(d), Content(s)) /\ Untouched /\ Onward
<1>1. Cpu!Compare
  BY FetchedInner
<1>2. Cpu!Read(Cpu!Dst) = Content(d) /\ Cpu!Read(Cpu!Src) = Content(s)
  BY ReadContent DEF Cpu!Src, Cpu!Dst
<1> QED
  BY <1>1, <1>2 DEF Cpu!Compare, Cpu!Advance, Framed, Onward, Untouched

LEMMA LineSet ==
  ASSUME IInv, Framed, NEW d, Settled(d), out[ip].m = "set", out[ip].dst = d, Cpu!Execute
  PROVE  /\ Wrote(d, (Content(d) \div ByteSize) * ByteSize + Bool(Cpu!Holds(out[ip].cc)))
         /\ Onward
<1>1. Cpu!SetByte
  BY FetchedInner
<1>2. Cpu!Read(Cpu!Dst) = Content(d) /\ Cpu!Dst = d
  BY ReadContent DEF Cpu!Dst
<1>3. Cpu!Write(d, (Content(d) \div ByteSize) * ByteSize + Bool(Cpu!Holds(out[ip].cc)))
  BY <1>1, <1>2, SameWords DEF Cpu!SetByte
<1> QED
  BY <1>1, <1>3, WriteContent DEF Cpu!SetByte, Cpu!Advance, Framed, Onward

LEMMA LineSign ==
  ASSUME Framed, out[ip].m = "cdq", Cpu!Execute
  PROVE  Wrote(Register("DX"), Sign(reg["AX"])) /\ Onward
<1>1. Cpu!SignExtend
  BY FetchedInner
<1> QED
  BY <1>1 DEF Cpu!SignExtend, Cpu!Advance, Framed, Onward, Wrote, Sign, Register, RegASM

(* idivl faults, or puts the two results into the pair of registers. *)
LEMMA LineDivide ==
  ASSUME IInv, Framed, NEW s, Settled(s), out[ip].m = "idivl", out[ip].src = s, Cpu!Execute,
         NEW n, n = reg["DX"] * Modulus + (reg["AX"] % Modulus)
  PROVE  \/ /\ Content(s) = 0 \/ Quotient(n, Content(s)) \notin Word
            /\ status' = "fault" /\ UNCHANGED <<ip, reg, mem>>
         \/ /\ ~(Content(s) = 0 \/ Quotient(n, Content(s)) \notin Word)
            /\ \A r \in RegASM :
                 reg'[r] = IF r = "AX" THEN Quotient(n, Content(s))
                           ELSE IF r = "DX" THEN Remainder(n, Content(s)) ELSE reg[r]
            /\ UNCHANGED mem /\ Onward
<1>1. Cpu!Divide
  BY FetchedInner
<1>2. Cpu!Read(Cpu!Src) = Content(s)
  BY ReadContent DEF Cpu!Src
<1>3. n = reg["DX"] * Cpu!Modulus + (reg["AX"] % Cpu!Modulus)
  BY SameWords
<1> DEFINE y == Content(s)
<1> HIDE DEF y
<1>4. IF y = 0 \/ Quotient(n, y) \notin Word
      THEN status' = "fault" /\ UNCHANGED <<ip, reg, mem>>
      ELSE /\ reg' = [reg EXCEPT !["AX"] = Quotient(n, y), !["DX"] = Remainder(n, y)]
           /\ ip' = ip + 1 /\ status' = status /\ mem' = mem
  BY <1>1, <1>2, <1>3, SameWords DEF Cpu!Divide, Cpu!Advance, y
<1> QED
  BY <1>4 DEF Framed, Onward, RegASM, y

LEMMA LineBranch ==
  ASSUME Cpu!Execute
  PROVE  /\ out[ip].m = "jmp" => /\ ip' = Cpu!LineOf(out[ip].label)
                                 /\ UNCHANGED <<reg, mem, flags, status>>
         /\ out[ip].m = "j" => /\ ip' = IF Cpu!Holds(out[ip].cc) THEN Cpu!LineOf(out[ip].label)
                                        ELSE ip + 1
                               /\ UNCHANGED <<reg, mem, flags, status>>
         /\ out[ip].m = "label" => ip' = ip + 1 /\ UNCHANGED <<reg, mem, flags, status>>
BY FetchedInner DEF Cpu!JumpAlways, Cpu!JumpOnCondition, Cpu!PassLabel, Cpu!JumpTo, Cpu!Advance

-----------------------------------------------------------------------------
(* What an assembly instruction does, line by line. *)

(* An operand that lowering may make. *)
Ordinary(o) == Settled(o) /\ (o.type = "REG" => o.reg \in {"AX", "DX"})

Calm ==
  /\ \A s \in Slots : mem'[s] = mem[s]
  /\ reg'["AX"] = reg["AX"] /\ reg'["DX"] = reg["DX"]

LEMMA MachineFields ==
  /\ \A m, s, d : /\ Machine(m, s, d).m = m /\ Machine(m, s, d).src = s
                  /\ Machine(m, s, d).dst = d
  /\ \A cc, d : Setting(cc, d).m = "set" /\ Setting(cc, d).cc = cc /\ Setting(cc, d).dst = d
  /\ \A m, cc, l : /\ Branching(m, cc, l).m = m /\ Branching(m, cc, l).cc = cc
                   /\ Branching(m, cc, l).label = l
BY DEF Machine, Setting, Branching

LEMMA TupleElements ==
  /\ \A a : Len(<<a>>) = 1 /\ <<a>>[1] = a
  /\ \A a, b : Len(<<a, b>>) = 2 /\ <<a, b>>[1] = a /\ <<a, b>>[2] = b
  /\ \A a, b, c : /\ Len(<<a, b, c>>) = 3 /\ <<a, b, c>>[1] = a /\ <<a, b, c>>[2] = b
                  /\ <<a, b, c>>[3] = c
OBVIOUS

LEMMA ContentKept ==
  ASSUME IInv, NEW o, Ordinary(o), Calm
  PROVE  (Content(o))' = Content(o)
BY SettledOperand DEF Ordinary, Calm, Content

LEMMA WroteScratch ==
  ASSUME NEW x
  PROVE  /\ Wrote(r10d, x) => Calm /\ reg'["R10"] = x
         /\ Wrote(r11d, x) => Calm /\ reg'["R11"] = x
BY SettledScratch DEF Wrote, Calm, RegASM

LEMMA ScratchContent ==
  Content(r10d) = reg["R10"] /\ Content(r11d) = reg["R11"]
BY SettledScratch DEF Content

(* The first of two lines puts an operand into a scratch register.         *)
LEMMA LineSpill ==
  ASSUME IInv, Framed, Cpu!Execute, NEW s, Ordinary(s)
  PROVE  /\ out[ip] = Machine("movl", s, r10d) =>
              Calm /\ Onward /\ flags' = flags /\ reg'["R10"] = (Content(s))'
         /\ out[ip] = Machine("movl", s, r11d) =>
              Calm /\ Onward /\ flags' = flags /\ reg'["R11"] = (Content(s))'
<1>1. CASE out[ip] = Machine("movl", s, r10d)
  <2>1. Wrote(r10d, Content(s)) /\ flags' = flags /\ Onward
    BY <1>1, LineMove, MachineFields, SettledScratch DEF Ordinary
  <2>2. Calm /\ reg'["R10"] = Content(s)
    BY <2>1, WroteScratch
  <2>3. (Content(s))' = Content(s)
    BY <2>2, ContentKept
  <2>4. out[ip] # Machine("movl", s, r11d)
    BY <1>1, MachineFields, SettledScratch
  <2> QED
    BY <2>1, <2>2, <2>3, <2>4
<1>2. CASE out[ip] = Machine("movl", s, r11d)
  <2>1. Wrote(r11d, Content(s)) /\ flags' = flags /\ Onward
    BY <1>2, LineMove, MachineFields, SettledScratch DEF Ordinary
  <2>2. Calm /\ reg'["R11"] = Content(s)
    BY <2>1, WroteScratch
  <2>3. (Content(s))' = Content(s)
    BY <2>2, ContentKept
  <2>4. out[ip] # Machine("movl", s, r10d)
    BY <1>2, MachineFields, SettledScratch
  <2> QED
    BY <2>1, <2>2, <2>3, <2>4
<1> QED
  BY <1>1, <1>2

LEMMA MovLines ==
  ASSUME IInv, Framed, Cpu!Execute, NEW s, Ordinary(s), NEW d, Ordinary(d),
         NEW m \in 1..Len(PrintMov(s, d)), out[ip] = PrintMov(s, d)[m],
         m = 2 => reg["R10"] = Content(s)
  PROVE  /\ flags' = flags /\ Onward
         /\ m < Len(PrintMov(s, d)) => Calm /\ m = 1 /\ reg'["R10"] = (Content(s))'
         /\ m = Len(PrintMov(s, d)) => Wrote(d, Content(s))
<1>1. CASE InMemory(s) /\ InMemory(d)
  <2>1. PrintMov(s, d) = <<Machine("movl", s, r10d), Machine("movl", r10d, d)>>
    BY <1>1 DEF PrintMov
  <2>2. /\ Len(PrintMov(s, d)) = 2
        /\ m = 1 => out[ip] = Machine("movl", s, r10d)
        /\ m = 2 => out[ip] = Machine("movl", r10d, d)
    BY <2>1, TupleElements
  <2>3. CASE m = 1
    BY <2>2, <2>3, LineSpill
  <2>4. CASE m = 2
    <3>1. Wrote(d, Content(r10d)) /\ flags' = flags /\ Onward
      BY <2>2, <2>4, LineMove, MachineFields, SettledScratch DEF Ordinary
    <3> QED
      BY <2>2, <2>4, <3>1, ScratchContent
  <2> QED
    BY <2>2, <2>3, <2>4
<1>2. CASE ~(InMemory(s) /\ InMemory(d))
  <2>1. PrintMov(s, d) = <<Machine("movl", s, d)>>
    BY <1>2 DEF PrintMov
  <2>2. Len(PrintMov(s, d)) = 1 /\ m = 1 /\ out[ip] = Machine("movl", s, d)
    BY <2>1, TupleElements
  <2>3. Wrote(d, Content(s)) /\ flags' = flags /\ Onward
    BY <2>2, LineMove, MachineFields DEF Ordinary
  <2> QED
    BY <2>2, <2>3
<1> QED
  BY <1>1, <1>2

LEMMA CmpLines ==
  ASSUME IInv, Framed, Cpu!Execute, NEW s, Ordinary(s), NEW d, Ordinary(d),
         NEW m \in 1..Len(PrintCmp(s, d)), out[ip] = PrintCmp(s, d)[m],
         m = 2 => IF IsImmediate(d) THEN reg["R11"] = Content(d) ELSE reg["R10"] = Content(s)
  PROVE  /\ Calm /\ Onward
         /\ m < Len(PrintCmp(s, d)) =>
              /\ m = 1 /\ flags' = flags
              /\ IF IsImmediate(d) THEN reg'["R11"] = (Content(d))' ELSE reg'["R10"] = (Content(s))'
         /\ m = Len(PrintCmp(s, d)) => flags' = Cpu!Compared(Content(d), Content(s))
<1>1. CASE InMemory(s) /\ InMemory(d)
  <2>1. /\ PrintCmp(s, d) = <<Machine("movl", s, r10d), Machine("cmpl", r10d, d)>>
        /\ ~IsImmediate(d)
    BY <1>1 DEF PrintCmp, InMemory, IsImmediate
  <2>2. /\ Len(PrintCmp(s, d)) = 2
        /\ m = 1 => out[ip] = Machine("movl", s, r10d)
        /\ m = 2 => out[ip] = Machine("cmpl", r10d, d)
    BY <2>1, TupleElements
  <2>3. CASE m = 1
    BY <2>1, <2>2, <2>3, LineSpill
  <2>4. CASE m = 2
    <3>1. flags' = Cpu!Compared(Content(d), Content(r10d)) /\ Untouched /\ Onward
      BY <2>2, <2>4, LineCompare, MachineFields, SettledScratch DEF Ordinary
    <3>2. Calm
      BY <3>1 DEF Calm, Untouched, RegASM
    <3> QED
      BY <2>1, <2>2, <2>4, <3>1, <3>2, ScratchContent
  <2> QED
    BY <2>2, <2>3, <2>4
<1>2. CASE ~(InMemory(s) /\ InMemory(d)) /\ IsImmediate(d)
  <2>1. PrintCmp(s, d) = <<Machine("movl", d, r11d), Machine("cmpl", s, r11d)>>
    BY <1>2 DEF PrintCmp
  <2>2. /\ Len(PrintCmp(s, d)) = 2
        /\ m = 1 => out[ip] = Machine("movl", d, r11d)
        /\ m = 2 => out[ip] = Machine("cmpl", s, r11d)
    BY <2>1, TupleElements
  <2>3. CASE m = 1
    BY <1>2, <2>2, <2>3, LineSpill
  <2>4. CASE m = 2
    <3>1. flags' = Cpu!Compared(Content(r11d), Content(s)) /\ Untouched /\ Onward
      BY <2>2, <2>4, LineCompare, MachineFields, SettledScratch DEF Ordinary
    <3>2. Calm
      BY <3>1 DEF Calm, Untouched, RegASM
    <3> QED
      BY <1>2, <2>2, <2>4, <3>1, <3>2, ScratchContent
  <2> QED
    BY <2>2, <2>3, <2>4
<1>3. CASE ~(InMemory(s) /\ InMemory(d)) /\ ~IsImmediate(d)
  <2>1. PrintCmp(s, d) = <<Machine("cmpl", s, d)>>
    BY <1>3 DEF PrintCmp
  <2>2. Len(PrintCmp(s, d)) = 1 /\ m = 1 /\ out[ip] = Machine("cmpl", s, d)
    BY <2>1, TupleElements
  <2>3. flags' = Cpu!Compared(Content(d), Content(s)) /\ Untouched /\ Onward
    BY <2>2, LineCompare, MachineFields DEF Ordinary
  <2>4. Calm
    BY <2>3 DEF Calm, Untouched, RegASM
  <2> QED
    BY <2>2, <2>3, <2>4
<1> QED
  BY <1>1, <1>2, <1>3

LEMMA BinaryLines ==
  ASSUME IInv, Framed, Cpu!Execute, NEW op \in BinaryOpASM,
         NEW s, Ordinary(s), NEW d, Ordinary(d),
         NEW m \in 1..Len(PrintBinary(op, s, d)), out[ip] = PrintBinary(op, s, d)[m],
         op # "MULT" /\ m = 2 => reg["R10"] = Content(s),
         op = "MULT" /\ m = 2 => reg["R11"] = Content(d),
         op = "MULT" /\ m = 3 => reg["R11"] = Combined("imull", Content(d), Content(s))
  PROVE  /\ Onward
         /\ m < Len(PrintBinary(op, s, d)) =>
              /\ Calm /\ m < 3
              /\ op # "MULT" => m = 1 /\ reg'["R10"] = (Content(s))'
              /\ op = "MULT" /\ m = 1 => reg'["R11"] = (Content(d))'
              /\ op = "MULT" /\ m = 2 => reg'["R11"] = Combined("imull", (Content(d))', (Content(s))')
         /\ m = Len(PrintBinary(op, s, d)) => Wrote(d, Combined(Mnemonic[op], Content(d), Content(s)))
<1>1. /\ Mnemonic[op] \in {"addl", "subl", "imull"}
      /\ op = "MULT" => Mnemonic[op] = "imull"
  BY DEF Mnemonic, BinaryOpASM
<1>3. CASE op = "MULT" /\ InMemory(d)
  <2>1. PrintBinary(op, s, d) =
          <<Machine("movl", d, r11d), Machine("imull", s, r11d), Machine("movl", r11d, d)>>
    BY <1>3 DEF PrintBinary
  <2>2. /\ Len(PrintBinary(op, s, d)) = 3
        /\ m = 1 => out[ip] = Machine("movl", d, r11d)
        /\ m = 2 => out[ip] = Machine("imull", s, r11d)
        /\ m = 3 => out[ip] = Machine("movl", r11d, d)
    BY <2>1, TupleElements
  <2>3. CASE m = 1
    BY <1>3, <2>2, <2>3, LineSpill
  <2>4. CASE m = 2
    <3>1. Wrote(r11d, Combined("imull", Content(r11d), Content(s))) /\ Onward
      BY <2>2, <2>4, LineArithmetic, MachineFields, SettledScratch DEF Ordinary
    <3>2. Calm /\ reg'["R11"] = Combined("imull", Content(d), Content(s))
      BY <1>3, <2>4, <3>1, WroteScratch, ScratchContent
    <3>3. (Content(d))' = Content(d) /\ (Content(s))' = Content(s)
      BY <3>2, ContentKept
    <3>4. reg'["R11"] = Combined("imull", (Content(d))', (Content(s))')
      BY <3>2, <3>3
    <3>5. m < Len(PrintBinary(op, s, d)) /\ m < 3
      BY <2>2, <2>4
    <3> QED
      BY <1>3, <2>4, <3>1, <3>2, <3>4, <3>5
  <2>5. CASE m = 3
    <3>1. Wrote(d, Content(r11d)) /\ flags' = flags /\ Onward
      BY <2>2, <2>5, LineMove, MachineFields, SettledScratch DEF Ordinary
    <3> DEFINE w == Combined("imull", Content(d), Content(s))
    <3>2. Content(r11d) = w
      BY <1>3, <2>5, ScratchContent
    <3>3. Combined(Mnemonic[op], Content(d), Content(s)) = w
      BY <1>1, <1>3
    <3> HIDE DEF w
    <3>4. Wrote(d, Combined(Mnemonic[op], Content(d), Content(s)))
      BY <3>1, <3>2, <3>3
    <3> QED
      BY <2>2, <2>5, <3>1, <3>4
  <2> QED
    BY <2>2, <2>3, <2>4, <2>5
<1>4. CASE op # "MULT" /\ InMemory(s) /\ InMemory(d)
  <2>1. PrintBinary(op, s, d) = <<Machine("movl", s, r10d), Machine(Mnemonic[op], r10d, d)>>
    BY <1>4 DEF PrintBinary
  <2>2. /\ Len(PrintBinary(op, s, d)) = 2
        /\ m = 1 => out[ip] = Machine("movl", s, r10d)
        /\ m = 2 => out[ip] = Machine(Mnemonic[op], r10d, d)
    BY <2>1, TupleElements
  <2>3. CASE m = 1
    BY <1>4, <2>2, <2>3, LineSpill
  <2>4. CASE m = 2
    <3>1. Wrote(d, Combined(Mnemonic[op], Content(d), Content(r10d))) /\ Onward
      BY <1>1, <2>2, <2>4, LineArithmetic, MachineFields, SettledScratch DEF Ordinary
    <3> QED
      BY <1>4, <2>2, <2>4, <3>1, ScratchContent
  <2> QED
    BY <2>2, <2>3, <2>4
<1>5. CASE ~(op = "MULT" /\ InMemory(d)) /\ ~(op # "MULT" /\ InMemory(s) /\ InMemory(d))
  <2>1. PrintBinary(op, s, d) = <<Machine(Mnemonic[op], s, d)>>
    BY <1>5 DEF PrintBinary
  <2>2. /\ Len(PrintBinary(op, s, d)) = 1 /\ m = 1
        /\ out[ip] = Machine(Mnemonic[op], s, d)
    BY <2>1, TupleElements
  <2>3. Wrote(d, Combined(Mnemonic[op], Content(d), Content(s))) /\ Onward
    BY <1>1, <2>2, LineArithmetic, MachineFields DEF Ordinary
  <2> QED
    BY <2>2, <2>3
<1> QED
  BY <1>3, <1>4, <1>5

(* What idivl does with the word in %edx:%eax. *)
Divided32(y, n) ==
  \/ /\ y = 0 \/ Quotient(n, y) \notin Word
     /\ status' = "fault" /\ UNCHANGED <<ip, reg, mem>>
  \/ /\ ~(y = 0 \/ Quotient(n, y) \notin Word)
     /\ reg'["AX"] = Quotient(n, y) /\ reg'["DX"] = Remainder(n, y)
     /\ \A r \in {"R10", "R11"} : reg'[r] = reg[r]
     /\ UNCHANGED mem /\ Onward

LEMMA IdivLines ==
  ASSUME IInv, Framed, Cpu!Execute, NEW s, Ordinary(s),
         NEW n, n = reg["DX"] * Modulus + (reg["AX"] % Modulus),
         NEW m \in 1..Len(PrintIdiv(s)), out[ip] = PrintIdiv(s)[m],
         m = 2 => reg["R10"] = Content(s)
  PROVE  /\ m < Len(PrintIdiv(s)) =>
              Calm /\ Onward /\ flags' = flags /\ m = 1 /\ reg'["R10"] = (Content(s))'
         /\ m = Len(PrintIdiv(s)) => Divided32(Content(s), n)
<1>1. CASE IsImmediate(s)
  <2>1. PrintIdiv(s) = <<Machine("movl", s, r10d), Machine("idivl", r10d, None)>>
    BY <1>1 DEF PrintIdiv
  <2>2. /\ Len(PrintIdiv(s)) = 2
        /\ m = 1 => out[ip] = Machine("movl", s, r10d)
        /\ m = 2 => out[ip] = Machine("idivl", r10d, None)
    BY <2>1, TupleElements
  <2>3. CASE m = 1
    BY <2>2, <2>3, LineSpill
  <2>4. CASE m = 2
    <3>1. Divided32(Content(r10d), n)
      BY <2>2, <2>4, LineDivide, MachineFields, SettledScratch DEF Divided32, RegASM
    <3> QED
      BY <2>2, <2>4, <3>1, ScratchContent
  <2> QED
    BY <2>2, <2>3, <2>4
<1>2. CASE ~IsImmediate(s)
  <2>1. PrintIdiv(s) = <<Machine("idivl", s, None)>>
    BY <1>2 DEF PrintIdiv
  <2>2. Len(PrintIdiv(s)) = 1 /\ m = 1 /\ out[ip] = Machine("idivl", s, None)
    BY <2>1, TupleElements
  <2>3. Divided32(Content(s), n)
    BY <2>2, LineDivide, MachineFields DEF Divided32, RegASM, Ordinary
  <2> QED
    BY <2>2, <2>3
<1> QED
  BY <1>1, <1>2

LEMMA UnaryLines ==
  ASSUME IInv, Framed, Cpu!Execute, NEW op \in UnaryOpASM, NEW d, Ordinary(d),
         NEW m \in 1..Len(PrintUnary(op, d)), out[ip] = PrintUnary(op, d)[m]
  PROVE  /\ m = Len(PrintUnary(op, d)) /\ Onward
         /\ Wrote(d, IF op = "NOT" THEN -Content(d) - 1 ELSE Wrap(-Content(d)))
<1> DEFINE l == Machine(IF op = "NOT" THEN "notl" ELSE "negl", None, d)
<1>1. PrintUnary(op, d) = <<l>>
  BY DEF PrintUnary
<1>2. l.m = (IF op = "NOT" THEN "notl" ELSE "negl") /\ l.dst = d
  BY MachineFields
<1> HIDE DEF l
<1>3. Len(PrintUnary(op, d)) = 1 /\ m = 1 /\ out[ip] = l
  BY <1>1, TupleElements
<1> QED
  BY <1>2, <1>3, LineUnary DEF Ordinary

LEMMA SetLines ==
  ASSUME IInv, Framed, Cpu!Execute, NEW cc, NEW d, Ordinary(d),
         NEW m \in 1..Len(<<Setting(cc, d)>>), out[ip] = <<Setting(cc, d)>>[m]
  PROVE  /\ m = Len(<<Setting(cc, d)>>) /\ Onward
         /\ Wrote(d, (Content(d) \div ByteSize) * ByteSize + Bool(Cpu!Holds(cc)))
<1> DEFINE l == Setting(cc, d)
<1>1. l.m = "set" /\ l.dst = d /\ l.cc = cc
  BY MachineFields
<1> HIDE DEF l
<1>2. Len(<<l>>) = 1 /\ m = 1 /\ out[ip] = l
  BY TupleElements DEF l
<1> QED
  BY <1>1, <1>2, LineSet DEF Ordinary, l

-----------------------------------------------------------------------------
(* What an assembly instruction does once its last line is executed.       *)
Effect(a) ==
  /\ a.kind = "Mov" => Wrote(a.ops[2], Content(a.ops[1])) /\ flags' = flags /\ Onward
  /\ a.kind = "Unary" =>
       /\ Wrote(a.ops[1], IF a.op = "NOT" THEN -Content(a.ops[1]) - 1 ELSE Wrap(-Content(a.ops[1])))
       /\ Onward
  /\ a.kind = "Binary" =>
       /\ Wrote(a.ops[2], Combined(Mnemonic[a.op], Content(a.ops[2]), Content(a.ops[1])))
       /\ Onward
  /\ a.kind = "Cmp" =>
       Calm /\ Onward /\ flags' = Cpu!Compared(Content(a.ops[2]), Content(a.ops[1]))
  /\ a.kind = "SetCC" =>
       /\ Wrote(a.ops[1], (Content(a.ops[1]) \div ByteSize) * ByteSize + Bool(Cpu!Holds(a.cc)))
       /\ Onward
  /\ a.kind = "Idiv" =>
       \A n : n = reg["DX"] * Modulus + (reg["AX"] % Modulus) => Divided32(Content(a.ops[1]), n)
  /\ a.kind = "Cdq" => Wrote(Register("DX"), Sign(reg["AX"])) /\ Onward
  /\ a.kind = "Ret" => status' = "exited" /\ reg'["AX"] = reg["AX"] /\ UNCHANGED <<ip, mem>>
  /\ a.kind = "Jmp" => ip' = Cpu!LineOf(a.target) /\ UNCHANGED <<reg, mem, flags, status>>
  /\ a.kind = "JmpCC" => /\ ip' = IF Cpu!Holds(a.cc) THEN Cpu!LineOf(a.target) ELSE ip + 1
                         /\ UNCHANGED <<reg, mem, flags, status>>
  /\ a.kind = "Label" => ip' = ip + 1 /\ UNCHANGED <<reg, mem, flags, status>>

(* A line that is not the last one of its instruction. *)
Midway(a, m) ==
  /\ Calm /\ Onward
  /\ a.kind # "Binary" => flags' = flags
  /\ Scratch(a, m + 1)'

LineOutcome(a, m) ==
  /\ m < Len(code_gen(a)) => Midway(a, m)
  /\ m = Len(code_gen(a)) => Effect(a)

LEMMA MovOutcome ==
  ASSUME IInv, Framed, Cpu!Execute, NEW a \in Lowered, a.kind = "Mov",
         \A k \in 1..Len(a.ops) : Ordinary(a.ops[k]),
         NEW m \in 1..Len(code_gen(a)), out[ip] = code_gen(a)[m], Scratch(a, m)
  PROVE  LineOutcome(a, m)
<1> DEFINE s == a.ops[1]
           d == a.ops[2]
<1>1. Ordinary(s) /\ Ordinary(d) /\ code_gen(a) = PrintMov(s, d)
  BY DEF Lowered, Fits, code_gen
<1>2. m = 2 => reg["R10"] = Content(s)
  BY DEF Scratch
<1> HIDE DEF s, d
<1>3. /\ flags' = flags /\ Onward
      /\ m < Len(PrintMov(s, d)) => Calm /\ m = 1 /\ reg'["R10"] = (Content(s))'
      /\ m = Len(PrintMov(s, d)) => Wrote(d, Content(s))
  BY <1>1, <1>2, MovLines
<1>4. CASE m < Len(code_gen(a))
  <2>1. Calm /\ m = 1 /\ reg'["R10"] = (Content(a.ops[1]))'
    BY <1>1, <1>3, <1>4 DEF s
  <2>2. Scratch(a, m + 1)'
    BY <2>1 DEF Scratch
  <2>3. Calm /\ Onward /\ (a.kind # "Binary" => flags' = flags)
    BY <1>3, <2>1
  <2>4. m # Len(code_gen(a))
    BY <1>4
  <2> QED
    BY <2>2, <2>3, <2>4 DEF LineOutcome, Midway
<1>5. CASE m = Len(code_gen(a))
  BY <1>1, <1>3, <1>5 DEF LineOutcome, Effect, s, d
<1> QED
  BY <1>4, <1>5 DEF LineOutcome

LEMMA CmpOutcome ==
  ASSUME IInv, Framed, Cpu!Execute, NEW a \in Lowered, a.kind = "Cmp",
         \A k \in 1..Len(a.ops) : Ordinary(a.ops[k]),
         NEW m \in 1..Len(code_gen(a)), out[ip] = code_gen(a)[m], Scratch(a, m)
  PROVE  LineOutcome(a, m)
<1> DEFINE s == a.ops[1]
           d == a.ops[2]
<1>1. Ordinary(s) /\ Ordinary(d) /\ code_gen(a) = PrintCmp(s, d)
  BY DEF Lowered, Fits, code_gen
<1>2. m = 2 => IF IsImmediate(d) THEN reg["R11"] = Content(d) ELSE reg["R10"] = Content(s)
  BY DEF Scratch
<1> HIDE DEF s, d
<1>3. /\ Calm /\ Onward
      /\ m < Len(PrintCmp(s, d)) =>
           /\ m = 1 /\ flags' = flags
           /\ IF IsImmediate(d) THEN reg'["R11"] = (Content(d))' ELSE reg'["R10"] = (Content(s))'
      /\ m = Len(PrintCmp(s, d)) => flags' = Cpu!Compared(Content(d), Content(s))
  BY <1>1, <1>2, CmpLines
<1>4. CASE m < Len(code_gen(a))
  <2>1. /\ m = 1 /\ flags' = flags
        /\ IF IsImmediate(a.ops[2]) THEN reg'["R11"] = (Content(a.ops[2]))'
           ELSE reg'["R10"] = (Content(a.ops[1]))'
    BY <1>1, <1>3, <1>4 DEF s, d
  <2>2. Scratch(a, m + 1)'
    BY <2>1 DEF Scratch
  <2>3. Calm /\ Onward /\ (a.kind # "Binary" => flags' = flags)
    BY <1>3, <2>1
  <2>4. m # Len(code_gen(a))
    BY <1>4
  <2> QED
    BY <2>2, <2>3, <2>4 DEF LineOutcome, Midway
<1>5. CASE m = Len(code_gen(a))
  BY <1>1, <1>3, <1>5 DEF LineOutcome, Effect, s, d
<1> QED
  BY <1>4, <1>5 DEF LineOutcome

LEMMA BinaryOutcome ==
  ASSUME IInv, Framed, Cpu!Execute, NEW a \in Lowered, a.kind = "Binary",
         \A k \in 1..Len(a.ops) : Ordinary(a.ops[k]),
         NEW m \in 1..Len(code_gen(a)), out[ip] = code_gen(a)[m], Scratch(a, m)
  PROVE  LineOutcome(a, m)
<1> DEFINE s == a.ops[1]
           d == a.ops[2]
           op == a.op
<1>1. Ordinary(s) /\ Ordinary(d) /\ code_gen(a) = PrintBinary(op, s, d) /\ op \in BinaryOpASM
  BY AsmFields DEF Lowered, Fits, code_gen
<1>2. /\ op # "MULT" /\ m = 2 => reg["R10"] = Content(s)
      /\ op = "MULT" /\ m = 2 => reg["R11"] = Content(d)
      /\ op = "MULT" /\ m = 3 => reg["R11"] = Combined("imull", Content(d), Content(s))
  BY DEF Scratch
<1> HIDE DEF s, d, op
<1>3. /\ Onward
      /\ m < Len(PrintBinary(op, s, d)) =>
           /\ Calm /\ m < 3
           /\ op # "MULT" => m = 1 /\ reg'["R10"] = (Content(s))'
           /\ op = "MULT" /\ m = 1 => reg'["R11"] = (Content(d))'
           /\ op = "MULT" /\ m = 2 => reg'["R11"] = Combined("imull", (Content(d))', (Content(s))')
      /\ m = Len(PrintBinary(op, s, d)) => Wrote(d, Combined(Mnemonic[op], Content(d), Content(s)))
  BY <1>1, <1>2, BinaryLines
<1>4. CASE m < Len(code_gen(a))
  <2>1. /\ Calm /\ m \in {1, 2}
        /\ a.op # "MULT" => m = 1 /\ reg'["R10"] = (Content(a.ops[1]))'
        /\ a.op = "MULT" /\ m = 1 => reg'["R11"] = (Content(a.ops[2]))'
        /\ a.op = "MULT" /\ m = 2 =>
             reg'["R11"] = Combined("imull", (Content(a.ops[2]))', (Content(a.ops[1]))')
    BY <1>1, <1>3, <1>4 DEF s, d, op
  <2>2. Scratch(a, m + 1)'
    BY <2>1 DEF Scratch
  <2>3. Calm /\ Onward /\ (a.kind # "Binary" => flags' = flags)
    BY <1>3, <2>1
  <2>4. m # Len(code_gen(a))
    BY <1>4
  <2> QED
    BY <2>2, <2>3, <2>4 DEF LineOutcome, Midway
<1>5. CASE m = Len(code_gen(a))
  BY <1>1, <1>3, <1>5 DEF LineOutcome, Effect, s, d, op
<1> QED
  BY <1>4, <1>5 DEF LineOutcome

LEMMA IdivOutcome ==
  ASSUME IInv, Framed, Cpu!Execute, NEW a \in Lowered, a.kind = "Idiv",
         \A k \in 1..Len(a.ops) : Ordinary(a.ops[k]),
         NEW m \in 1..Len(code_gen(a)), out[ip] = code_gen(a)[m], Scratch(a, m)
  PROVE  LineOutcome(a, m)
<1> DEFINE s == a.ops[1]
<1>1. Ordinary(s) /\ code_gen(a) = PrintIdiv(s)
  BY DEF Lowered, Fits, code_gen
<1>2. m = 2 => reg["R10"] = Content(s)
  BY DEF Scratch
<1> HIDE DEF s
<1>3. \A n : n = reg["DX"] * Modulus + (reg["AX"] % Modulus) =>
        /\ m < Len(PrintIdiv(s)) =>
             Calm /\ Onward /\ flags' = flags /\ m = 1 /\ reg'["R10"] = (Content(s))'
        /\ m = Len(PrintIdiv(s)) => Divided32(Content(s), n)
  BY <1>1, <1>2, IdivLines
<1>4. CASE m < Len(code_gen(a))
  <2>1. Calm /\ Onward /\ flags' = flags /\ m = 1 /\ reg'["R10"] = (Content(a.ops[1]))'
    BY <1>1, <1>3, <1>4 DEF s
  <2>2. Scratch(a, m + 1)'
    BY <2>1 DEF Scratch
  <2>4. m # Len(code_gen(a))
    BY <1>4
  <2> QED
    BY <2>1, <2>2, <2>4 DEF LineOutcome, Midway
<1>5. CASE m = Len(code_gen(a))
  <2>1. \A n : n = reg["DX"] * Modulus + (reg["AX"] % Modulus) => Divided32(Content(a.ops[1]), n)
    BY <1>1, <1>3, <1>5 DEF s
  <2> QED
    BY <1>5, <2>1 DEF LineOutcome, Effect
<1> QED
  BY <1>4, <1>5 DEF LineOutcome

(* The instructions that are printed in one line. *)
LEMMA SingleOutcome ==
  ASSUME IInv, Framed, Cpu!Execute, NEW a \in Lowered,
         a.kind \in {"Unary", "SetCC", "Cdq", "Jmp", "JmpCC", "Label"},
         \A k \in 1..Len(a.ops) : Ordinary(a.ops[k]),
         NEW m \in 1..Len(code_gen(a)), out[ip] = code_gen(a)[m]
  PROVE  LineOutcome(a, m)
<1>1. CASE a.kind = "Unary"
  <2> DEFINE op == a.op
             d  == a.ops[1]
  <2>1. Ordinary(d) /\ op \in UnaryOpASM /\ code_gen(a) = PrintUnary(op, d)
    BY <1>1, AsmFields DEF Lowered, Fits, code_gen
  <2> HIDE DEF op, d
  <2>2. /\ m = Len(code_gen(a)) /\ Onward
        /\ Wrote(d, IF op = "NOT" THEN -Content(d) - 1 ELSE Wrap(-Content(d)))
    BY <2>1, UnaryLines
  <2>3. m \in Int
    OBVIOUS
  <2> QED
    BY <1>1, <2>2, <2>3 DEF LineOutcome, Effect, op, d
<1>2. CASE a.kind = "SetCC"
  <2> DEFINE cc == a.cc
             d  == a.ops[1]
  <2>1. Ordinary(d) /\ code_gen(a) = <<Setting(cc, d)>>
    BY <1>2 DEF Lowered, Fits, code_gen
  <2> HIDE DEF cc, d
  <2>2. /\ m = Len(code_gen(a)) /\ Onward
        /\ Wrote(d, (Content(d) \div ByteSize) * ByteSize + Bool(Cpu!Holds(cc)))
    BY <2>1, SetLines
  <2>3. m \in Int
    OBVIOUS
  <2> QED
    BY <1>2, <2>2, <2>3 DEF LineOutcome, Effect, cc, d
<1>3. CASE a.kind = "Cdq"
  <2> DEFINE l == Machine("cdq", None, None)
  <2>1. code_gen(a) = <<l>> /\ l.m = "cdq"
    BY <1>3, MachineFields DEF code_gen
  <2> HIDE DEF l
  <2>2. Len(code_gen(a)) = 1 /\ m = 1 /\ out[ip].m = "cdq"
    BY <2>1, TupleElements
  <2> QED
    BY <1>3, <2>2, LineSign DEF LineOutcome, Effect
<1>4. CASE a.kind \in {"Jmp", "Label"}
  <2> DEFINE none == ""
             l == Branching(IF a.kind = "Jmp" THEN "jmp" ELSE "label", none,
                            IF a.kind = "Jmp" THEN a.target ELSE a.id)
  <2>1. code_gen(a) = <<l>>
    BY <1>4 DEF code_gen
  <2> HIDE DEF none
  <2>2. /\ a.kind = "Jmp" => l.m = "jmp" /\ l.label = a.target
        /\ a.kind = "Label" => l.m = "label"
    BY <1>4, MachineFields
  <2> HIDE DEF l
  <2>3. Len(code_gen(a)) = 1 /\ m = 1 /\ out[ip] = l
    BY <2>1, TupleElements
  <2> QED
    BY <1>4, <2>2, <2>3, LineBranch DEF LineOutcome, Effect
<1>5. CASE a.kind = "JmpCC"
  <2> DEFINE l == Branching("j", a.cc, a.target)
  <2>1. code_gen(a) = <<l>> /\ l.m = "j" /\ l.label = a.target /\ l.cc = a.cc
    BY <1>5, MachineFields DEF code_gen
  <2> HIDE DEF l
  <2>2. Len(code_gen(a)) = 1 /\ m = 1 /\ out[ip] = l
    BY <2>1, TupleElements
  <2> QED
    BY <1>5, <2>1, <2>2, LineBranch DEF LineOutcome, Effect
<1> QED
  BY <1>1, <1>2, <1>3, <1>4, <1>5

(* The three lines of the exit: %rbp is not the frame's any more at ret.   *)
LEMMA RetOutcome ==
  ASSUME MachineInv, Cpu!Execute, NEW a, a.kind = "Ret", ip > 2,
         NEW m \in 1..Len(code_gen(a)), out[ip] = code_gen(a)[m]
  PROVE  LineOutcome(a, m)
<1>1. code_gen(a) = PrintRet
  BY DEF code_gen
<1>2. /\ Len(code_gen(a)) = 3 /\ m \in {1, 2, 3}
      /\ m = 1 => out[ip] = Machine("movq", rbp, rsp)
      /\ m = 2 => out[ip] = Machine("popq", None, rbp)
      /\ m = 3 => out[ip] = Machine("ret", None, None) /\ out[ip].m = "ret"
  BY <1>1, ExitLines
<1>3. status = "on" /\ DOMAIN reg = RegASM \cup {"SP", "BP"} /\ StackShape
  BY Fetched DEF MachineInv
<1>4. \A k : Scratch(a, k)'
  BY DEF Scratch
<1>5. CASE m = 1
  <2>1. reg' = [reg EXCEPT !["SP"] = reg["BP"]] /\ mem' = mem /\ Onward /\ flags' = flags
    BY <1>2, <1>3, <1>5, EntryLines, MoveStep DEF Onward
  <2>2. Calm
    BY <1>3, <2>1 DEF Calm, RegASM
  <2> QED
    BY <1>2, <1>4, <1>5, <2>1, <2>2 DEF LineOutcome, Midway
<1>6. CASE m = 2
  <2>1. Cpu!Pop /\ Cpu!Dst.reg = "BP"
    BY <1>2, <1>6, EntryLines, Fetched DEF Cpu!Dst
  <2>2. /\ \A r \in RegASM : reg'[r] = reg[r]
        /\ mem' = mem /\ Onward /\ flags' = flags
    BY <1>3, <2>1 DEF Cpu!Pop, Cpu!Advance, Onward, RegASM
  <2>3. Calm
    BY <2>2 DEF Calm, RegASM
  <2> QED
    BY <1>2, <1>4, <1>6, <2>2, <2>3 DEF LineOutcome, Midway
<1>7. CASE m = 3
  <2>1. status' = "exited"
    BY <1>2, <1>3, <1>7, ReturnStep DEF StackShape
  <2>2. Cpu!Return
    BY <1>2, <1>7, Fetched
  <2>3. reg'["AX"] = reg["AX"] /\ UNCHANGED <<ip, mem>>
    BY <1>3, <2>2 DEF Cpu!Return, RegASM
  <2> QED
    BY <1>2, <1>7, <2>1, <2>3 DEF LineOutcome, Effect
<1> QED
  BY <1>2, <1>5, <1>6, <1>7

LEMMA AsmOutcome ==
  ASSUME IInv, MachineInv, Cpu!Execute, NEW a \in Lowered, ip > 2, a.kind # "Ret" => Framed,
         \A k \in 1..Len(a.ops) : Ordinary(a.ops[k]),
         NEW m \in 1..Len(code_gen(a)), out[ip] = code_gen(a)[m], Scratch(a, m)
  PROVE  LineOutcome(a, m)
<1>1. a.kind \in {"Mov", "Unary", "Binary", "Cmp", "SetCC", "Idiv", "Cdq", "Ret", "Jmp", "JmpCC",
                  "Label"}
  BY AsmFields DEF Lowered
<1>2. CASE a.kind \in {"Unary", "SetCC", "Cdq", "Jmp", "JmpCC", "Label"}
  BY <1>2, SingleOutcome
<1> QED
  BY <1>1, <1>2, MovOutcome, CmpOutcome, BinaryOutcome, IdivOutcome, RetOutcome

-----------------------------------------------------------------------------
(* What the placed instructions of a block do, in terms of the TACKY       *)
(* operands that they were lowered from.                                   *)

(* Operand o is where the value of v is. *)
Stands(o, v) ==
  \/ v.tag = "const" /\ o = Immediate(v.value)
  \/ v.tag = "var" /\ v.id \in DOMAIN offset_map /\ o = Stack(offset_map[v.id])

(* The line writes x to the variable d, and nothing else, relative to the  *)
(* beginning of the TACKY instruction.                                     *)
Result(d, x) ==
  /\ Onward
  /\ \A s \in Slots : mem'[s] = IF s = offset_map[d.id] THEN x ELSE settled[s]

Ready(a) == \A k \in 1..Len(a.ops) : Ordinary(a.ops[k])

LEMMA PlacedStands ==
  ASSUME NEW v \in Operand, NEW o, PlacedAs(o, convert_val(v)), Ordinary(o)
  PROVE  Stands(o, v)
<1>1. o.type # "PSEUDO"
  BY DEF Ordinary, Settled, Located
<1> QED
  BY <1>1, ConvertedNames, ConstantOperands DEF PlacedAs, Stands

LEMMA PlacesForms ==
  ASSUME NEW a
  PROVE  /\ \A s, d : Places(a, Mov(s, d)) =>
              a.kind = "Mov" /\ Len(a.ops) = 2 /\ PlacedAs(a.ops[1], s) /\ PlacedAs(a.ops[2], d)
         /\ \A s, d : Places(a, Cmp(s, d)) =>
              a.kind = "Cmp" /\ Len(a.ops) = 2 /\ PlacedAs(a.ops[1], s) /\ PlacedAs(a.ops[2], d)
         /\ \A op, s, d : Places(a, BinaryASM(op, s, d)) =>
              /\ a.kind = "Binary" /\ a.op = op /\ Len(a.ops) = 2
              /\ PlacedAs(a.ops[1], s) /\ PlacedAs(a.ops[2], d)
         /\ \A op, d : Places(a, UnaryASM(op, d)) =>
              a.kind = "Unary" /\ a.op = op /\ Len(a.ops) = 1 /\ PlacedAs(a.ops[1], d)
         /\ \A cc, d : Places(a, SetCC(cc, d)) =>
              a.kind = "SetCC" /\ a.cc = cc /\ Len(a.ops) = 1 /\ PlacedAs(a.ops[1], d)
         /\ \A d : Places(a, Idiv(d)) => a.kind = "Idiv" /\ Len(a.ops) = 1 /\ PlacedAs(a.ops[1], d)
         /\ Places(a, Cdq) => a.kind = "Cdq"
         /\ Places(a, Ret) => a.kind = "Ret"
         /\ \A l : Places(a, Jmp(l)) => a.kind = "Jmp" /\ a.target = l
         /\ \A l : Places(a, AsmLabel(l)) => a.kind = "Label" /\ a.id = l
         /\ \A cc, l : Places(a, JmpCC(cc, l)) => a.kind = "JmpCC" /\ a.cc = cc /\ a.target = l
<1>1. ASSUME NEW s, NEW d, NEW b, b.ops = <<s, d>>, Places(a, b)
      PROVE  Len(a.ops) = 2 /\ PlacedAs(a.ops[1], s) /\ PlacedAs(a.ops[2], d)
  BY <1>1 DEF Places
<1>2. ASSUME NEW d, NEW b, b.ops = <<d>>, Places(a, b)
      PROVE  Len(a.ops) = 1 /\ PlacedAs(a.ops[1], d)
  BY <1>2 DEF Places
<1>3. ASSUME NEW b, Places(a, b)
      PROVE  /\ a.kind = b.kind
             /\ b.kind \in {"Unary", "Binary"} => a.op = b.op
             /\ b.kind \in {"SetCC", "JmpCC"} => a.cc = b.cc
             /\ b.kind \in {"Jmp", "JmpCC"} => a.target = b.target
             /\ b.kind = "Label" => a.id = b.id
  BY <1>3 DEF Places
<1>4. \A s, d : /\ Mov(s, d).ops = <<s, d>> /\ Mov(s, d).kind = "Mov"
                /\ Cmp(s, d).ops = <<s, d>> /\ Cmp(s, d).kind = "Cmp"
                /\ \A op : /\ BinaryASM(op, s, d).ops = <<s, d>>
                           /\ BinaryASM(op, s, d).kind = "Binary"
                           /\ BinaryASM(op, s, d).op = op
  BY DEF Mov, Cmp, BinaryASM
<1>5. \A op, d : /\ UnaryASM(op, d).ops = <<d>> /\ UnaryASM(op, d).kind = "Unary"
                 /\ UnaryASM(op, d).op = op
                 /\ SetCC(op, d).ops = <<d>> /\ SetCC(op, d).kind = "SetCC" /\ SetCC(op, d).cc = op
                 /\ Idiv(d).ops = <<d>> /\ Idiv(d).kind = "Idiv"
  BY DEF UnaryASM, SetCC, Idiv
<1>6. /\ Cdq.kind = "Cdq" /\ Ret.kind = "Ret"
      /\ \A l : /\ Jmp(l).kind = "Jmp" /\ Jmp(l).target = l
                /\ AsmLabel(l).kind = "Label" /\ AsmLabel(l).id = l
                /\ \A cc : /\ JmpCC(cc, l).kind = "JmpCC" /\ JmpCC(cc, l).cc = cc
                           /\ JmpCC(cc, l).target = l
  BY DEF Cdq, Ret, Jmp, AsmLabel, JmpCC
<1>7. /\ \A s, d : Places(a, Mov(s, d)) =>
           a.kind = "Mov" /\ Len(a.ops) = 2 /\ PlacedAs(a.ops[1], s) /\ PlacedAs(a.ops[2], d)
      /\ \A s, d : Places(a, Cmp(s, d)) =>
           a.kind = "Cmp" /\ Len(a.ops) = 2 /\ PlacedAs(a.ops[1], s) /\ PlacedAs(a.ops[2], d)
      /\ \A op, s, d : Places(a, BinaryASM(op, s, d)) =>
           /\ a.kind = "Binary" /\ a.op = op /\ Len(a.ops) = 2
           /\ PlacedAs(a.ops[1], s) /\ PlacedAs(a.ops[2], d)
  BY <1>1, <1>3, <1>4
<1>8. /\ \A op, d : Places(a, UnaryASM(op, d)) =>
           a.kind = "Unary" /\ a.op = op /\ Len(a.ops) = 1 /\ PlacedAs(a.ops[1], d)
      /\ \A cc, d : Places(a, SetCC(cc, d)) =>
           a.kind = "SetCC" /\ a.cc = cc /\ Len(a.ops) = 1 /\ PlacedAs(a.ops[1], d)
      /\ \A d : Places(a, Idiv(d)) => a.kind = "Idiv" /\ Len(a.ops) = 1 /\ PlacedAs(a.ops[1], d)
  BY <1>2, <1>3, <1>5
<1>9. /\ Places(a, Cdq) => a.kind = "Cdq"
      /\ Places(a, Ret) => a.kind = "Ret"
      /\ \A l : Places(a, Jmp(l)) => a.kind = "Jmp" /\ a.target = l
      /\ \A l : Places(a, AsmLabel(l)) => a.kind = "Label" /\ a.id = l
      /\ \A cc, l : Places(a, JmpCC(cc, l)) => a.kind = "JmpCC" /\ a.cc = cc /\ a.target = l
  BY <1>3, <1>6
<1> QED
  BY <1>7, <1>8, <1>9

LEMMA SlotOf ==
  ASSUME IInv, NEW x \in DOMAIN offset_map
  PROVE  /\ offset_map[x] \in Slots
         /\ \A y \in DOMAIN offset_map : offset_map[x] = offset_map[y] => x = y
<1>1. offset_map[x] \in Int /\ \A y \in DOMAIN offset_map : offset_map[y] \in Int
  BY DEF IInv, TypeOK
<1>2. \A y \in DOMAIN offset_map : offset_map[x] = offset_map[y] => x = y
  BY <1>1 DEF IInv, SlotsDisjoint
<1> QED
  BY <1>2 DEF Slots

LEMMA StandsContent ==
  ASSUME IInv, NEW o, NEW v, Stands(o, v)
  PROVE  /\ Unwritten => Content(o) = Val(v)
         /\ \A d, x : Holding(d, x) /\ Stands(o, v) /\ v.tag = "var" /\ v.id = d.id => Content(o) = x
         /\ \A d, x : Holding(d, x) /\ d.id \in DOMAIN offset_map /\ (v.tag = "var" => v.id # d.id)
              => Content(o) = Val(v)
<1>1. CASE v.tag = "const"
  <2>1. o.type = "IMM" /\ o.val = v.value /\ v.tag # "var"
    BY <1>1 DEF Stands, Immediate
  <2> QED
    BY <1>1, <2>1 DEF Content, Val
<1>2. CASE v.tag = "var"
  <2>1. /\ v.id \in DOMAIN offset_map /\ o.type = "STACK" /\ o.offset = offset_map[v.id]
        /\ v.tag # "const"
    BY <1>2 DEF Stands, Stack
  <2>2. Content(o) = mem[offset_map[v.id]] /\ Val(v) = settled[offset_map[v.id]]
    BY <2>1 DEF Content, Val
  <2>3. /\ offset_map[v.id] \in Slots
        /\ \A y \in DOMAIN offset_map : offset_map[v.id] = offset_map[y] => v.id = y
    BY <2>1, SlotOf
  <2>4. Unwritten => Content(o) = Val(v)
    BY <2>2, <2>3 DEF Unwritten
  <2>5. \A d, x : Holding(d, x) /\ v.id = d.id => Content(o) = x
    BY <2>2, <2>3 DEF Holding
  <2>6. \A d, x : Holding(d, x) /\ d.id \in DOMAIN offset_map /\ v.id # d.id => Content(o) = Val(v)
    BY <2>2, <2>3 DEF Holding
  <2> QED
    BY <1>2, <2>4, <2>5, <2>6
<1> QED
  BY <1>1, <1>2 DEF Stands

LEMMA WroteSlot ==
  ASSUME NEW o, NEW d, Stands(o, d), d.tag = "var", NEW x, Wrote(o, x)
  PROVE  /\ \A s \in Slots : mem'[s] = IF s = offset_map[d.id] THEN x ELSE mem[s]
         /\ \A r \in RegASM : reg'[r] = reg[r]
<1>1. o.type = "STACK" /\ o.offset = offset_map[d.id]
  BY DEF Stands, Stack
<1> QED
  BY <1>1 DEF Wrote

LEMMA WroteRegister ==
  ASSUME NEW r0 \in RegASM, NEW x, Wrote(Register(r0), x)
  PROVE  /\ \A s \in Slots : mem'[s] = mem[s]
         /\ \A r \in RegASM : reg'[r] = IF r = r0 THEN x ELSE reg[r]
BY DEF Wrote, Register

(* A write to d over what is settled, or over an earlier write to d.       *)
LEMMA WroteResult ==
  ASSUME NEW o, NEW d, Stands(o, d), d.tag = "var", NEW x, Wrote(o, x), Onward
  PROVE  /\ Unwritten => Result(d, x)
         /\ \A y : Holding(d, y) => Result(d, x)
<1>1. \A s \in Slots : mem'[s] = IF s = offset_map[d.id] THEN x ELSE mem[s]
  BY WroteSlot
<1> HIDE DEF Slots
<1>2. Unwritten => Result(d, x)
  BY <1>1 DEF Unwritten, Result
<1>3. \A y : Holding(d, y) => Result(d, x)
  BY <1>1 DEF Holding, Result
<1> QED
  BY <1>2, <1>3

LEMMA ReadyOperands ==
  ASSUME NEW a, Ready(a)
  PROVE  /\ Len(a.ops) = 2 => Ordinary(a.ops[1]) /\ Ordinary(a.ops[2])
         /\ Len(a.ops) = 1 => Ordinary(a.ops[1])
BY DEF Ready

LEMMA VariableOperand ==
  ASSUME NEW d \in Variable
  PROVE  d \in Operand /\ d.tag = "var" /\ d.id \in Name
BY DEF Variable, Operand

(* A register operand is never placed.                                     *)
LEMMA PlacedRegister ==
  ASSUME NEW o, NEW r, PlacedAs(o, Register(r))
  PROVE  o = Register(r)
BY ConstantOperands DEF PlacedAs

LEMMA MovToVariable ==
  ASSUME IInv, NEW a, Ready(a), Effect(a), NEW v \in Operand, NEW d \in Variable,
         Places(a, Mov(convert_val(v), convert_val(d))), Unwritten
  PROVE  Result(d, Val(v)) /\ flags' = flags
<1>1. /\ a.kind = "Mov" /\ Len(a.ops) = 2
      /\ PlacedAs(a.ops[1], convert_val(v)) /\ PlacedAs(a.ops[2], convert_val(d))
  BY PlacesForms
<1>2. Stands(a.ops[1], v) /\ Stands(a.ops[2], d) /\ d.tag = "var"
  BY <1>1, ReadyOperands, PlacedStands, VariableOperand
<1>3. Wrote(a.ops[2], Val(v)) /\ flags' = flags /\ Onward
  BY <1>1, <1>2, StandsContent DEF Effect
<1> QED
  BY <1>2, <1>3, WroteResult

LEMMA MovOverVariable ==
  ASSUME IInv, NEW a, Ready(a), Effect(a), NEW d \in Variable,
         Places(a, Mov(Immediate(0), convert_val(d))), Unwritten
  PROVE  Result(d, 0) /\ flags' = flags
<1> DEFINE v == TackyConstant(0)
<1>1. v \in Operand /\ convert_val(v) = Immediate(0) /\ Val(v) = 0
  BY SmallWords DEF Operand, TackyConstant, convert_val, Val
<1> HIDE DEF v
<1> QED
  BY <1>1, MovToVariable

LEMMA MovToRegister ==
  ASSUME IInv, NEW a, Ready(a), Effect(a), NEW v \in Operand,
         Places(a, Mov(convert_val(v), Register("AX"))), Unwritten
  PROVE  /\ reg'["AX"] = Val(v) /\ Onward
         /\ \A s \in Slots : mem'[s] = mem[s]
<1>1. /\ a.kind = "Mov" /\ Len(a.ops) = 2
      /\ PlacedAs(a.ops[1], convert_val(v)) /\ a.ops[2] = Register("AX")
  BY PlacesForms, PlacedRegister
<1>2. Stands(a.ops[1], v)
  BY <1>1, ReadyOperands, PlacedStands
<1>3. Wrote(Register("AX"), Val(v)) /\ Onward
  BY <1>1, <1>2, StandsContent DEF Effect
<1>4. "AX" \in RegASM
  BY DEF RegASM
<1> QED
  BY <1>3, <1>4, WroteRegister

LEMMA MovFromRegister ==
  ASSUME IInv, NEW a, Ready(a), Effect(a), NEW r \in RegASM, NEW d \in Variable,
         Places(a, Mov(Register(r), convert_val(d))), Unwritten
  PROVE  Result(d, reg[r])
<1>1. /\ a.kind = "Mov" /\ Len(a.ops) = 2
      /\ a.ops[1] = Register(r) /\ PlacedAs(a.ops[2], convert_val(d))
  BY PlacesForms, PlacedRegister
<1>2. Stands(a.ops[2], d) /\ d.tag = "var"
  BY <1>1, ReadyOperands, PlacedStands, VariableOperand
<1>3. Content(a.ops[1]) = reg[r]
  BY <1>1 DEF Content, Register
<1>4. Wrote(a.ops[2], reg[r]) /\ Onward
  BY <1>1, <1>3 DEF Effect
<1> QED
  BY <1>2, <1>4, WroteResult

LEMMA CmpOfValues ==
  ASSUME IInv, NEW a, Ready(a), Effect(a), NEW v \in Operand, NEW w \in Operand,
         Places(a, Cmp(convert_val(v), convert_val(w))), Unwritten
  PROVE  Calm /\ Onward /\ flags' = Cpu!Compared(Val(w), Val(v))
<1>1. /\ a.kind = "Cmp" /\ Len(a.ops) = 2
      /\ PlacedAs(a.ops[1], convert_val(v)) /\ PlacedAs(a.ops[2], convert_val(w))
  BY PlacesForms
<1>2. Stands(a.ops[1], v) /\ Stands(a.ops[2], w)
  BY <1>1, ReadyOperands, PlacedStands
<1> QED
  BY <1>1, <1>2, StandsContent DEF Effect

LEMMA CmpWithZero ==
  ASSUME IInv, NEW a, Ready(a), Effect(a), NEW w \in Operand,
         Places(a, Cmp(Immediate(0), convert_val(w))), Unwritten
  PROVE  Calm /\ Onward /\ flags' = Cpu!Compared(Val(w), 0)
<1> DEFINE v == TackyConstant(0)
<1>1. v \in Operand /\ convert_val(v) = Immediate(0) /\ Val(v) = 0
  BY SmallWords DEF Operand, TackyConstant, convert_val, Val
<1> HIDE DEF v
<1> QED
  BY <1>1, CmpOfValues

LEMMA SetOnZero ==
  ASSUME IInv, NEW a, Ready(a), Effect(a), NEW cc, NEW d \in Variable,
         Places(a, SetCC(cc, convert_val(d))), Holding(d, 0)
  PROVE  Result(d, Bool(Cpu!Holds(cc)))
<1>1. a.kind = "SetCC" /\ a.cc = cc /\ Len(a.ops) = 1 /\ PlacedAs(a.ops[1], convert_val(d))
  BY PlacesForms
<1>2. Stands(a.ops[1], d) /\ d.tag = "var"
  BY <1>1, ReadyOperands, PlacedStands, VariableOperand
<1>3. Content(a.ops[1]) = 0
  BY <1>2, StandsContent
<1> DEFINE b == Bool(Cpu!Holds(cc))
<1>4. b \in Int
  BY DEF Bool
<1> HIDE DEF b
<1>5. (0 \div ByteSize) * ByteSize + b = b
  BY <1>4, ByteCleared
<1>6. Wrote(a.ops[1], (0 \div ByteSize) * ByteSize + b) /\ Onward
  BY <1>1, <1>3 DEF Effect, b
<1>7. Wrote(a.ops[1], b)
  BY <1>5, <1>6
<1> QED
  BY <1>2, <1>6, <1>7, WroteResult DEF b

LEMMA UnaryOnVariable ==
  ASSUME IInv, NEW a, Ready(a), Effect(a), NEW op, NEW d \in Variable, NEW x,
         Places(a, UnaryASM(op, convert_val(d))), Holding(d, x)
  PROVE  Result(d, IF op = "NOT" THEN -x - 1 ELSE Wrap(-x))
<1>1. a.kind = "Unary" /\ a.op = op /\ Len(a.ops) = 1 /\ PlacedAs(a.ops[1], convert_val(d))
  BY PlacesForms
<1>2. Stands(a.ops[1], d) /\ d.tag = "var"
  BY <1>1, ReadyOperands, PlacedStands, VariableOperand
<1>3. Content(a.ops[1]) = x
  BY <1>2, StandsContent
<1>4. Wrote(a.ops[1], IF op = "NOT" THEN -x - 1 ELSE Wrap(-x)) /\ Onward
  BY <1>1, <1>3 DEF Effect
<1> QED
  BY <1>2, <1>4, WroteResult

LEMMA BinaryOnVariable ==
  ASSUME IInv, NEW a, Ready(a), Effect(a), NEW op, NEW v \in Operand, NEW d \in Variable, NEW x,
         Places(a, BinaryASM(op, convert_val(v), convert_val(d))), Holding(d, x), v # d
  PROVE  Result(d, Combined(Mnemonic[op], x, Val(v)))
<1>1. /\ a.kind = "Binary" /\ a.op = op /\ Len(a.ops) = 2
      /\ PlacedAs(a.ops[1], convert_val(v)) /\ PlacedAs(a.ops[2], convert_val(d))
  BY PlacesForms
<1>2. Stands(a.ops[1], v) /\ Stands(a.ops[2], d) /\ d.tag = "var"
  BY <1>1, ReadyOperands, PlacedStands, VariableOperand
<1>3. Content(a.ops[2]) = x /\ d.id \in DOMAIN offset_map
  BY <1>2, StandsContent DEF Stands
<1>4. v.tag = "var" => v.id # d.id
  BY DEF Operand, Variable
<1>5. Content(a.ops[1]) = Val(v)
  BY <1>2, <1>3, <1>4, StandsContent
<1>6. Wrote(a.ops[2], Combined(Mnemonic[op], x, Val(v))) /\ Onward
  BY <1>1, <1>3, <1>5 DEF Effect
<1> QED
  BY <1>2, <1>6, WroteResult

LEMMA IdivByValue ==
  ASSUME IInv, NEW a, Ready(a), Effect(a), NEW v \in Operand, Places(a, Idiv(convert_val(v))),
         Unwritten, NEW n, n = reg["DX"] * Modulus + (reg["AX"] % Modulus)
  PROVE  Divided32(Val(v), n)
<1>1. a.kind = "Idiv" /\ Len(a.ops) = 1 /\ PlacedAs(a.ops[1], convert_val(v))
  BY PlacesForms
<1>2. Content(a.ops[1]) = Val(v)
  BY <1>1, ReadyOperands, PlacedStands, StandsContent
<1> QED
  BY <1>1, <1>2 DEF Effect

(* What the operands of an instruction are worth. *)
LEMMA ValWord ==
  ASSUME NEW v \in Operand, v.tag = "var" => v.id \in DOMAIN offset_map,
         \A s \in Slots : settled[s] \in Word
  PROVE  Val(v) \in Word
<1>1. v.tag = "const" => v.value \in Int
  BY ConvertedNames
<1>2. v.tag # "const" => v.tag = "var" /\ offset_map[v.id] \in Slots
  BY ConvertedNames DEF Slots
<1> HIDE DEF Slots
<1> QED
  BY <1>1, <1>2, WrapWord DEF Val

LEMMA ValKept ==
  ASSUME offset_map' = offset_map, settled' = settled
  PROVE  /\ \A v : (Val(v))' = Val(v)
         /\ Slots' = Slots
BY DEF Val, Slots

LEMMA ResultHolding ==
  ASSUME offset_map' = offset_map, settled' = settled
  PROVE  \A d, x : Result(d, x) => Holding(d, x)'
BY ValKept DEF Result, Holding

LEMMA UnwrittenKept ==
  ASSUME offset_map' = offset_map, settled' = settled, Unwritten,
         \A s \in Slots : mem'[s] = mem[s]
  PROVE  Unwritten'
BY ValKept DEF Unwritten

-----------------------------------------------------------------------------
(* From one assembly instruction of a block to the next, and to what the   *)
(* TACKY instruction means.                                                *)

Leaves == \A s \in Slots : mem'[s] = settled[s]

Done(i) ==
  /\ i.kind = "Return" =>
       status' = "exited" /\ reg'["AX"] = Val(i.src) /\ UNCHANGED ip /\ Leaves
  /\ i.kind = "Unary" => Result(i.dst, Meaning!Unary(i.op, Val(i.src)))
  /\ i.kind = "Binary" =>
       /\ i.op \in {"DIVIDE", "REMAINDER"} => ~Overflows(i)
       /\ Result(i.dst, Meaning!Binary(i.op, Val(i.src1), Val(i.src2)))
  /\ i.kind = "Copy" => Result(i.dst, Val(i.src))
  /\ i.kind = "Label" => Onward /\ Leaves
  /\ i.kind = "Jump" => ip' = Cpu!LineOf(i.target) /\ status' = "on" /\ Leaves
  /\ i.kind \in {"JumpIfZero", "JumpIfNotZero"} =>
       /\ ip' = IF (Val(i.cond) = 0) = (i.kind = "JumpIfZero") THEN Cpu!LineOf(i.target) ELSE ip + 1
       /\ status' = "on" /\ Leaves

Faults(i) ==
  /\ i.kind = "Binary" /\ i.op \in {"DIVIDE", "REMAINDER"} /\ Overflows(i)
  /\ status' = "fault" /\ UNCHANGED ip /\ Leaves

BlockOutcome(i, j) ==
  \/ j < Len(Lower(i)) /\ Onward /\ (settled' = settled => Stage(i, j + 1)')
  \/ j = Len(Lower(i)) /\ Done(i)
  \/ Faults(i)

LEMMA ComparedHolds ==
  ASSUME NEW x \in Int, NEW y \in Int, flags = Cpu!Compared(x, y)
  PROVE  /\ Cpu!Holds("E") <=> x = y
         /\ Cpu!Holds("NE") <=> x # y
         /\ Cpu!Holds("L") <=> x < y
         /\ Cpu!Holds("LE") <=> x <= y
         /\ Cpu!Holds("G") <=> x > y
         /\ Cpu!Holds("GE") <=> x >= y
<1>1. (flags.equal <=> x = y) /\ (flags.less <=> x < y)
  BY DEF Cpu!Compared
<1>2. /\ Cpu!Holds("E") <=> flags.equal
      /\ Cpu!Holds("NE") <=> ~flags.equal
      /\ Cpu!Holds("L") <=> flags.less
      /\ Cpu!Holds("LE") <=> flags.less \/ flags.equal
      /\ Cpu!Holds("G") <=> ~flags.less /\ ~flags.equal
      /\ Cpu!Holds("GE") <=> ~flags.less
  BY DEF Cpu!Holds
<1> QED
  BY <1>1, <1>2

LEMMA DecidesRelation ==
  ASSUME NEW x \in Int, NEW y \in Int, flags = Cpu!Compared(x, y), NEW op \in RelationalOp
  PROVE  Bool(Cpu!Holds(convert_to_condition_code[op])) = Meaning!Binary(op, x, y)
<1>1. op \in {"EQUAL", "NOT_EQUAL", "LESS_THAN", "LESS_OR_EQUAL", "GREATER_THAN", "GREATER_OR_EQUAL"}
  BY DEF RelationalOp
<1>2. Meaning!Binary(op, x, y) =
        Bool(CASE op = "EQUAL" -> x = y [] op = "NOT_EQUAL" -> x # y
               [] op = "LESS_THAN" -> x < y [] op = "LESS_OR_EQUAL" -> x <= y
               [] op = "GREATER_THAN" -> x > y [] op = "GREATER_OR_EQUAL" -> x >= y)
  BY <1>1, SameWords DEF Meaning!Binary
<1>3. convert_to_condition_code[op] =
        CASE op = "EQUAL" -> "E" [] op = "NOT_EQUAL" -> "NE"
          [] op = "LESS_THAN" -> "L" [] op = "LESS_OR_EQUAL" -> "LE"
          [] op = "GREATER_THAN" -> "G" [] op = "GREATER_OR_EQUAL" -> "GE"
  BY <1>1 DEF convert_to_condition_code
<1> QED
  BY <1>1, <1>2, <1>3, ComparedHolds DEF Bool

LEMMA UnwrittenLeaves ==
  ASSUME Unwritten
  PROVE  /\ mem' = mem => Leaves
         /\ (\A s \in Slots : mem'[s] = mem[s]) => Leaves
BY DEF Unwritten, Leaves

LEMMA ReturnBlock ==
  ASSUME IInv, offset_map' = offset_map, NEW i \in TackyInstruction, i.kind = "Return",
         NEW j \in 1..Len(Lower(i)), Stage(i, j),
         NEW a, Ready(a), Effect(a), Places(a, Lower(i)[j])
  PROVE  BlockOutcome(i, j)
<1> DEFINE s == convert_val(i.src)
<1>1. Lower(i) = <<Mov(s, Register("AX")), Ret>> /\ i.src \in Operand
  BY LowerForms, TackyFields
<1>2. /\ Len(Lower(i)) = 2 /\ j \in {1, 2}
      /\ Lower(i)[1] = Mov(s, Register("AX")) /\ Lower(i)[2] = Ret
  BY <1>1, TupleElements
<1>3. CASE j = 1
  <2>1. Unwritten
    BY <1>3 DEF Stage
  <2>2. /\ reg'["AX"] = Val(i.src) /\ Onward
        /\ \A c \in Slots : mem'[c] = mem[c]
    BY <1>1, <1>2, <1>3, <2>1, MovToRegister
  <2>3. ASSUME settled' = settled PROVE Stage(i, 2)'
    <3>1. Unwritten' /\ reg'["AX"] = (Val(i.src))'
      BY <2>1, <2>2, <2>3, UnwrittenKept, ValKept
    <3> QED
      BY <3>1 DEF Stage
  <2> QED
    BY <1>2, <1>3, <2>2, <2>3 DEF BlockOutcome
<1>4. CASE j = 2
  <2>1. Unwritten /\ reg["AX"] = Val(i.src)
    BY <1>4 DEF Stage
  <2>2. a.kind = "Ret"
    BY <1>2, <1>4, PlacesForms
  <2>3. Done(i)
    BY <2>1, <2>2, UnwrittenLeaves DEF Effect, Done
  <2> QED
    BY <1>2, <1>4, <2>3 DEF BlockOutcome
<1> QED
  BY <1>2, <1>3, <1>4

LEMMA CopyBlock ==
  ASSUME IInv, offset_map' = offset_map, NEW i \in TackyInstruction, i.kind = "Copy",
         NEW j \in 1..Len(Lower(i)), Stage(i, j),
         NEW a, Ready(a), Effect(a), Places(a, Lower(i)[j])
  PROVE  BlockOutcome(i, j)
<1>1. /\ Lower(i) = <<Mov(convert_val(i.src), convert_val(i.dst))>>
      /\ i.src \in Operand /\ i.dst \in Variable
  BY LowerForms, TackyFields
<1>2. Len(Lower(i)) = 1 /\ j = 1 /\ Lower(i)[1] = Mov(convert_val(i.src), convert_val(i.dst))
  BY <1>1, TupleElements
<1>3. Unwritten
  BY <1>2 DEF Stage
<1>4. Result(i.dst, Val(i.src))
  BY <1>1, <1>2, <1>3, MovToVariable
<1> QED
  BY <1>2, <1>4 DEF BlockOutcome, Done

LEMMA PlainJumpBlock ==
  ASSUME IInv, status = "on", NEW i \in TackyInstruction, i.kind \in {"Jump", "Label"},
         NEW j \in 1..Len(Lower(i)), Stage(i, j),
         NEW a, Ready(a), Effect(a), Places(a, Lower(i)[j])
  PROVE  BlockOutcome(i, j)
<1>1. /\ Len(Lower(i)) = 1 /\ j = 1
      /\ i.kind = "Jump" => Lower(i)[1] = Jmp(i.target)
      /\ i.kind = "Label" => Lower(i)[1] = AsmLabel(i.id)
  BY LowerForms, TupleElements
<1>2. Unwritten
  BY <1>1 DEF Stage
<1>3. CASE i.kind = "Jump"
  <2>1. a.kind = "Jmp" /\ a.target = i.target
    BY <1>1, <1>3, PlacesForms
  <2>2. ip' = Cpu!LineOf(i.target) /\ status' = "on" /\ Leaves
    BY <1>2, <2>1, UnwrittenLeaves DEF Effect
  <2> QED
    BY <1>1, <1>3, <2>2 DEF BlockOutcome, Done
<1>4. CASE i.kind = "Label"
  <2>1. a.kind = "Label"
    BY <1>1, <1>4, PlacesForms
  <2>2. Onward /\ Leaves
    BY <1>2, <2>1, UnwrittenLeaves DEF Effect, Onward
  <2> QED
    BY <1>1, <1>4, <2>2 DEF BlockOutcome, Done
<1> QED
  BY <1>3, <1>4

LEMMA JumpIfBlock ==
  ASSUME IInv, status = "on", offset_map' = offset_map, NEW i \in TackyInstruction,
         i.kind \in {"JumpIfZero", "JumpIfNotZero"}, Val(i.cond) \in Word,
         NEW j \in 1..Len(Lower(i)), Stage(i, j),
         NEW a, Ready(a), Effect(a), Places(a, Lower(i)[j])
  PROVE  BlockOutcome(i, j)
<1> DEFINE c  == convert_val(i.cond)
           cc == IF i.kind = "JumpIfZero" THEN "E" ELSE "NE"
<1>1. Lower(i) = <<Cmp(Immediate(0), c), JmpCC(cc, i.target)>> /\ i.cond \in Operand
  BY LowerForms, TackyFields
<1> HIDE DEF cc
<1>2. /\ Len(Lower(i)) = 2 /\ j \in {1, 2}
      /\ Lower(i)[1] = Cmp(Immediate(0), c) /\ Lower(i)[2] = JmpCC(cc, i.target)
  BY <1>1, TupleElements
<1>3. CASE j = 1
  <2>1. Unwritten
    BY <1>3 DEF Stage
  <2>2. Calm /\ Onward /\ flags' = Cpu!Compared(Val(i.cond), 0)
    BY <1>1, <1>2, <1>3, <2>1, CmpWithZero
  <2>3. ASSUME settled' = settled PROVE Stage(i, 2)'
    <3>1. Unwritten' /\ flags' = Cpu!Compared((Val(i.cond))', 0)
      BY <2>1, <2>2, <2>3, UnwrittenKept, ValKept DEF Calm
    <3> QED
      BY <3>1 DEF Stage, Cpu!Compared
  <2> QED
    BY <1>2, <1>3, <2>2, <2>3 DEF BlockOutcome
<1>4. CASE j = 2
  <2>1. Unwritten /\ flags = Cpu!Compared(Val(i.cond), 0)
    BY <1>4 DEF Stage
  <2>2. a.kind = "JmpCC" /\ a.cc = cc /\ a.target = i.target
    BY <1>2, <1>4, PlacesForms
  <2>3. /\ ip' = IF Cpu!Holds(cc) THEN Cpu!LineOf(i.target) ELSE ip + 1
        /\ status' = "on" /\ Leaves
    BY <2>1, <2>2, UnwrittenLeaves DEF Effect
  <2>4. Cpu!Holds(cc) <=> (Val(i.cond) = 0) = (i.kind = "JumpIfZero")
    <3>1. Val(i.cond) \in Int
      BY DEF Word
    <3>2. (Cpu!Holds("E") <=> Val(i.cond) = 0) /\ (Cpu!Holds("NE") <=> Val(i.cond) # 0)
      BY <2>1, <3>1, ComparedHolds
    <3> QED
      BY <3>2 DEF cc
  <2>5. Done(i)
    BY <2>3, <2>4 DEF Done
  <2> QED
    BY <1>2, <1>4, <2>5 DEF BlockOutcome
<1> QED
  BY <1>2, <1>3, <1>4

LEMMA NotBlock ==
  ASSUME IInv, offset_map' = offset_map, NEW i \in TackyInstruction,
         i.kind = "Unary", i.op = "NOT", Val(i.src) \in Word,
         NEW j \in 1..Len(Lower(i)), Stage(i, j),
         NEW a, Ready(a), Effect(a), Places(a, Lower(i)[j])
  PROVE  BlockOutcome(i, j)
<1> DEFINE s == convert_val(i.src)
           d == convert_val(i.dst)
<1>1. i.src \in Operand /\ i.dst \in Variable
  BY TackyFields
<1>2. Lower(i) = <<Cmp(Immediate(0), s), Mov(Immediate(0), d), SetCC("E", d)>>
  BY LowerForms DEF LowerUnary
<1>3. /\ Len(Lower(i)) = 3 /\ j \in {1, 2, 3}
      /\ Lower(i)[1] = Cmp(Immediate(0), s)
      /\ Lower(i)[2] = Mov(Immediate(0), d)
      /\ Lower(i)[3] = SetCC("E", d)
  BY <1>2, TupleElements
<1>4. CASE j = 1
  <2>1. Unwritten
    BY <1>4 DEF Stage
  <2>2. Calm /\ Onward /\ flags' = Cpu!Compared(Val(i.src), 0)
    BY <1>1, <1>3, <1>4, <2>1, CmpWithZero
  <2>3. ASSUME settled' = settled PROVE Stage(i, 2)'
    <3>1. Unwritten' /\ flags' = Cpu!Compared((Val(i.src))', 0)
      BY <2>1, <2>2, <2>3, UnwrittenKept, ValKept DEF Calm
    <3> QED
      BY <3>1 DEF Stage, UnaryStage, Cpu!Compared
  <2> QED
    BY <1>3, <1>4, <2>2, <2>3 DEF BlockOutcome
<1>5. CASE j = 2
  <2>1. Unwritten /\ flags = Cpu!Compared(Val(i.src), 0)
    BY <1>5 DEF Stage, UnaryStage
  <2>2. Result(i.dst, 0) /\ flags' = flags
    BY <1>1, <1>3, <1>5, <2>1, MovOverVariable
  <2>3. ASSUME settled' = settled PROVE Stage(i, 3)'
    <3>1. Holding(i.dst, 0)' /\ flags' = Cpu!Compared((Val(i.src))', 0)
      BY <2>1, <2>2, <2>3, ResultHolding, ValKept
    <3> QED
      BY <3>1 DEF Stage, UnaryStage, Cpu!Compared
  <2> QED
    BY <1>3, <1>5, <2>2, <2>3 DEF BlockOutcome, Result
<1>6. CASE j = 3
  <2>1. Holding(i.dst, 0) /\ flags = Cpu!Compared(Val(i.src), 0)
    BY <1>6 DEF Stage, UnaryStage
  <2>2. Result(i.dst, Bool(Cpu!Holds("E")))
    BY <1>1, <1>3, <1>6, <2>1, SetOnZero
  <2>3. Cpu!Holds("E") <=> Val(i.src) = 0
    <3>1. Val(i.src) \in Int
      BY DEF Word
    <3> QED
      BY <2>1, <3>1, ComparedHolds
  <2>4. Meaning!Unary(i.op, Val(i.src)) = Bool(Cpu!Holds("E"))
    BY <2>3, SameWords DEF Meaning!Unary, Bool
  <2>5. Done(i)
    BY <2>2, <2>4 DEF Done
  <2> QED
    BY <1>3, <1>6, <2>5 DEF BlockOutcome
<1> QED
  BY <1>3, <1>4, <1>5, <1>6

LEMMA UnaryBlock ==
  ASSUME IInv, offset_map' = offset_map, NEW i \in TackyInstruction,
         i.kind = "Unary", i.op # "NOT",
         NEW j \in 1..Len(Lower(i)), Stage(i, j),
         NEW a, Ready(a), Effect(a), Places(a, Lower(i)[j])
  PROVE  BlockOutcome(i, j)
<1> DEFINE s  == convert_val(i.src)
           d  == convert_val(i.dst)
           op == convert_unary[i.op]
<1>1. i.src \in Operand /\ i.dst \in Variable /\ i.op \in {"COMPLEMENT", "NEGATION"}
  BY TackyFields DEF TackyUnaryOp
<1>2. Lower(i) = <<Mov(s, d), UnaryASM(op, d)>>
  BY LowerForms DEF LowerUnary
<1>3. /\ i.op = "COMPLEMENT" => op = "NOT"
      /\ i.op = "NEGATION" => op = "NEG"
  BY DEF convert_unary
<1> HIDE DEF op
<1>4. /\ Len(Lower(i)) = 2 /\ j \in {1, 2}
      /\ Lower(i)[1] = Mov(s, d) /\ Lower(i)[2] = UnaryASM(op, d)
  BY <1>2, TupleElements
<1>5. CASE j = 1
  <2>1. Unwritten
    BY <1>5 DEF Stage
  <2>2. Result(i.dst, Val(i.src))
    BY <1>1, <1>4, <1>5, <2>1, MovToVariable
  <2>3. ASSUME settled' = settled PROVE Stage(i, 2)'
    <3>1. \A x : x = Val(i.src) => Holding(i.dst, x)'
      BY <2>2, <2>3, ResultHolding
    <3>2. (Val(i.src))' = Val(i.src)
      BY <2>3, ValKept
    <3>3. PICK x : x = Val(i.src)
      OBVIOUS
    <3>4. Holding(i.dst, x)' /\ x = (Val(i.src))'
      BY <3>1, <3>2, <3>3
    <3>5. Holding(i.dst, Val(i.src))'
      BY <3>4 DEF Holding
    <3> QED
      BY <3>5 DEF Stage, UnaryStage
  <2> QED
    BY <1>4, <1>5, <2>2, <2>3 DEF BlockOutcome, Result
<1>6. CASE j = 2
  <2> DEFINE x == Val(i.src)
  <2>1. Holding(i.dst, x)
    BY <1>6 DEF Stage, UnaryStage
  <2> HIDE DEF x
  <2>2. Result(i.dst, IF op = "NOT" THEN -x - 1 ELSE Wrap(-x))
    BY <1>1, <1>4, <1>6, <2>1, UnaryOnVariable
  <2>3. Meaning!Unary(i.op, x) = IF op = "NOT" THEN -x - 1 ELSE Wrap(-x)
    BY <1>1, <1>3, SameWords DEF Meaning!Unary
  <2>4. Result(i.dst, Meaning!Unary(i.op, x))
    BY <2>2, <2>3
  <2>5. Done(i)
    BY <2>4 DEF Done, x
  <2> QED
    BY <1>4, <1>6, <2>5 DEF BlockOutcome
<1> QED
  BY <1>4, <1>5, <1>6

LEMMA ArithmeticBlock ==
  ASSUME IInv, offset_map' = offset_map, NEW i \in TackyInstruction,
         i.kind = "Binary", i.op \in {"ADD", "SUBTRACT", "MULTIPLY"}, i.dst # i.src2,
         NEW j \in 1..Len(Lower(i)), Stage(i, j),
         NEW a, Ready(a), Effect(a), Places(a, Lower(i)[j])
  PROVE  BlockOutcome(i, j)
<1> DEFINE s  == convert_val(i.src1)
           t  == convert_val(i.src2)
           d  == convert_val(i.dst)
           op == convert_binary[i.op]
<1>1. i.src1 \in Operand /\ i.src2 \in Operand /\ i.dst \in Variable
  BY TackyFields
<1>2. Lower(i) = <<Mov(s, d), BinaryASM(op, t, d)>>
  BY LowerForms, BinaryForms DEF Computed
<1>3. /\ i.op = "ADD" => Mnemonic[op] = "addl"
      /\ i.op = "SUBTRACT" => Mnemonic[op] = "subl"
      /\ i.op = "MULTIPLY" => Mnemonic[op] = "imull"
  BY DEF convert_binary, Mnemonic
<1>4. i.op \notin RelationalOp /\ i.op \notin {"DIVIDE", "REMAINDER"}
  BY DEF RelationalOp
<1> HIDE DEF op
<1>5. /\ Len(Lower(i)) = 2 /\ j \in {1, 2}
      /\ Lower(i)[1] = Mov(s, d) /\ Lower(i)[2] = BinaryASM(op, t, d)
  BY <1>2, TupleElements
<1>6. CASE j = 1
  <2>1. Unwritten
    BY <1>6 DEF Stage
  <2>2. Result(i.dst, Val(i.src1))
    BY <1>1, <1>5, <1>6, <2>1, MovToVariable
  <2>3. ASSUME settled' = settled PROVE Stage(i, 2)'
    <3>1. \A x : x = Val(i.src1) => Holding(i.dst, x)'
      BY <2>2, <2>3, ResultHolding
    <3>2. (Val(i.src1))' = Val(i.src1)
      BY <2>3, ValKept
    <3>3. PICK x : x = Val(i.src1)
      OBVIOUS
    <3>4. Holding(i.dst, x)' /\ x = (Val(i.src1))'
      BY <3>1, <3>2, <3>3
    <3>5. Holding(i.dst, Val(i.src1))'
      BY <3>4 DEF Holding
    <3> QED
      BY <1>4, <3>5 DEF Stage, BinaryStage
  <2> QED
    BY <1>5, <1>6, <2>2, <2>3 DEF BlockOutcome, Result
<1>7. CASE j = 2
  <2> DEFINE x == Val(i.src1)
             y == Val(i.src2)
  <2>1. Holding(i.dst, x)
    BY <1>7 DEF Stage, BinaryStage
  <2> HIDE DEF x
  <2>2. Result(i.dst, Combined(Mnemonic[op], x, y))
    BY <1>1, <1>5, <1>7, <2>1, BinaryOnVariable
  <2> HIDE DEF y
  <2>3. Combined(Mnemonic[op], x, y) = Meaning!Binary(i.op, x, y)
    <3>1. /\ i.op = "ADD" => Meaning!Binary(i.op, x, y) = Wrap(x + y)
          /\ i.op = "SUBTRACT" => Meaning!Binary(i.op, x, y) = Wrap(x - y)
          /\ i.op = "MULTIPLY" => Meaning!Binary(i.op, x, y) = Wrap(x * y)
      BY SameWords DEF Meaning!Binary
    <3>2. /\ Combined("addl", x, y) = Wrap(x + y)
          /\ Combined("subl", x, y) = Wrap(x - y)
          /\ Combined("imull", x, y) = Wrap(x * y)
      BY DEF Combined
    <3> QED
      BY <1>3, <3>1, <3>2
  <2>4. Result(i.dst, Meaning!Binary(i.op, x, y))
    BY <2>2, <2>3
  <2>5. Done(i)
    BY <1>4, <2>4 DEF Done, x, y
  <2> QED
    BY <1>5, <1>7, <2>5 DEF BlockOutcome
<1> QED
  BY <1>5, <1>6, <1>7

LEMMA RelationalBlock ==
  ASSUME IInv, offset_map' = offset_map, NEW i \in TackyInstruction,
         i.kind = "Binary", i.op \in RelationalOp, Val(i.src1) \in Word, Val(i.src2) \in Word,
         NEW j \in 1..Len(Lower(i)), Stage(i, j),
         NEW a, Ready(a), Effect(a), Places(a, Lower(i)[j])
  PROVE  BlockOutcome(i, j)
<1> DEFINE s  == convert_val(i.src1)
           t  == convert_val(i.src2)
           d  == convert_val(i.dst)
           cc == convert_to_condition_code[i.op]
<1>1. i.src1 \in Operand /\ i.src2 \in Operand /\ i.dst \in Variable
  BY TackyFields
<1>2. Lower(i) = <<Cmp(t, s), Mov(Immediate(0), d), SetCC(cc, d)>>
  BY LowerForms, BinaryForms DEF Related
<1>3. i.op \notin {"ADD", "SUBTRACT", "MULTIPLY", "DIVIDE", "REMAINDER"}
  BY DEF RelationalOp
<1> HIDE DEF cc
<1>4. /\ Len(Lower(i)) = 3 /\ j \in {1, 2, 3}
      /\ Lower(i)[1] = Cmp(t, s)
      /\ Lower(i)[2] = Mov(Immediate(0), d)
      /\ Lower(i)[3] = SetCC(cc, d)
  BY <1>2, TupleElements
<1>5. CASE j = 1
  <2>1. Unwritten
    BY <1>5 DEF Stage
  <2>2. Calm /\ Onward /\ flags' = Cpu!Compared(Val(i.src1), Val(i.src2))
    BY <1>1, <1>4, <1>5, <2>1, CmpOfValues
  <2>3. ASSUME settled' = settled PROVE Stage(i, 2)'
    <3>1. Unwritten' /\ flags' = Cpu!Compared((Val(i.src1))', (Val(i.src2))')
      BY <2>1, <2>2, <2>3, UnwrittenKept, ValKept DEF Calm
    <3> QED
      BY <1>3, <3>1 DEF Stage, BinaryStage, RelationalStage, Cpu!Compared
  <2> QED
    BY <1>4, <1>5, <2>2, <2>3 DEF BlockOutcome
<1>6. CASE j = 2
  <2>1. Unwritten /\ flags = Cpu!Compared(Val(i.src1), Val(i.src2))
    BY <1>6 DEF Stage, BinaryStage, RelationalStage
  <2>2. Result(i.dst, 0) /\ flags' = flags
    BY <1>1, <1>4, <1>6, <2>1, MovOverVariable
  <2>3. ASSUME settled' = settled PROVE Stage(i, 3)'
    <3>1. Holding(i.dst, 0)' /\ flags' = Cpu!Compared((Val(i.src1))', (Val(i.src2))')
      BY <2>1, <2>2, <2>3, ResultHolding, ValKept
    <3> QED
      BY <1>3, <3>1 DEF Stage, BinaryStage, RelationalStage, Cpu!Compared
  <2> QED
    BY <1>4, <1>6, <2>2, <2>3 DEF BlockOutcome, Result
<1>7. CASE j = 3
  <2>1. Holding(i.dst, 0) /\ flags = Cpu!Compared(Val(i.src1), Val(i.src2))
    BY <1>7 DEF Stage, BinaryStage, RelationalStage
  <2>2. Result(i.dst, Bool(Cpu!Holds(cc)))
    BY <1>1, <1>4, <1>7, <2>1, SetOnZero
  <2>3. Bool(Cpu!Holds(cc)) = Meaning!Binary(i.op, Val(i.src1), Val(i.src2))
    <3>1. Val(i.src1) \in Int /\ Val(i.src2) \in Int
      BY DEF Word
    <3> QED
      BY <2>1, <3>1, DecidesRelation DEF cc
  <2>4. Done(i)
    BY <1>3, <2>2, <2>3 DEF Done
  <2> QED
    BY <1>4, <1>7, <2>4 DEF BlockOutcome
<1> QED
  BY <1>4, <1>5, <1>6, <1>7

LEMMA DivisionBlock ==
  ASSUME IInv, offset_map' = offset_map, NEW i \in TackyInstruction,
         i.kind = "Binary", i.op \in {"DIVIDE", "REMAINDER"},
         Val(i.src1) \in Word, Val(i.src2) \in Word,
         NEW j \in 1..Len(Lower(i)), Stage(i, j),
         NEW a, Ready(a), Effect(a), Places(a, Lower(i)[j])
  PROVE  BlockOutcome(i, j)
<1> DEFINE s  == convert_val(i.src1)
           t  == convert_val(i.src2)
           d  == convert_val(i.dst)
           r  == IF i.op = "DIVIDE" THEN "AX" ELSE "DX"
           x  == Val(i.src1)
           y  == Val(i.src2)
<1>1. i.src1 \in Operand /\ i.src2 \in Operand /\ i.dst \in Variable
  BY TackyFields
<1>2. Lower(i) = <<Mov(s, Register("AX")), Cdq, Idiv(t), Mov(Register(r), d)>>
  BY LowerForms, BinaryForms DEF Divided
<1>3. i.op \notin RelationalOp /\ i.op \notin {"ADD", "SUBTRACT", "MULTIPLY"}
  BY DEF RelationalOp
<1>4. r \in RegASM /\ {"AX", "DX"} \subseteq RegASM
  BY DEF RegASM
<1> HIDE DEF r
<1>5. /\ Len(Lower(i)) = 4 /\ j \in {1, 2, 3, 4}
      /\ Lower(i)[1] = Mov(s, Register("AX"))
      /\ Lower(i)[2] = Cdq
      /\ Lower(i)[3] = Idiv(t)
      /\ Lower(i)[4] = Mov(Register(r), d)
  BY <1>2
<1>6. Stage(i, j) => Unwritten /\ (j > 1 => DivisionStage(i, j))
  BY <1>5 DEF Stage, BinaryStage, DivisionStage
<1>7. ASSUME NEW k \in {2, 3, 4}, DivisionStage(i, k)' PROVE Stage(i, k)'
  BY <1>3, <1>7 DEF Stage, BinaryStage
<1>8. CASE j = 1
  <2>1. /\ reg'["AX"] = x /\ Onward
        /\ \A c \in Slots : mem'[c] = mem[c]
    BY <1>1, <1>5, <1>6, <1>8, MovToRegister
  <2>2. ASSUME settled' = settled PROVE DivisionStage(i, 2)'
    <3>1. Unwritten' /\ reg'["AX"] = (Val(i.src1))'
      BY <1>6, <2>1, <2>2, UnwrittenKept, ValKept
    <3> QED
      BY <3>1 DEF DivisionStage
  <2> QED
    BY <1>5, <1>7, <1>8, <2>1, <2>2 DEF BlockOutcome
<1>9. CASE j = 2
  <2>1. reg["AX"] = x
    BY <1>6, <1>9 DEF DivisionStage
  <2>2. a.kind = "Cdq"
    BY <1>5, <1>9, PlacesForms
  <2>3. Wrote(Register("DX"), Sign(reg["AX"])) /\ Onward
    BY <2>2 DEF Effect
  <2>4. /\ reg'["AX"] = x /\ reg'["DX"] = Sign(x)
        /\ \A c \in Slots : mem'[c] = mem[c]
    BY <1>4, <2>1, <2>3, WroteRegister
  <2>5. ASSUME settled' = settled PROVE DivisionStage(i, 3)'
    <3>1. Unwritten' /\ reg'["AX"] = (Val(i.src1))' /\ reg'["DX"] = Sign((Val(i.src1))')
      BY <1>6, <2>4, <2>5, UnwrittenKept, ValKept
    <3> QED
      BY <3>1 DEF DivisionStage, Sign
  <2> QED
    BY <1>5, <1>7, <1>9, <2>3, <2>5 DEF BlockOutcome
<1>10. CASE j = 3
  <2>1. Unwritten /\ reg["AX"] = x /\ reg["DX"] = Sign(x)
    BY <1>6, <1>10 DEF DivisionStage
  <2> HIDE DEF x
  <2>2. x = reg["DX"] * Modulus + (reg["AX"] % Modulus)
    <3>1. Sign(x) * Modulus + (x % Modulus) = x
      BY SignExtended DEF Sign, x
    <3> QED
      BY <2>1, <3>1
  <2>3. Divided32(y, x)
    BY <1>1, <1>5, <1>10, <2>1, <2>2, IdivByValue
  <2> HIDE DEF y
  <2>4. y = 0 \/ Quotient(x, y) \notin Word <=> y = 0 \/ (x = MinInt /\ y = -1)
    <3>1. x \in Word /\ y \in Word
      BY DEF x, y
    <3> QED
      BY <3>1, DivisionWords
  <2>5. CASE Overflows(i)
    <3>1. status' = "fault" /\ UNCHANGED ip /\ Leaves
      BY <2>1, <2>3, <2>4, <2>5, UnwrittenLeaves DEF Divided32, Overflows, x, y
    <3> QED
      BY <2>5, <3>1 DEF BlockOutcome, Faults
  <2>6. CASE ~Overflows(i)
    <3>1. ~(y = 0 \/ Quotient(x, y) \notin Word)
      BY <2>4, <2>6 DEF Overflows, x, y
    <3>2. /\ reg'["AX"] = Quotient(x, y) /\ reg'["DX"] = Remainder(x, y)
          /\ mem' = mem /\ Onward
      BY <2>3, <3>1 DEF Divided32
    <3>3. ASSUME settled' = settled PROVE DivisionStage(i, 4)'
      <4>1. (Val(i.src1))' = x /\ (Val(i.src2))' = y /\ Unwritten'
        BY <2>1, <3>2, <3>3, ValKept, UnwrittenKept DEF x, y
      <4>2. ~Overflows(i)'
        BY <2>6, <4>1 DEF Overflows, x, y
      <4>3. /\ reg'["AX"] = Quotient((Val(i.src1))', (Val(i.src2))')
            /\ reg'["DX"] = Remainder((Val(i.src1))', (Val(i.src2))')
        BY <3>2, <4>1
      <4> QED
        BY <4>1, <4>2, <4>3 DEF DivisionStage, Quotient, Remainder, Abs
    <3> QED
      BY <1>5, <1>7, <1>10, <3>2, <3>3 DEF BlockOutcome
  <2> QED
    BY <2>5, <2>6
<1>11. CASE j = 4
  <2>1. /\ Unwritten /\ ~Overflows(i)
        /\ reg["AX"] = Quotient(x, y) /\ reg["DX"] = Remainder(x, y)
    BY <1>6, <1>11 DEF DivisionStage
  <2> HIDE DEF x, y
  <2>2. Result(i.dst, reg[r])
    BY <1>1, <1>4, <1>5, <1>11, <2>1, MovFromRegister
  <2>3. /\ i.op = "DIVIDE" => Meaning!Binary(i.op, x, y) = Quotient(x, y)
        /\ i.op = "REMAINDER" => Meaning!Binary(i.op, x, y) = Remainder(x, y)
    BY SameWords DEF Meaning!Binary
  <2>4. reg[r] = Meaning!Binary(i.op, x, y)
    BY <2>1, <2>3 DEF r
  <2>5. Done(i)
    BY <2>1, <2>2, <2>4 DEF Done, x, y
  <2> QED
    BY <1>5, <1>11, <2>5 DEF BlockOutcome
<1> QED
  BY <1>5, <1>8, <1>9, <1>10, <1>11

(* The variables of an instruction have their slots. *)
Known(i) == \A v \in Reading(i) : v.tag = "var" => v.id \in DOMAIN offset_map

LEMMA BlockStep ==
  ASSUME IInv, status = "on", offset_map' = offset_map, \A s \in Slots : settled[s] \in Word,
         NEW i \in TackyInstruction, Known(i), i.kind = "Binary" => i.dst # i.src2,
         NEW j \in 1..Len(Lower(i)), Stage(i, j),
         NEW a, Ready(a), Effect(a), Places(a, Lower(i)[j])
  PROVE  BlockOutcome(i, j)
<1>1. \A v \in Reading(i) : Val(v) \in Word
  <2>1. Reading(i) \subseteq Operand
    BY ReadingForms
  <2> QED
    BY <2>1, ValWord DEF Known
<1>2. CASE i.kind = "Unary"
  <2>1. Val(i.src) \in Word
    BY <1>1, <1>2, ReadingForms
  <2> QED
    BY <1>2, <2>1, NotBlock, UnaryBlock
<1>3. CASE i.kind = "Binary"
  <2>1. Val(i.src1) \in Word /\ Val(i.src2) \in Word
    BY <1>1, <1>3, ReadingForms
  <2>2. i.op \in {"ADD", "SUBTRACT", "MULTIPLY"} \/ i.op \in {"DIVIDE", "REMAINDER"} \/ i.op \in RelationalOp
    BY <1>3, TackyFields DEF TackyBinaryOp
  <2> QED
    BY <1>3, <2>1, <2>2, ArithmeticBlock, DivisionBlock, RelationalBlock
<1>4. CASE i.kind \in {"JumpIfZero", "JumpIfNotZero"}
  <2>1. Val(i.cond) \in Word
    BY <1>1, <1>4, ReadingForms
  <2> QED
    BY <1>4, <2>1, JumpIfBlock
<1>5. CASE i.kind \in {"Jump", "Label"}
  BY <1>5, PlainJumpBlock
<1> QED
  BY <1>2, <1>3, <1>4, <1>5, ReturnBlock, CopyBlock DEF TackyInstruction

(* A line in the middle leaves the stage as it is. *)
LEMMA StageKept ==
  ASSUME offset_map' = offset_map, settled' = settled, Calm,
         NEW i, NEW j \in Nat \ {0}, Stage(i, j),
         flags' = flags \/ (i.kind = "Binary" /\ i.op \in {"ADD", "SUBTRACT", "MULTIPLY"})
  PROVE  Stage(i, j)'
<1>1. \A v : (Val(v))' = Val(v)
  BY ValKept
<1>2. Unwritten => Unwritten'
  BY UnwrittenKept DEF Calm
<1>3. \A d : Holding(d, 0) => Holding(d, 0)'
  BY ValKept DEF Holding, Calm
<1>4. \A d, v : Holding(d, Val(v)) => (Holding(d, Val(v)))'
  BY <1>1, ValKept DEF Holding, Calm
<1>5. /\ reg'["AX"] = reg["AX"] /\ reg'["DX"] = reg["DX"]
  BY DEF Calm
<1>6. Overflows(i) <=> Overflows(i)'
  BY <1>1 DEF Overflows
<1>7. CASE j = 1
  BY <1>2, <1>7 DEF Stage
<1>8. CASE j # 1
  <2>1. j > 1
    BY <1>8
  <2>2. i.kind = "Return" => Unwritten' /\ reg'["AX"] = (Val(i.src))'
    BY <1>1, <1>2, <1>5, <2>1 DEF Stage
  <2>3. i.kind = "Unary" => UnaryStage(i, j)'
    <3> SUFFICES ASSUME i.kind = "Unary" PROVE UnaryStage(i, j)'
      OBVIOUS
    <3>1. UnaryStage(i, j) /\ flags' = flags
      BY <2>1 DEF Stage
    <3>2. i.op = "NOT" => /\ flags' = Cpu!Compared((Val(i.src))', 0)
                          /\ j = 2 => Unwritten'
                          /\ j = 3 => Holding(i.dst, 0)'
      BY <1>1, <1>2, <1>3, <3>1 DEF UnaryStage
    <3>3. i.op # "NOT" => (Holding(i.dst, Val(i.src)))'
      BY <1>4, <3>1 DEF UnaryStage
    <3> QED
      BY <3>2, <3>3 DEF UnaryStage, Cpu!Compared
  <2>4. i.kind = "Binary" => BinaryStage(i, j)'
    <3> SUFFICES ASSUME i.kind = "Binary" PROVE BinaryStage(i, j)'
      OBVIOUS
    <3>1. BinaryStage(i, j) /\ (flags' = flags \/ i.op \in {"ADD", "SUBTRACT", "MULTIPLY"})
      BY <2>1 DEF Stage
    <3>2. i.op \in {"DIVIDE", "REMAINDER"} => DivisionStage(i, j)'
      <4> SUFFICES ASSUME DivisionStage(i, j) PROVE DivisionStage(i, j)'
        BY <3>1 DEF BinaryStage
      <4>1. /\ j < 4 => reg'["AX"] = (Val(i.src1))'
            /\ j = 3 => reg'["DX"] = Sign((Val(i.src1))')
            /\ j = 4 => /\ reg'["AX"] = Quotient((Val(i.src1))', (Val(i.src2))')
                        /\ reg'["DX"] = Remainder((Val(i.src1))', (Val(i.src2))')
        BY <1>1, <1>5 DEF DivisionStage
      <4>2. Unwritten' /\ (j = 4 => ~Overflows(i)')
        BY <1>2, <1>6 DEF DivisionStage
      <4> QED
        BY <4>1, <4>2 DEF DivisionStage, Sign, Quotient, Remainder, Abs
    <3>3. i.op \in RelationalOp => RelationalStage(i, j)'
      <4> SUFFICES ASSUME i.op \in RelationalOp PROVE RelationalStage(i, j)'
        OBVIOUS
      <4>1. RelationalStage(i, j) /\ flags' = flags
        BY <3>1 DEF BinaryStage, RelationalOp
      <4>2. /\ flags' = Cpu!Compared((Val(i.src1))', (Val(i.src2))')
            /\ j = 2 => Unwritten'
            /\ j = 3 => Holding(i.dst, 0)'
        BY <1>1, <1>2, <1>3, <4>1 DEF RelationalStage
      <4> QED
        BY <4>2 DEF RelationalStage, Cpu!Compared
    <3>4. i.op \in {"ADD", "SUBTRACT", "MULTIPLY"} => (Holding(i.dst, Val(i.src1)))'
      BY <1>4, <3>1 DEF BinaryStage
    <3> QED
      BY <3>2, <3>3, <3>4 DEF BinaryStage
  <2>5. i.kind \in {"JumpIfZero", "JumpIfNotZero"} =>
          Unwritten' /\ flags' = Cpu!Compared((Val(i.cond))', 0)
    BY <1>1, <1>2, <2>1 DEF Stage
  <2> QED
    BY <1>8, <2>2, <2>3, <2>4, <2>5 DEF Stage, Cpu!Compared
<1> QED
  BY <1>7, <1>8

-----------------------------------------------------------------------------
(* Where the processor is, and where it goes.                              *)

(* Which assembly a TACKY instruction makes. *)
Sound(b, i, j) ==
  /\ \A k \in 1..Len(b.ops) : b.ops[k].type = "REG" => b.ops[k].reg \in {"AX", "DX"}
  /\ b.kind = "Binary" => i.kind = "Binary" /\ i.op \in {"ADD", "SUBTRACT", "MULTIPLY"}
  /\ b.kind = "Label" => i.kind = "Label" /\ j = 1 /\ b.id = i.id

(* An operand that lowering makes for a TACKY operand. *)
Free(o) == o.type \in {"IMM", "PSEUDO"}

LEMMA SoundForms ==
  ASSUME NEW i, NEW j
  PROVE  /\ \A s, d : Free(s) /\ Free(d) =>
              /\ Sound(Mov(s, d), i, j) /\ Sound(Cmp(s, d), i, j)
              /\ i.kind = "Binary" /\ i.op \in {"ADD", "SUBTRACT", "MULTIPLY"} =>
                   \A op : Sound(BinaryASM(op, s, d), i, j)
         /\ \A s : Free(s) => \A r \in {"AX", "DX"} :
              Sound(Mov(s, Register(r)), i, j) /\ Sound(Mov(Register(r), s), i, j)
         /\ \A s : Free(s) =>
              /\ Sound(Idiv(s), i, j)
              /\ \A op : Sound(UnaryASM(op, s), i, j) /\ Sound(SetCC(op, s), i, j)
         /\ Sound(Cdq, i, j) /\ Sound(Ret, i, j)
         /\ \A l : Sound(Jmp(l), i, j) /\ \A cc : Sound(JmpCC(cc, l), i, j)
         /\ i.kind = "Label" => Sound(AsmLabel(i.id), i, 1)
<1>1. \A b, s, d : /\ b.ops = <<s, d>> /\ b.kind \in {"Mov", "Cmp"}
                   /\ Free(s) \/ (s.type = "REG" /\ s.reg \in {"AX", "DX"})
                   /\ Free(d) \/ (d.type = "REG" /\ d.reg \in {"AX", "DX"})
                   => Sound(b, i, j)
  BY DEF Sound, Free
<1>2. \A b, s, d : /\ b.ops = <<s, d>> /\ b.kind = "Binary"
                   /\ i.kind = "Binary" /\ i.op \in {"ADD", "SUBTRACT", "MULTIPLY"}
                   /\ Free(s) /\ Free(d)
                   => Sound(b, i, j)
  BY DEF Sound, Free
<1>3. \A b, s : /\ b.ops = <<s>> /\ b.kind \in {"Idiv", "Unary", "SetCC"}
                /\ Free(s)
                => Sound(b, i, j)
  BY DEF Sound, Free
<1>4. \A b : b.ops = <<>> /\ b.kind \in {"Cdq", "Ret", "Jmp", "JmpCC"} => Sound(b, i, j)
  BY DEF Sound, Free
<1>5. \A r : Register(r).type = "REG" /\ Register(r).reg = r
  BY DEF Register
<1>6. \A s, d : Free(s) /\ Free(d) =>
              /\ Sound(Mov(s, d), i, j) /\ Sound(Cmp(s, d), i, j)
              /\ i.kind = "Binary" /\ i.op \in {"ADD", "SUBTRACT", "MULTIPLY"} =>
                   \A op : Sound(BinaryASM(op, s, d), i, j)
  BY <1>1, <1>2 DEF Mov, Cmp, BinaryASM
<1>7. \A s : Free(s) => \A r \in {"AX", "DX"} :
              Sound(Mov(s, Register(r)), i, j) /\ Sound(Mov(Register(r), s), i, j)
  BY <1>1, <1>5 DEF Mov
<1>8. \A s : Free(s) =>
              /\ Sound(Idiv(s), i, j)
              /\ \A op : Sound(UnaryASM(op, s), i, j) /\ Sound(SetCC(op, s), i, j)
  BY <1>3 DEF Idiv, UnaryASM, SetCC
<1>9. /\ Sound(Cdq, i, j) /\ Sound(Ret, i, j)
      /\ \A l : Sound(Jmp(l), i, j) /\ \A cc : Sound(JmpCC(cc, l), i, j)
  BY <1>4 DEF Cdq, Ret, Jmp, JmpCC
<1>10. i.kind = "Label" => Sound(AsmLabel(i.id), i, 1)
  BY DEF Sound, AsmLabel
<1> QED
  BY <1>6, <1>7, <1>8, <1>9, <1>10

LEMMA LowerSound ==
  ASSUME NEW i \in TackyInstruction
  PROVE  \A j \in 1..Len(Lower(i)) : Sound(Lower(i)[j], i, j)
<1>1. \A v \in Operand : Free(convert_val(v))
  BY ConvertedNames, ConstantOperands DEF Free
<1>2. Free(Immediate(0)) /\ Variable \subseteq Operand
  BY ConstantOperands, VariableOperand DEF Free
<1>3. CASE i.kind \in {"Return", "Copy"}
  <2>1. Free(convert_val(i.src)) /\ i.src \in Operand
    BY <1>1, <1>3, TackyFields
  <2>2. i.kind = "Copy" => Free(convert_val(i.dst))
    BY <1>1, <1>2, TackyFields
  <2>3. CASE i.kind = "Return"
    <3>1. Lower(i) = <<Mov(convert_val(i.src), Register("AX")), Ret>>
      BY <2>3, LowerForms
    <3>2. /\ \A j : Sound(Mov(convert_val(i.src), Register("AX")), i, j)
          /\ \A j : Sound(Ret, i, j)
      BY <2>1, SoundForms
    <3>3. Lower(i)[1] = Mov(convert_val(i.src), Register("AX")) /\ Lower(i)[2] = Ret /\ Len(Lower(i)) = 2
      BY <3>1, TupleElements
    <3> QED
      BY <3>2, <3>3
  <2>4. CASE i.kind = "Copy"
    <3>1. Lower(i) = <<Mov(convert_val(i.src), convert_val(i.dst))>>
      BY <2>4, LowerForms
    <3>2. \A j : Sound(Mov(convert_val(i.src), convert_val(i.dst)), i, j)
      BY <2>1, <2>2, <2>4, SoundForms
    <3>3. Lower(i)[1] = Mov(convert_val(i.src), convert_val(i.dst)) /\ Len(Lower(i)) = 1
      BY <3>1, TupleElements
    <3> QED
      BY <3>2, <3>3
  <2> QED
    BY <1>3, <2>3, <2>4
<1>4. CASE i.kind = "Unary"
  <2> DEFINE s == convert_val(i.src)
             d == convert_val(i.dst)
  <2>1. Free(s) /\ Free(d)
    BY <1>1, <1>2, <1>4, TackyFields
  <2>2. Lower(i) = LowerUnary(i.op, s, d)
    BY <1>4, LowerForms
  <2> HIDE DEF s, d
  <2>3. CASE i.op = "NOT"
    <3>1. Lower(i) = <<Cmp(Immediate(0), s), Mov(Immediate(0), d), SetCC("E", d)>>
      BY <2>2, <2>3 DEF LowerUnary
    <3>2. \A j : /\ Sound(Cmp(Immediate(0), s), i, j) /\ Sound(Mov(Immediate(0), d), i, j)
                 /\ Sound(SetCC("E", d), i, j)
      BY <1>2, <2>1, SoundForms
    <3>3. /\ Lower(i)[1] = Cmp(Immediate(0), s) /\ Lower(i)[2] = Mov(Immediate(0), d)
          /\ Lower(i)[3] = SetCC("E", d) /\ Len(Lower(i)) = 3
      BY <3>1, TupleElements
    <3> QED
      BY <3>2, <3>3
  <2>4. CASE i.op # "NOT"
    <3>1. Lower(i) = <<Mov(s, d), UnaryASM(convert_unary[i.op], d)>>
      BY <2>2, <2>4 DEF LowerUnary
    <3>2. \A j : Sound(Mov(s, d), i, j) /\ Sound(UnaryASM(convert_unary[i.op], d), i, j)
      BY <2>1, SoundForms
    <3>3. /\ Lower(i)[1] = Mov(s, d) /\ Lower(i)[2] = UnaryASM(convert_unary[i.op], d)
          /\ Len(Lower(i)) = 2
      BY <3>1, TupleElements
    <3> QED
      BY <3>2, <3>3
  <2> QED
    BY <2>3, <2>4
<1>5. CASE i.kind = "Binary"
  <2> DEFINE s == convert_val(i.src1)
             t == convert_val(i.src2)
             d == convert_val(i.dst)
  <2>1. Free(s) /\ Free(t) /\ Free(d)
    BY <1>1, <1>2, <1>5, TackyFields
  <2>2. Lower(i) = LowerBinary(i.op, s, t, d)
    BY <1>5, LowerForms
  <2> HIDE DEF s, t, d
  <2>3. CASE i.op \in {"DIVIDE", "REMAINDER"}
    <3> DEFINE r == IF i.op = "DIVIDE" THEN "AX" ELSE "DX"
    <3>1. Lower(i) = <<Mov(s, Register("AX")), Cdq, Idiv(t), Mov(Register(r), d)>>
      BY <2>2, <2>3, BinaryForms DEF Divided
    <3>2. r \in {"AX", "DX"}
      OBVIOUS
    <3> HIDE DEF r
    <3>3. \A j : /\ Sound(Mov(s, Register("AX")), i, j) /\ Sound(Cdq, i, j)
                 /\ Sound(Idiv(t), i, j) /\ Sound(Mov(Register(r), d), i, j)
      BY <2>1, <3>2, SoundForms
    <3>4. /\ Lower(i)[1] = Mov(s, Register("AX")) /\ Lower(i)[2] = Cdq
          /\ Lower(i)[3] = Idiv(t) /\ Lower(i)[4] = Mov(Register(r), d) /\ Len(Lower(i)) = 4
      BY <3>1
    <3> QED
      BY <3>3, <3>4
  <2>4. CASE i.op \in RelationalOp
    <3> DEFINE cc == convert_to_condition_code[i.op]
    <3>1. Lower(i) = <<Cmp(t, s), Mov(Immediate(0), d), SetCC(cc, d)>>
      BY <2>2, <2>4, BinaryForms DEF Related
    <3> HIDE DEF cc
    <3>2. \A j : /\ Sound(Cmp(t, s), i, j) /\ Sound(Mov(Immediate(0), d), i, j)
                 /\ Sound(SetCC(cc, d), i, j)
      BY <1>2, <2>1, SoundForms
    <3>3. /\ Lower(i)[1] = Cmp(t, s) /\ Lower(i)[2] = Mov(Immediate(0), d)
          /\ Lower(i)[3] = SetCC(cc, d) /\ Len(Lower(i)) = 3
      BY <3>1, TupleElements
    <3> QED
      BY <3>2, <3>3
  <2>5. CASE i.op \in {"ADD", "SUBTRACT", "MULTIPLY"}
    <3> DEFINE op == convert_binary[i.op]
    <3>1. Lower(i) = <<Mov(s, d), BinaryASM(op, t, d)>>
      BY <2>2, <2>5, BinaryForms DEF Computed
    <3> HIDE DEF op
    <3>2. \A j : Sound(Mov(s, d), i, j) /\ Sound(BinaryASM(op, t, d), i, j)
      BY <1>5, <2>1, <2>5, SoundForms
    <3>3. Lower(i)[1] = Mov(s, d) /\ Lower(i)[2] = BinaryASM(op, t, d) /\ Len(Lower(i)) = 2
      BY <3>1, TupleElements
    <3> QED
      BY <3>2, <3>3
  <2> QED
    BY <1>5, <2>3, <2>4, <2>5, TackyFields DEF TackyBinaryOp
<1>6. CASE i.kind \in {"Jump", "Label"}
  <2>1. /\ Len(Lower(i)) = 1
        /\ i.kind = "Jump" => Lower(i)[1] = Jmp(i.target)
        /\ i.kind = "Label" => Lower(i)[1] = AsmLabel(i.id)
    BY <1>6, LowerForms, TupleElements
  <2>2. \A j : Sound(Jmp(i.target), i, j)
    BY SoundForms
  <2>3. i.kind = "Label" => Sound(AsmLabel(i.id), i, 1)
    BY SoundForms
  <2> QED
    BY <1>6, <2>1, <2>2, <2>3
<1>7. CASE i.kind \in {"JumpIfZero", "JumpIfNotZero"}
  <2> DEFINE c  == convert_val(i.cond)
             cc == IF i.kind = "JumpIfZero" THEN "E" ELSE "NE"
  <2>1. Lower(i) = <<Cmp(Immediate(0), c), JmpCC(cc, i.target)>> /\ Free(c)
    BY <1>1, <1>7, LowerForms, TackyFields
  <2> HIDE DEF c, cc
  <2>2. \A j : Sound(Cmp(Immediate(0), c), i, j) /\ Sound(JmpCC(cc, i.target), i, j)
    BY <1>2, <2>1, SoundForms
  <2>3. /\ Lower(i)[1] = Cmp(Immediate(0), c) /\ Lower(i)[2] = JmpCC(cc, i.target)
        /\ Len(Lower(i)) = 2
    BY <2>1, TupleElements
  <2> QED
    BY <2>2, <2>3
<1> QED
  BY <1>3, <1>4, <1>5, <1>6, <1>7 DEF TackyInstruction

(* Which lines are labels. *)
Unlabelled(lines) ==
  Len(lines) \in 1..3 /\ \A k \in 1..Len(lines) : lines[k].m # "label"

LEMMA UnlabelledLines ==
  \A x, y, z : /\ x.m # "label" => Unlabelled(<<x>>)
               /\ x.m # "label" /\ y.m # "label" => Unlabelled(<<x, y>>)
               /\ x.m # "label" /\ y.m # "label" /\ z.m # "label" => Unlabelled(<<x, y, z>>)
<1> TAKE x, y, z
<1>1. x.m # "label" => Unlabelled(<<x>>)
  BY TupleElements DEF Unlabelled
<1>2. x.m # "label" /\ y.m # "label" => Unlabelled(<<x, y>>)
  BY TupleElements DEF Unlabelled
<1>3. x.m # "label" /\ y.m # "label" /\ z.m # "label" => Unlabelled(<<x, y, z>>)
  <2> DEFINE lines == <<x, y, z>>
  <2>1. Len(lines) = 3 /\ lines[1] = x /\ lines[2] = y /\ lines[3] = z
    BY TupleElements
  <2> HIDE DEF lines
  <2>2. x.m # "label" /\ y.m # "label" /\ z.m # "label" => Unlabelled(lines)
    BY <2>1 DEF Unlabelled
  <2> QED
    BY <2>2 DEF lines
<1> QED
  BY <1>1, <1>2, <1>3

(* The lines that code_gen prints for two operands and for one.            *)
LEMMA TwoOperandUnlabelled ==
  ASSUME NEW s, NEW d, NEW op \in BinaryOpASM
  PROVE  /\ Unlabelled(PrintMov(s, d)) /\ Unlabelled(PrintCmp(s, d))
         /\ Unlabelled(PrintBinary(op, s, d))
<1> DEFINE a == Machine("movl", s, r10d)
           b == Machine("movl", r10d, d)
           c == Machine("movl", s, d)
           e == Machine("cmpl", r10d, d)
           f == Machine("movl", d, r11d)
           g == Machine("cmpl", s, r11d)
           h == Machine("cmpl", s, d)
           u == Machine("imull", s, r11d)
           v == Machine("movl", r11d, d)
           w == Machine(Mnemonic[op], r10d, d)
           x == Machine(Mnemonic[op], s, d)
<1>1. PrintMov(s, d) = <<a, b>> \/ PrintMov(s, d) = <<c>>
  BY DEF PrintMov
<1>2. PrintCmp(s, d) = <<a, e>> \/ PrintCmp(s, d) = <<f, g>> \/ PrintCmp(s, d) = <<h>>
  BY DEF PrintCmp
<1>3. \/ PrintBinary(op, s, d) = <<f, u, v>> \/ PrintBinary(op, s, d) = <<a, w>>
      \/ PrintBinary(op, s, d) = <<x>>
  BY DEF PrintBinary
<1>4. Mnemonic[op] # "label"
  BY DEF BinaryOpASM, Mnemonic
<1>5. /\ a.m # "label" /\ b.m # "label" /\ c.m # "label" /\ e.m # "label" /\ f.m # "label"
      /\ g.m # "label" /\ h.m # "label" /\ u.m # "label" /\ v.m # "label" /\ w.m # "label"
      /\ x.m # "label"
  BY <1>4, MachineFields
<1> HIDE DEF a, b, c, e, f, g, h, u, v, w, x
<1> QED
  BY <1>1, <1>2, <1>3, <1>5, UnlabelledLines

LEMMA OneOperandUnlabelled ==
  ASSUME NEW o, NEW op
  PROVE  Unlabelled(PrintUnary(op, o)) /\ Unlabelled(PrintIdiv(o))
<1> DEFINE a == Machine("movl", o, r10d)
           b == Machine("idivl", r10d, None)
           c == Machine("idivl", o, None)
           d == Machine("notl", None, o)
           e == Machine("negl", None, o)
<1>1. PrintUnary(op, o) = <<d>> \/ PrintUnary(op, o) = <<e>>
  BY DEF PrintUnary
<1>2. PrintIdiv(o) = <<a, b>> \/ PrintIdiv(o) = <<c>>
  BY DEF PrintIdiv
<1>3. /\ a.m # "label" /\ b.m # "label" /\ c.m # "label" /\ d.m # "label" /\ e.m # "label"
  BY MachineFields
<1> HIDE DEF a, b, c, d, e
<1> QED
  BY <1>1, <1>2, <1>3, UnlabelledLines

LEMMA LabelLines ==
  ASSUME NEW a \in Lowered
  PROVE  /\ Len(code_gen(a)) \in 1..3
         /\ a.kind # "Label" => \A k \in 1..Len(code_gen(a)) : code_gen(a)[k].m # "label"
         /\ a.kind = "Label" => /\ Len(code_gen(a)) = 1
                                /\ code_gen(a)[1].m = "label" /\ code_gen(a)[1].label = a.id
<1>1. a \in AsmInstruction
  BY DEF Lowered
<1>2. CASE a.kind = "Label"
  <2> DEFINE none == ""
             l == Branching("label", none, a.id)
  <2>1. code_gen(a) = <<l>>
    BY <1>2 DEF code_gen
  <2> HIDE DEF none
  <2>2. l.m = "label" /\ l.label = a.id
    BY MachineFields
  <2> HIDE DEF l
  <2> QED
    BY <1>2, <2>1, <2>2, TupleElements
<1>3. CASE a.kind \in {"Mov", "Cmp", "Idiv"}
  <2>1. /\ Unlabelled(PrintMov(a.ops[1], a.ops[2])) /\ Unlabelled(PrintCmp(a.ops[1], a.ops[2]))
        /\ Unlabelled(PrintIdiv(a.ops[1]))
    <3>1. "ADD" \in BinaryOpASM
      BY DEF BinaryOpASM
    <3> QED
      BY <3>1, TwoOperandUnlabelled, OneOperandUnlabelled
  <2>2. Unlabelled(code_gen(a))
    BY <1>3, <2>1 DEF code_gen
  <2> QED
    BY <1>3, <2>2 DEF Unlabelled
<1>4. CASE a.kind = "Binary"
  <2>1. a.op \in BinaryOpASM
    BY <1>1, <1>4, AsmFields
  <2>2. Unlabelled(PrintBinary(a.op, a.ops[1], a.ops[2]))
    BY <2>1, TwoOperandUnlabelled
  <2>3. Unlabelled(code_gen(a))
    BY <1>4, <2>2 DEF code_gen
  <2> QED
    BY <1>4, <2>3 DEF Unlabelled
<1>5. CASE a.kind = "Unary"
  <2>1. Unlabelled(PrintUnary(a.op, a.ops[1]))
    BY OneOperandUnlabelled
  <2>2. Unlabelled(code_gen(a))
    BY <1>5, <2>1 DEF code_gen
  <2> QED
    BY <1>5, <2>2 DEF Unlabelled
<1>6. CASE a.kind = "SetCC"
  <2> DEFINE l == Setting(a.cc, a.ops[1])
  <2>1. l.m # "label"
    BY MachineFields
  <2> HIDE DEF l
  <2>2. Unlabelled(<<l>>)
    BY <2>1, UnlabelledLines
  <2>3. Unlabelled(<<Setting(a.cc, a.ops[1])>>)
    BY <2>2 DEF l
  <2>4. Unlabelled(code_gen(a))
    BY <1>6, <2>3 DEF code_gen
  <2> QED
    BY <1>6, <2>4 DEF Unlabelled
<1>7. CASE a.kind = "Cdq"
  <2> DEFINE l == Machine("cdq", None, None)
  <2>1. l.m # "label"
    BY MachineFields
  <2> HIDE DEF l
  <2>2. Unlabelled(<<l>>)
    BY <2>1, UnlabelledLines
  <2>3. Unlabelled(<<Machine("cdq", None, None)>>)
    BY <2>2 DEF l
  <2>4. Unlabelled(code_gen(a))
    BY <1>7, <2>3 DEF code_gen
  <2> QED
    BY <1>7, <2>4 DEF Unlabelled
<1>8. CASE a.kind = "Ret"
  <2>1. /\ PrintRet[1].m # "label" /\ PrintRet[2].m # "label" /\ PrintRet[3].m # "label"
        /\ Len(PrintRet) = 3
    BY ExitLines, MachineFields
  <2>2. code_gen(a) = PrintRet
    BY <1>8 DEF code_gen
  <2>3. \A k \in 1..3 : k = 1 \/ k = 2 \/ k = 3
    OBVIOUS
  <2>4. Unlabelled(PrintRet)
    BY <2>1, <2>3 DEF Unlabelled
  <2> QED
    BY <1>8, <2>2, <2>4 DEF Unlabelled
<1>9. CASE a.kind = "Jmp"
  <2> DEFINE none == ""
             l == Branching("jmp", none, a.target)
  <2>1. code_gen(a) = <<l>>
    BY <1>9 DEF code_gen
  <2> HIDE DEF none
  <2>2. l.m # "label"
    BY MachineFields
  <2> HIDE DEF l
  <2>3. Unlabelled(code_gen(a))
    BY <2>1, <2>2, UnlabelledLines
  <2> QED
    BY <1>9, <2>3 DEF Unlabelled
<1>10. CASE a.kind = "JmpCC"
  <2> DEFINE l == Branching("j", a.cc, a.target)
  <2>1. code_gen(a) = <<l>>
    BY <1>10 DEF code_gen
  <2>2. l.m # "label"
    BY MachineFields
  <2> HIDE DEF l
  <2>3. Unlabelled(code_gen(a))
    BY <2>1, <2>2, UnlabelledLines
  <2> QED
    BY <1>10, <2>3 DEF Unlabelled
<1> QED
  BY <1>1, <1>2, <1>3, <1>4, <1>5, <1>6, <1>7, <1>8, <1>9, <1>10, AsmFields

LEMMA BlockAt ==
  ASSUME IInv, AsmInv, AsmShape, phase = "done", NEW first, Blocks(first),
         NEW t \in 1..Len(tacky), NEW j \in 1..Len(Lower(tacky[t]))
  PROVE  LET p == At(first, t, j)
             a == asm_instructions[p]
         IN  /\ p \in 1..Len(asm_instructions) /\ p \in Nat
             /\ a \in Lowered /\ Ready(a)
             /\ Places(a, Lower(tacky[t])[j]) /\ Sound(Lower(tacky[t])[j], tacky[t], j)
             /\ origin[p] = t
             /\ PrintedFor(code_gen(a), a)
             /\ Len(code_gen(a)) \in 1..3
<1> DEFINE p == At(first, t, j)
           a == asm_instructions[p]
           b == Lower(tacky[t])[j]
<1>1. Visited = Len(tacky)
  BY DEF Visited
<1>2. /\ p \in 1..Len(asm_instructions) /\ Places(a, b) /\ tacky[t] \in TackyInstruction
      /\ origin[p] = t
  BY <1>1, InBlock DEF At, Blocks
<1>3. asm_instructions \in Seq(Lowered) /\ Len(asm_instructions) \in Nat
  BY LenProperties DEF IInv
<1>4. p \in Nat /\ a \in Lowered
  BY <1>2, <1>3, ElementOfSeq
<1>5. Sound(b, tacky[t], j)
  BY <1>2, LowerSound
<1>6. \A k \in 1..Len(a.ops) : a.ops[k].type # "PSEUDO" /\ IsSlot(a.ops[k])
  BY <1>2 DEF IInv, PassedPlaced, Passed, SlotsNamed
<1>7. \A k \in 1..Len(a.ops) : a.ops[k] \in AsmOperand
  BY <1>4, AsmFields, ElementOfSeq DEF Lowered
<1>8. \A k \in 1..Len(a.ops) : Settled(a.ops[k])
  BY <1>6, <1>7 DEF Settled, Located
<1> HIDE DEF a, b, p
<1>9. \A k \in 1..Len(a.ops) : a.ops[k].type = "REG" => a.ops[k].reg \in {"AX", "DX"}
  <2> TAKE k \in 1..Len(a.ops)
  <2>1. k \in 1..Len(b.ops) /\ PlacedAs(a.ops[k], b.ops[k])
    BY <1>2 DEF Places
  <2>2. a.ops[k].type = "REG" => a.ops[k] = b.ops[k]
    BY <2>1 DEF PlacedAs, Stack
  <2> QED
    BY <1>5, <2>1, <2>2 DEF Sound
<1>10. Ready(a)
  BY <1>8, <1>9 DEF Ready, Ordinary
<1>11. PrintedFor(code_gen(a), a)
  BY <1>4, <1>8, GeneratedLines
<1>12. Len(code_gen(a)) \in 1..3
  BY <1>4, LabelLines
<1> QED
  BY <1>2, <1>4, <1>5, <1>10, <1>11, <1>12 DEF a, b, p

(* A compiled function, laid out in blocks and lines. *)
Laid(first, at) ==
  /\ IInv /\ AsmInv /\ OutInv /\ AsmShape /\ phase = "done"
  /\ Blocks(first) /\ Lines(at)

LEMMA FirstOf ==
  ASSUME NEW n, n \in 1..3 \/ n \in 1..4
  PROVE  1 \in 1..n
OBVIOUS

LEMMA LineNumber ==
  ASSUME NEW first, NEW at, Laid(first, at), NEW t, NEW j, NEW m, Place(first, t, j, m)
  PROVE  LET l == LineNo(first, at, t, j, m)
             a == asm_instructions[At(first, t, j)]
         IN  /\ l \in 3..Len(out) /\ l \in Nat
             /\ out[l] = code_gen(a)[m] /\ out_origin[l] = t
<1> DEFINE p == At(first, t, j)
           a == asm_instructions[p]
<1>1. /\ p \in 1..Len(asm_instructions) /\ p \in Nat /\ origin[p] = t
      /\ Len(code_gen(a)) \in 1..3 /\ m \in 1..Len(code_gen(a))
  BY BlockAt DEF Laid, Place
<1>2. Printed = Len(asm_instructions)
  BY DEF Laid, Printed
<1>3. /\ at[p] \in Nat /\ at[p] >= 3 /\ at[p + 1] = at[p] + Len(code_gen(a))
      /\ at[p + 1] <= Len(out) + 1
      /\ \A k \in 1..Len(code_gen(a)) :
           out[at[p] + k - 1] = code_gen(a)[k] /\ out_origin[at[p] + k - 1] = origin[p]
  <2>1. at[p] \in Nat \ {0}
    <3>1. Len(asm_instructions) \in Nat
      BY LenProperties DEF Laid, IInv
    <3>2. p \in 1..Printed + 1
      BY <1>1, <1>2, <3>1
    <3> QED
      BY <3>2 DEF Laid, Lines
  <2> HIDE DEF p
  <2> QED
    BY <1>1, <1>2, <2>1 DEF Laid, Lines
<1>4. Len(out) \in Nat
  BY LenProperties DEF Laid, IInv
<1> HIDE DEF p, a
<1>5. at[p] + m - 1 \in 3..Len(out) /\ at[p] + m - 1 \in Nat
  BY <1>1, <1>3, <1>4
<1>6. out[at[p] + m - 1] = code_gen(a)[m] /\ out_origin[at[p] + m - 1] = t
  BY <1>1, <1>3
<1> QED
  BY <1>5, <1>6 DEF LineNo, p, a

(* The line that comes after a line. *)
LEMMA LineAfter ==
  ASSUME NEW first, NEW at, Laid(first, at), NEW t, NEW j, NEW m, Place(first, t, j, m)
  PROVE  LET l == LineNo(first, at, t, j, m)
             a == asm_instructions[At(first, t, j)]
         IN  /\ m < Len(code_gen(a)) =>
                  Place(first, t, j, m + 1) /\ l + 1 = LineNo(first, at, t, j, m + 1)
             /\ m = Len(code_gen(a)) /\ j < Len(Lower(tacky[t])) =>
                  Place(first, t, j + 1, 1) /\ l + 1 = LineNo(first, at, t, j + 1, 1)
             /\ m = Len(code_gen(a)) /\ j = Len(Lower(tacky[t])) /\ t < Len(tacky) =>
                  Place(first, t + 1, 1, 1) /\ l + 1 = LineNo(first, at, t + 1, 1, 1)
<1> DEFINE p == At(first, t, j)
           n == Len(code_gen(asm_instructions[p]))
           b == Len(Lower(tacky[t]))
<1>1. p \in 1..Len(asm_instructions) /\ p \in Nat /\ n \in 1..3 /\ m \in 1..n
  BY BlockAt DEF Laid, Place
<1>2. Printed = Len(asm_instructions) /\ Visited = Len(tacky)
  BY DEF Laid, Printed, Visited
<1>3. at[p + 1] = at[p] + n /\ at[p] \in Nat
  <2>1. at[p] \in Nat \ {0}
    <3>1. Len(asm_instructions) \in Nat
      BY LenProperties DEF Laid, IInv
    <3>2. p \in 1..Printed + 1
      BY <1>1, <1>2, <3>1
    <3> QED
      BY <3>2 DEF Laid, Lines
  <2> HIDE DEF p
  <2> QED
    BY <1>1, <1>2, <2>1 DEF Laid, Lines
<1>4. /\ t \in 1..Len(tacky) /\ j \in 1..b /\ Len(tacky) \in Nat /\ b \in 1..4
      /\ tacky[t] \in TackyInstruction /\ t \in Nat /\ j \in Nat
  <2>1. t \in 1..Len(tacky) /\ j \in 1..b /\ tacky \in Seq(TackyInstruction) /\ Len(tacky) \in Nat
    BY LenProperties DEF Place, Laid, IInv, TypeOK
  <2>2. tacky[t] \in TackyInstruction
    BY <2>1, ElementOfSeq
  <2> QED
    BY <2>1, <2>2, LowerLength
<1>5. first[t] \in Nat /\ first[t + 1] = first[t] + b
  BY <1>2, <1>4 DEF Laid, Blocks
<1>6. p = first[t] + j - 1
  BY DEF At
<1> HIDE DEF p, n, b
<1>7. CASE m < n
  <2>1. m + 1 \in 1..n /\ at[p] + m - 1 + 1 = at[p] + (m + 1) - 1
    BY <1>1, <1>3, <1>7
  <2> QED
    BY <1>4, <1>7, <2>1 DEF Place, LineNo, p, n, b
<1>8. CASE m = n /\ j < b
  <2>1. j + 1 \in 1..b /\ At(first, t, j + 1) = p + 1
    BY <1>4, <1>5, <1>6, <1>8 DEF At
  <2>2. Len(code_gen(asm_instructions[p + 1])) \in 1..3
    BY <1>4, <2>1, BlockAt DEF Laid, b
  <2>3. at[p] + m - 1 + 1 = at[p + 1] + 1 - 1 /\ 1 \in 1..Len(code_gen(asm_instructions[p + 1]))
    <3>1. at[p] + m - 1 + 1 = at[p] + n + 1 - 1
      BY <1>1, <1>3, <1>8
    <3>2. 1 \in 1..Len(code_gen(asm_instructions[p + 1]))
      BY <2>2, FirstOf
    <3> QED
      BY <1>3, <3>1, <3>2
  <2>4. Place(first, t, j + 1, 1)
    BY <1>4, <2>1, <2>3 DEF Place, b
  <2> QED
    BY <1>8, <2>1, <2>3, <2>4 DEF LineNo, p, n, b
<1>9. CASE m = n /\ j = b /\ t < Len(tacky)
  <2>1. t + 1 \in 1..Len(tacky) /\ t + 1 \in Nat
    BY <1>4, <1>9
  <2>2. tacky[t + 1] \in TackyInstruction
    <3>1. tacky \in Seq(TackyInstruction)
      BY DEF Laid, IInv, TypeOK
    <3> QED
      BY <2>1, <3>1, ElementOfSeq
  <2>3. 1 \in 1..Len(Lower(tacky[t + 1]))
    BY ZenonT(30), <2>2, LowerLength, FirstOf
  <2>4. At(first, t + 1, 1) = p + 1
    BY <1>4, <1>5, <1>6, <1>9 DEF At
  <2>5. Len(code_gen(asm_instructions[p + 1])) \in 1..3
    BY <2>1, <2>3, <2>4, BlockAt DEF Laid
  <2>6. at[p] + m - 1 + 1 = at[p + 1] + 1 - 1 /\ 1 \in 1..Len(code_gen(asm_instructions[p + 1]))
    <3>1. at[p] + m - 1 + 1 = at[p] + n + 1 - 1
      BY <1>1, <1>3, <1>9
    <3>2. 1 \in 1..Len(code_gen(asm_instructions[p + 1]))
      BY <2>5, FirstOf
    <3> QED
      BY <1>3, <3>1, <3>2
  <2>7. Place(first, t + 1, 1, 1)
    BY <2>1, <2>3, <2>4, <2>6 DEF Place
  <2> QED
    BY <1>9, <2>4, <2>6, <2>7 DEF LineNo, p, n, b
<1> QED
  BY <1>7, <1>8, <1>9 DEF p, n, b

(* Where a line is. *)
LEMMA LinePlace ==
  ASSUME NEW first, NEW at, Laid(first, at), NEW k \in 3..Len(out)
  PROVE  \E t, j, m : Place(first, t, j, m) /\ k = LineNo(first, at, t, j, m)
<1>1. Printed = Len(asm_instructions) /\ Visited = Len(tacky)
  BY DEF Laid, Printed, Visited
<1>2. PICK p \in 1..Len(asm_instructions) : \E m \in 1..Len(code_gen(asm_instructions[p])) : k = at[p] + m - 1
  BY <1>1 DEF Laid, Lines
<1>3. PICK m \in 1..Len(code_gen(asm_instructions[p])) : k = at[p] + m - 1
  BY <1>2
<1>4. PICK t \in 1..Len(tacky) : \E j \in 1..Len(Lower(tacky[t])) : p = first[t] + j - 1
  BY <1>1, <1>2 DEF Laid, Blocks
<1>5. PICK j \in 1..Len(Lower(tacky[t])) : p = At(first, t, j)
  BY <1>4 DEF At
<1> QED
  BY <1>3, <1>5 DEF Place, LineNo

LEMMA CalledCode ==
  ASSUME IInv, tacky \in Called
  PROVE  /\ tacky \in Seq(TackyInstruction) /\ Len(tacky) \in Nat \ {0} /\ DOMAIN tacky = 1..Len(tacky)
         /\ \A t \in 1..Len(tacky) : tacky[t] \in TackyInstruction
         /\ tacky[Len(tacky)].kind = "Return"
         /\ \A t \in 1..Len(tacky) :
              /\ Jumps(tacky[t]) => \E u \in 1..Len(tacky) : tacky[u] = Label(tacky[t].target)
              /\ tacky[t].kind = "Label" => \A u \in 1..Len(tacky) : tacky[u] = tacky[t] => u = t
              /\ tacky[t].kind = "Binary" => tacky[t].dst # tacky[t].src2
<1>1. WellFormed(tacky)
  BY CalledAssumption
<1>2. tacky \in Seq(TackyInstruction) /\ Len(tacky) \in Nat /\ DOMAIN tacky = 1..Len(tacky)
  BY LenProperties DEF IInv, TypeOK
<1>3. \A t \in 1..Len(tacky) : tacky[t] \in TackyInstruction
  BY <1>2, ElementOfSeq
<1>4. Len(tacky) # 0
  BY <1>1, <1>2, EmptySeq DEF WellFormed
<1> QED
  BY <1>1, <1>2, <1>3, <1>4 DEF WellFormed

LEMMA LabelRecord ==
  ASSUME NEW i \in TackyInstruction, i.kind = "Label"
  PROVE  i = Label(i.id)
BY DEF TackyInstruction, Label

(* A jump goes to the only line with its label, which is the line of the   *)
(* only TACKY label of that name.                                          *)
LEMMA LabelLine ==
  ASSUME NEW first, NEW at, Laid(first, at), tacky \in Called,
         NEW l, NEW u \in 1..Len(tacky), tacky[u] = Label(l)
  PROVE  /\ Place(first, u, 1, 1)
         /\ Cpu!LineOf(l) = LineNo(first, at, u, 1, 1)
         /\ Meaning!Find(l) = u
<1> DEFINE k0 == LineNo(first, at, u, 1, 1)
           a0 == asm_instructions[At(first, u, 1)]
<1>1. tacky[u].kind = "Label" /\ tacky[u].id = l /\ tacky[u] \in TackyInstruction
  BY CalledCode DEF Laid, Label
<1>2. Lower(tacky[u]) = <<AsmLabel(l)>>
  BY <1>1, LowerForms
<1>3. Len(Lower(tacky[u])) = 1 /\ Lower(tacky[u])[1] = AsmLabel(l) /\ 1 \in 1..Len(Lower(tacky[u]))
  BY <1>2, TupleElements
<1>4. a0 \in Lowered /\ Places(a0, AsmLabel(l))
  BY <1>3, BlockAt DEF Laid
<1>5. a0.kind = "Label" /\ a0.id = l
  BY <1>4, PlacesForms
<1>6. Len(code_gen(a0)) = 1 /\ code_gen(a0)[1].m = "label" /\ code_gen(a0)[1].label = l
  BY <1>4, <1>5, LabelLines
<1>7. Place(first, u, 1, 1)
  BY <1>3, <1>6 DEF Place
<1>8. k0 \in 3..Len(out) /\ out[k0].m = "label" /\ out[k0].label = l
  BY <1>6, <1>7, LineNumber
<1>9. out \in Seq(EncodableLine) /\ Len(out) \in Nat /\ DOMAIN out = 1..Len(out)
  BY LenProperties DEF Laid, IInv
<1> HIDE DEF k0, a0
<1>10. ASSUME NEW k \in DOMAIN out, out[k].m = "label", out[k].label = l
       PROVE  k = k0
  <2>1. k # 1 /\ k # 2
    <3>1. out[1].m = "pushq" /\ out[2].m = "movq"
      BY EntryLines DEF Laid, OutInv
    <3> QED
      BY <1>10, <3>1
  <2>2. k \in 3..Len(out)
    BY <1>9, <2>1
  <2>3. PICK t, j, m : Place(first, t, j, m) /\ k = LineNo(first, at, t, j, m)
    BY <2>2, LinePlace
  <2> DEFINE a == asm_instructions[At(first, t, j)]
             b == Lower(tacky[t])[j]
  <2>4. /\ t \in 1..Len(tacky) /\ j \in 1..Len(Lower(tacky[t])) /\ m \in 1..Len(code_gen(a))
        /\ out[k] = code_gen(a)[m]
    BY <2>3, LineNumber DEF Place
  <2>5. a \in Lowered /\ Places(a, b) /\ Sound(b, tacky[t], j)
    BY <2>4, BlockAt DEF Laid
  <2> HIDE DEF a, b
  <2>6. a.kind = "Label"
    BY <1>10, <2>4, <2>5, LabelLines
  <2>7. Len(code_gen(a)) = 1 /\ m = 1 /\ a.id = l
    <3>1. Len(code_gen(a)) = 1 /\ code_gen(a)[1].label = a.id
      BY <2>5, <2>6, LabelLines
    <3>2. m = 1
      BY <2>4, <3>1
    <3> QED
      BY <1>10, <2>4, <3>1, <3>2
  <2>8. b.kind = "Label" /\ b.id = l
    BY <2>5, <2>6, <2>7 DEF Places
  <2>9. tacky[t].kind = "Label" /\ tacky[t].id = l /\ j = 1
    BY <2>5, <2>8 DEF Sound
  <2>10. tacky[t] = tacky[u]
    BY <2>4, <2>9, CalledCode, LabelRecord DEF Laid
  <2>11. t = u
    BY <1>1, <2>4, <2>10, CalledCode DEF Laid
  <2> QED
    BY <2>3, <2>7, <2>9, <2>11 DEF k0
<1>11. Cpu!LineOf(l) = k0
  <2>1. k0 \in DOMAIN out
    BY <1>8, <1>9
  <2> HIDE DEF k0
  <2> QED
    BY <1>8, <1>10, <2>1 DEF Cpu!LineOf
<1>12. Meaning!Find(l) = u
  <2>1. \A i \in DOMAIN tacky : tacky[i] = Label(l) => i = u
    BY <1>1, CalledCode DEF Laid
  <2>2. u \in DOMAIN tacky /\ \A x : Meaning!Label(x) = Label(x)
    BY CalledCode DEF Laid, Label, Meaning!Label
  <2> QED
    BY <2>1, <2>2 DEF Meaning!Find
<1> QED
  BY <1>7, <1>11, <1>12 DEF k0

(* After an instruction that does not return there is another one.         *)
LEMMA NotTheLast ==
  ASSUME IInv, tacky \in Called, NEW t \in 1..Len(tacky), tacky[t].kind # "Return"
  PROVE  t < Len(tacky) /\ t + 1 \in 1..Len(tacky)
BY CalledCode

-----------------------------------------------------------------------------
(* What the processor does at a line of a TACKY instruction.               *)

Executing(first, at) ==
  /\ Laid(first, at) /\ tacky \in Called /\ MachineInv /\ NamesKnown
  /\ status = "on"
  /\ \A s \in Slots : settled[s] \in Word
  /\ Run

LEMMA LineExecuted ==
  ASSUME NEW first, NEW at, Executing(first, at), NEW t, NEW j, NEW m, AtLine(first, at, t, j, m)
  PROVE  LET a == asm_instructions[At(first, t, j)]
         IN  /\ m < Len(code_gen(a)) => Midway(a, m)
             /\ m = Len(code_gen(a)) => BlockOutcome(tacky[t], j)
<1> DEFINE a == asm_instructions[At(first, t, j)]
           i == tacky[t]
<1>1. /\ t \in 1..Len(tacky) /\ j \in 1..Len(Lower(i)) /\ m \in 1..Len(code_gen(a))
      /\ Stage(i, j) /\ Scratch(a, m)
  BY DEF AtLine, Place
<1>2. ip \in 3..Len(out) /\ ip > 2 /\ out[ip] = code_gen(a)[m]
  BY LineNumber DEF AtLine, Executing
<1>3. /\ a \in Lowered /\ Ready(a) /\ Places(a, Lower(i)[j]) /\ PrintedFor(code_gen(a), a)
  BY <1>1, BlockAt DEF Executing, Laid
<1>4. Cpu!Execute /\ offset_map' = offset_map
  BY DEF Executing, Run, code_vars
<1> HIDE DEF a, i
<1>5. a.kind # "Ret" => Framed
  <2> SUFFICES ASSUME a.kind # "Ret" PROVE Framed
    OBVIOUS
  <2>1. Inner(out[ip])
    BY <1>1, <1>2, <1>3 DEF PrintedFor
  <2>2. out[ip].m # "ret"
    BY <2>1 DEF Inner
  <2>3. reg["BP"] = 0
    BY <1>2, <2>2 DEF Executing, MachineInv, StackShape
  <2> QED
    BY <2>3 DEF Executing, MachineInv, Framed
<1>6. LineOutcome(a, m)
  <2>1. IInv /\ MachineInv /\ \A k \in 1..Len(a.ops) : Ordinary(a.ops[k])
    BY <1>3 DEF Executing, Laid, Ready
  <2> QED
    BY <1>1, <1>2, <1>3, <1>4, <1>5, <2>1, AsmOutcome
<1>7. ASSUME Effect(a)
      PROVE  BlockOutcome(i, j)
  <2>1. i \in TackyInstruction /\ (i.kind = "Binary" => i.dst # i.src2)
    BY <1>1, CalledCode DEF i, Executing, Laid
  <2>2. Known(i)
    <3>1. DOMAIN offset_map = Meaning!VariablesOf(tacky)
      BY EveryVariable DEF Executing, Laid
    <3>2. \A v \in Reading(i) : v.tag = "var" => v.id \in Meaning!VariablesOf(tacky)
      BY <1>1, CalledCode, VariablesNamed DEF i, Executing, Laid
    <3> QED
      BY <3>1, <3>2 DEF Known
  <2>3. IInv /\ status = "on" /\ \A s \in Slots : settled[s] \in Word
    BY DEF Executing, Laid
  <2> QED
    BY <1>1, <1>3, <1>4, <1>7, <2>1, <2>2, <2>3, BlockStep
<1> QED
  BY <1>6, <1>7 DEF LineOutcome, a, i

(* Where the ghost of the settled stack changes.                           *)
LEMMA SettledWhen ==
  ASSUME Run
  PROVE  /\ ip' # 1 /\ out_origin[ip'] = out_origin[ip' - 1] => settled' = settled
         /\ out_origin[ip'] # out_origin[ip' - 1] => settled' = mem'
         /\ settled' = mem' \/ settled' = settled
<1>1. out_origin' = out_origin
  BY DEF Run, code_vars
<1>2. Boundary(ip') <=> ip' = 1 \/ out_origin[ip'] # out_origin[ip' - 1]
  BY DEF Boundary
<1> QED
  BY <1>1, <1>2 DEF Run

(* The next line is one of the same TACKY instruction,                     *)
Stays(first, at, t) ==
  /\ status' = "on" /\ settled' = settled /\ out_origin[ip'] = t
  /\ \E j, m : AtLine(first, at, t, j, m)'

(* or the first one of the TACKY instruction u.                            *)
Arrives(first, at, u) ==
  /\ status' = "on" /\ out_origin[ip'] = u
  /\ \A s \in Slots : settled'[s] = mem'[s]
  /\ AtLine(first, at, u, 1, 1)'

LEMMA FirstStage ==
  \A i, a : /\ Unwritten => Stage(i, 1)
            /\ Scratch(a, 1)
BY DEF Stage, Scratch

LEMMA FirstStageNext ==
  \A i, a : /\ Unwritten' => Stage(i, 1)'
            /\ Scratch(a, 1)'
BY DEF Stage, Scratch

(* What depends on the code only does not change while it runs.            *)
LEMMA PlaceKept ==
  ASSUME UNCHANGED code_vars, NEW first, NEW at, NEW t, NEW j, NEW m
  PROVE  /\ Place(first, t, j, m) => Place(first, t, j, m)'
         /\ AtLine(first, at, t, j, m)' <=>
              /\ Place(first, t, j, m)' /\ ip' = LineNo(first, at, t, j, m)
              /\ Stage(tacky[t], j)' /\ Scratch(asm_instructions[At(first, t, j)], m)'
BY DEF code_vars, Place, AtLine, LineNo, At

LEMMA StageNext ==
  ASSUME UNCHANGED tacky, NEW t, NEW j, NEW i, i = tacky[t], Stage(i, j)'
  PROVE  Stage(tacky[t], j)'
OBVIOUS

LEMMA StepInside ==
  ASSUME NEW first, NEW at, Executing(first, at), NEW t, NEW j, NEW m, AtLine(first, at, t, j, m),
         m < Len(code_gen(asm_instructions[At(first, t, j)]))
  PROVE  Stays(first, at, t)
<1> DEFINE a == asm_instructions[At(first, t, j)]
           i == tacky[t]
<1>1. Place(first, t, j, m) /\ ip = LineNo(first, at, t, j, m) /\ Stage(i, j) /\ Laid(first, at)
  BY DEF AtLine, Executing
<1>2. Midway(a, m)
  BY LineExecuted
<1>3. Place(first, t, j, m + 1) /\ ip + 1 = LineNo(first, at, t, j, m + 1)
  BY <1>1, LineAfter
<1>4. out_origin[ip] = t /\ out_origin[ip + 1] = t /\ ip \in Nat /\ ip + 1 \in 3..Len(out)
  BY <1>1, <1>3, LineNumber
<1>5. ip' = ip + 1 /\ status' = "on" /\ Calm
  BY <1>2 DEF Midway, Onward
<1>6. settled' = settled
  <2>1. ip' # 1 /\ ip' - 1 = ip
    BY <1>4, <1>5
  <2> QED
    BY <1>4, <1>5, <2>1, SettledWhen DEF Executing
<1>7. UNCHANGED code_vars /\ offset_map' = offset_map
  BY DEF Executing, Run, code_vars
<1>8. Places(a, Lower(i)[j]) /\ Sound(Lower(i)[j], i, j) /\ j \in 1..Len(Lower(i))
  BY <1>1, BlockAt DEF Laid, Place
<1> HIDE DEF a, i
<1>9. flags' = flags \/ (i.kind = "Binary" /\ i.op \in {"ADD", "SUBTRACT", "MULTIPLY"})
  <2>1. a.kind # "Binary" => flags' = flags
    BY <1>2 DEF Midway
  <2>2. a.kind = "Binary" => i.kind = "Binary" /\ i.op \in {"ADD", "SUBTRACT", "MULTIPLY"}
    BY <1>8 DEF Places, Sound
  <2> QED
    BY <2>1, <2>2
<1>10. Stage(i, j)'
  <2>1. j \in Nat \ {0}
    BY <1>8
  <2>2. PICK c : c = i
    OBVIOUS
  <2>3. Stage(c, j)'
    BY <1>1, <1>5, <1>6, <1>7, <1>9, <2>1, <2>2, StageKept
  <2>4. tacky' = tacky
    BY <1>7 DEF code_vars
  <2> QED
    BY <2>2, <2>3, <2>4, StageNext DEF i
<1>11. AtLine(first, at, t, j, m + 1)'
  BY <1>2, <1>3, <1>5, <1>7, <1>10, PlaceKept DEF Midway, a, i
<1> QED
  BY <1>4, <1>5, <1>6, <1>11 DEF Stays

LEMMA ArriveAt ==
  ASSUME NEW first, NEW at, Executing(first, at), NEW u, Place(first, u, 1, 1),
         ip' = LineNo(first, at, u, 1, 1), status' = "on",
         \A s \in Slots : settled'[s] = mem'[s]
  PROVE  Arrives(first, at, u)
<1>1. UNCHANGED code_vars /\ Slots' = Slots
  BY DEF Executing, Run, code_vars, Slots
<1>2. out_origin[ip'] = u
  BY LineNumber DEF Executing
<1>3. Unwritten'
  BY <1>1 DEF Unwritten
<1>4. Stage(tacky[u], 1)' /\ Scratch(asm_instructions[At(first, u, 1)], 1)'
  BY <1>3, FirstStageNext
<1> QED
  BY <1>1, <1>2, <1>4, PlaceKept DEF Arrives

(* Past the last line of a TACKY instruction begins the next one,          *)
LEMMA ArriveNext ==
  ASSUME NEW first, NEW at, Executing(first, at), NEW t, NEW j, NEW m, AtLine(first, at, t, j, m),
         m = Len(code_gen(asm_instructions[At(first, t, j)])), j = Len(Lower(tacky[t])),
         tacky[t].kind # "Return", Onward
  PROVE  Arrives(first, at, t + 1)
<1>1. Place(first, t, j, m) /\ ip = LineNo(first, at, t, j, m) /\ Laid(first, at) /\ t \in 1..Len(tacky)
  BY DEF AtLine, Executing, Place
<1>2. t < Len(tacky) /\ t \in Nat
  BY <1>1, NotTheLast DEF Executing, Laid
<1>3. Place(first, t + 1, 1, 1) /\ ip + 1 = LineNo(first, at, t + 1, 1, 1)
  BY <1>1, <1>2, LineAfter
<1>4. out_origin[ip] = t /\ out_origin[ip + 1] = t + 1 /\ ip \in Nat
  BY <1>1, <1>3, LineNumber
<1>5. ip' = ip + 1 /\ status' = "on" /\ ip' - 1 = ip
  BY <1>4 DEF Onward
<1>6. settled' = mem'
  BY <1>2, <1>4, <1>5, SettledWhen DEF Executing
<1> QED
  BY <1>3, <1>5, <1>6, ArriveAt

(* and a jump leads to the beginning of one.                               *)
LEMMA ArriveLabel ==
  ASSUME NEW first, NEW at, Executing(first, at), NEW t \in 1..Len(tacky), Jumps(tacky[t]),
         ip' = Cpu!LineOf(tacky[t].target), status' = "on", Leaves
  PROVE  Arrives(first, at, Meaning!Find(tacky[t].target))
<1>1. Laid(first, at) /\ tacky \in Called /\ Run
  BY DEF Executing
<1>2. PICK u \in 1..Len(tacky) : tacky[u] = Label(tacky[t].target)
  BY <1>1, CalledCode DEF Laid
<1>3. /\ Place(first, u, 1, 1) /\ ip' = LineNo(first, at, u, 1, 1)
      /\ Meaning!Find(tacky[t].target) = u
  BY <1>1, <1>2, LabelLine
<1>4. \A s \in Slots : settled'[s] = mem'[s]
  <2>1. settled' = mem' \/ settled' = settled
    BY <1>1, SettledWhen
  <2> QED
    BY <2>1 DEF Leaves
<1> QED
  BY <1>3, <1>4, ArriveAt

(* A TACKY instruction has taken effect. *)
Completes(first, at, t) ==
  /\ Done(tacky[t])
  /\ tacky[t].kind \in {"Unary", "Binary", "Copy", "Label"} => Arrives(first, at, t + 1)
  /\ tacky[t].kind = "Jump" => Arrives(first, at, Meaning!Find(tacky[t].target))
  /\ tacky[t].kind \in {"JumpIfZero", "JumpIfNotZero"} =>
       Arrives(first, at, IF (Val(tacky[t].cond) = 0) = (tacky[t].kind = "JumpIfZero")
                          THEN Meaning!Find(tacky[t].target) ELSE t + 1)

LEMMA StepAcross ==
  ASSUME NEW first, NEW at, Executing(first, at), NEW t, NEW j, NEW m, AtLine(first, at, t, j, m),
         m = Len(code_gen(asm_instructions[At(first, t, j)]))
  PROVE  \/ Stays(first, at, t) \/ Faults(tacky[t]) \/ Completes(first, at, t)
<1> DEFINE i == tacky[t]
<1>1. /\ Place(first, t, j, m) /\ ip = LineNo(first, at, t, j, m) /\ Laid(first, at)
      /\ t \in 1..Len(tacky) /\ j \in 1..Len(Lower(i))
  BY DEF AtLine, Executing, Place
<1>2. BlockOutcome(i, j)
  BY LineExecuted
<1>3. ASSUME j < Len(Lower(i)), Onward, settled' = settled => Stage(i, j + 1)'
      PROVE  Stays(first, at, t)
  <2>1. Place(first, t, j + 1, 1) /\ ip + 1 = LineNo(first, at, t, j + 1, 1)
    BY <1>1, <1>3, LineAfter
  <2>2. out_origin[ip] = t /\ out_origin[ip + 1] = t /\ ip \in Nat /\ ip + 1 \in 3..Len(out)
    BY <1>1, <2>1, LineNumber
  <2>3. ip' = ip + 1 /\ status' = "on" /\ ip' # 1 /\ ip' - 1 = ip
    BY <1>3, <2>2 DEF Onward
  <2>4. settled' = settled
    BY <2>2, <2>3, SettledWhen DEF Executing
  <2>5. Stage(tacky[t], j + 1)'
    BY <1>3, <2>4
  <2>6. UNCHANGED code_vars /\ Scratch(asm_instructions[At(first, t, j + 1)], 1)'
    BY FirstStageNext DEF Executing, Run
  <2>7. AtLine(first, at, t, j + 1, 1)'
    BY <2>1, <2>3, <2>5, <2>6, PlaceKept
  <2> QED
    BY <2>2, <2>3, <2>4, <2>7 DEF Stays
<1>4. ASSUME j = Len(Lower(i)), Done(i)
      PROVE  Completes(first, at, t)
  <2>1. i.kind \in {"Unary", "Binary", "Copy", "Label"} => Arrives(first, at, t + 1)
    <3> SUFFICES ASSUME i.kind \in {"Unary", "Binary", "Copy", "Label"} PROVE Arrives(first, at, t + 1)
      OBVIOUS
    <3>1. Onward
      BY <1>4 DEF Done, Result
    <3> QED
      BY <1>1, <1>4, <3>1, ArriveNext
  <2>2. i.kind = "Jump" => Arrives(first, at, Meaning!Find(i.target))
    BY <1>1, <1>4, ArriveLabel DEF Done, Jumps
  <2>3. i.kind \in {"JumpIfZero", "JumpIfNotZero"} =>
          Arrives(first, at, IF (Val(i.cond) = 0) = (i.kind = "JumpIfZero")
                             THEN Meaning!Find(i.target) ELSE t + 1)
    <3> SUFFICES ASSUME i.kind \in {"JumpIfZero", "JumpIfNotZero"}
                 PROVE  Arrives(first, at, IF (Val(i.cond) = 0) = (i.kind = "JumpIfZero")
                                           THEN Meaning!Find(i.target) ELSE t + 1)
      OBVIOUS
    <3>1. /\ ip' = IF (Val(i.cond) = 0) = (i.kind = "JumpIfZero") THEN Cpu!LineOf(i.target) ELSE ip + 1
          /\ status' = "on" /\ Leaves
      BY <1>4 DEF Done
    <3>2. CASE (Val(i.cond) = 0) = (i.kind = "JumpIfZero")
      BY <1>1, <3>1, <3>2, ArriveLabel DEF Jumps
    <3>3. CASE ~((Val(i.cond) = 0) = (i.kind = "JumpIfZero"))
      <4>1. Onward
        BY <3>1, <3>3 DEF Onward
      <4>2. Arrives(first, at, t + 1)
        BY <1>1, <1>4, <4>1, ArriveNext
      <4> QED
        BY <3>3, <4>2
    <3> QED
      BY <3>2, <3>3
  <2> QED
    BY <1>4, <2>1, <2>2, <2>3 DEF Completes
<1> QED
  BY <1>2, <1>3, <1>4 DEF BlockOutcome

LEMMA StepAt ==
  ASSUME NEW first, NEW at, Executing(first, at), NEW t, NEW j, NEW m, AtLine(first, at, t, j, m)
  PROVE  \/ Stays(first, at, t) \/ Faults(tacky[t]) \/ Completes(first, at, t)
<1>1. /\ m \in 1..Len(code_gen(asm_instructions[At(first, t, j)]))
      /\ Len(code_gen(asm_instructions[At(first, t, j)])) \in 1..3
  BY BlockAt DEF AtLine, Place, Executing, Laid
<1>2. \/ m < Len(code_gen(asm_instructions[At(first, t, j)]))
      \/ m = Len(code_gen(asm_instructions[At(first, t, j)]))
  BY <1>1
<1> QED
  BY <1>2, StepInside, StepAcross

-----------------------------------------------------------------------------
(* The values stay words.                                                  *)

LEMMA UnaryWord ==
  ASSUME NEW op \in TackyUnaryOp, NEW x \in Word
  PROVE  Meaning!Unary(op, x) \in Word
<1>1. -x - 1 \in Word
  BY ComplementWord
<1>2. Meaning!Wrap(-x) \in Word
  <2>1. -x \in Int
    BY WordBounds
  <2> QED
    BY <2>1, WrapWord, SameWords
<1>3. \A b : Meaning!Bool(b) \in Word
  BY SmallWords, SameWords
<1> QED
  BY <1>1, <1>2, <1>3 DEF TackyUnaryOp, Meaning!Unary

LEMMA BinaryWord ==
  ASSUME NEW op \in TackyBinaryOp, NEW x \in Word, NEW y \in Word,
         op \in {"DIVIDE", "REMAINDER"} => ~(y = 0 \/ (x = MinInt /\ y = -1))
  PROVE  Meaning!Binary(op, x, y) \in Word
<1>1. CASE op \in RelationalOp
  <2>1. \A b : Meaning!Bool(b) \in Word
    BY SmallWords, SameWords
  <2> QED
    BY <1>1, <2>1 DEF RelationalOp, Meaning!Binary
<1>2. CASE op \in {"ADD", "SUBTRACT", "MULTIPLY"}
  <2>1. x \in Int /\ y \in Int
    BY WordBounds
  <2>2. x + y \in Int /\ x - y \in Int /\ x * y \in Int
    BY <2>1
  <2>3. Meaning!Wrap(x + y) \in Word /\ Meaning!Wrap(x - y) \in Word /\ Meaning!Wrap(x * y) \in Word
    BY <2>2, WrapWord, SameWords
  <2>4. /\ op = "ADD" => Meaning!Binary(op, x, y) = Meaning!Wrap(x + y)
        /\ op = "SUBTRACT" => Meaning!Binary(op, x, y) = Meaning!Wrap(x - y)
        /\ op = "MULTIPLY" => Meaning!Binary(op, x, y) = Meaning!Wrap(x * y)
    BY DEF Meaning!Binary
  <2> QED
    BY <1>2, <2>3, <2>4
<1>3. CASE op \in {"DIVIDE", "REMAINDER"}
  <2>1. Quotient(x, y) \in Word /\ Remainder(x, y) \in Word
    BY <1>3, DivisionWords
  <2> QED
    BY <1>3, <2>1, SameWords DEF Meaning!Binary
<1> QED
  BY <1>1, <1>2, <1>3 DEF TackyBinaryOp

LEMMA ValueWords ==
  ASSUME NEW first, NEW at, Executing(first, at), NEW t \in 1..Len(tacky)
  PROVE  /\ tacky[t] \in TackyInstruction /\ Known(tacky[t])
         /\ \A v \in Reading(tacky[t]) : Val(v) \in Word
<1>1. tacky[t] \in TackyInstruction
  BY CalledCode DEF Executing, Laid
<1>2. Known(tacky[t])
  <2>1. DOMAIN offset_map = Meaning!VariablesOf(tacky)
    BY EveryVariable DEF Executing, Laid
  <2>2. \A v \in Reading(tacky[t]) : v.tag = "var" => v.id \in Meaning!VariablesOf(tacky)
    BY CalledCode, VariablesNamed DEF Executing, Laid
  <2> QED
    BY <2>1, <2>2 DEF Known
<1>3. Reading(tacky[t]) \subseteq Operand
  BY <1>1, ReadingForms
<1>4. \A v \in Reading(tacky[t]) : Val(v) \in Word
  BY <1>2, <1>3, ValWord DEF Known, Executing
<1> QED
  BY <1>1, <1>2, <1>4

LEMMA CompletedWords ==
  ASSUME NEW first, NEW at, Executing(first, at), NEW t \in 1..Len(tacky), Completes(first, at, t)
  PROVE  \A s \in Slots : mem'[s] \in Word
<1> DEFINE i == tacky[t]
<1>1. i \in TackyInstruction /\ (\A v \in Reading(i) : Val(v) \in Word) /\ Done(i)
  BY ValueWords DEF Completes
<1>2. \A s \in Slots : settled[s] \in Word
  BY DEF Executing
<1> HIDE DEF i, Slots
<1>3. ASSUME NEW d, NEW x \in Word, Result(d, x)
      PROVE  \A s \in Slots : mem'[s] \in Word
  BY <1>2, <1>3 DEF Result
<1>4. CASE i.kind = "Unary"
  <2>1. Meaning!Unary(i.op, Val(i.src)) \in Word
    BY <1>1, <1>4, ReadingForms, TackyFields, UnaryWord
  <2> QED
    BY <1>1, <1>3, <1>4, <2>1 DEF Done
<1>5. CASE i.kind = "Binary"
  <2>1. Val(i.src1) \in Word /\ Val(i.src2) \in Word /\ i.op \in TackyBinaryOp
    BY <1>1, <1>5, ReadingForms, TackyFields
  <2>2. i.op \in {"DIVIDE", "REMAINDER"} => ~Overflows(i)
    BY <1>1, <1>5 DEF Done
  <2>3. Meaning!Binary(i.op, Val(i.src1), Val(i.src2)) \in Word
    BY <2>1, <2>2, BinaryWord DEF Overflows
  <2> QED
    BY <1>1, <1>3, <1>5, <2>3 DEF Done
<1>6. CASE i.kind = "Copy"
  <2>1. Val(i.src) \in Word
    BY <1>1, <1>6, ReadingForms
  <2> QED
    BY <1>1, <1>3, <1>6, <2>1 DEF Done
<1>7. CASE i.kind \in {"Return", "Label", "Jump", "JumpIfZero", "JumpIfNotZero"}
  BY <1>1, <1>2, <1>7 DEF Done, Leaves
<1> QED
  BY <1>1, <1>4, <1>5, <1>6, <1>7 DEF TackyInstruction

-----------------------------------------------------------------------------
(* The invariant is inductive. *)

LEMMA LaidKept ==
  ASSUME UNCHANGED code_vars, AsmShape, OutShape, NamesKnown
  PROVE  /\ AsmShape' /\ OutShape' /\ NamesKnown' /\ Slots' = Slots
         /\ \A first : Blocks(first)' <=> Blocks(first)
         /\ \A at : Lines(at)' <=> Lines(at)
<1>1. UNCHANGED <<phase, tacky, next, asm_instructions, offset_map, out, origin, out_origin>>
  BY DEF code_vars
<1>2. \A first : Blocks(first)' <=> Blocks(first)
  BY <1>1 DEF Blocks, Places, PlacedAs, Visited
<1>3. \A at : Lines(at)' <=> Lines(at)
  BY <1>1 DEF Lines, Printed
<1>4. AsmShape'
  BY <1>1, <1>2 DEF AsmShape
<1>5. OutShape'
  BY <1>1, <1>3 DEF OutShape
<1>6. NamesKnown' /\ Slots' = Slots
  BY <1>1 DEF NamesKnown, Meaning!VariablesOf, Slots
<1> QED
  BY <1>2, <1>3, <1>4, <1>5, <1>6

LEMMA ProgressAt ==
  ASSUME NEW first, NEW at, Executing(first, at), OutShape, NEW u, NEW k, NEW l,
         AtLine(first, at, u, k, l)', \A s \in Slots : settled'[s] \in Word
  PROVE  Progress'
<1>1. UNCHANGED code_vars
  BY DEF Executing, Run
<1>2. Slots' = Slots /\ Blocks(first)' /\ Lines(at)'
  BY <1>1, LaidKept DEF Executing, Laid
<1>3. Place(first, u, k, l)' /\ ip' = LineNo(first, at, u, k, l)'
  BY DEF AtLine
<1>4. Place(first, u, k, l) /\ ip' = LineNo(first, at, u, k, l)
  BY <1>1, <1>3 DEF code_vars, Place, LineNo, At
<1>5. ip' \in 3..Len(out)
  BY <1>4, LineNumber DEF Executing
<1>6. ip' >= 3 /\ ~(ip' < 3)
  BY <1>5
<1>7. \A s \in Slots' : settled'[s] \in Word'
  BY <1>2 DEF Word, MinInt, MaxInt
<1> QED
  BY <1>2, <1>6, <1>7 DEF Progress

(* At a line of the function.                                              *)
LEMMA ProgressInside ==
  ASSUME BackIInv, MeaningInv, Run, ip >= 3,
         NEW first, NEW at, Blocks(first), Lines(at), NEW t, NEW j, NEW m, AtLine(first, at, t, j, m)
  PROVE  /\ Executing(first, at) /\ t \in 1..Len(tacky) /\ out_origin[ip] = t
         /\ \/ Stays(first, at, t) \/ Faults(tacky[t]) \/ Completes(first, at, t)
         /\ Progress'
<1>1. status = "on" /\ phase = "done" /\ tacky \in Called
  BY Fetched DEF Run, BackIInv, MachineInv
<1>2. Executing(first, at) /\ UNCHANGED code_vars
  BY <1>1 DEF Executing, Laid, BackIInv, MeaningInv, Progress, Run
<1>3. t \in 1..Len(tacky) /\ out_origin[ip] = t
  BY <1>2, LineNumber DEF AtLine, Place, Executing
<1>4. \/ Stays(first, at, t) \/ Faults(tacky[t]) \/ Completes(first, at, t)
  BY <1>2, StepAt
<1>5. OutShape /\ \A s \in Slots : settled[s] \in Word
  BY <1>2 DEF MeaningInv, Executing
<1>6. ASSUME NEW u, NEW k, NEW l, AtLine(first, at, u, k, l)', \A s \in Slots : settled'[s] \in Word
      PROVE  Progress'
  BY <1>2, <1>5, <1>6, ProgressAt
<1>7. Stays(first, at, t) => Progress'
  BY <1>5, <1>6 DEF Stays
<1>8. Faults(tacky[t]) => Progress'
  BY DEF Faults, Progress
<1>9. ASSUME Completes(first, at, t)
      PROVE  Progress'
  <2>1. \A s \in Slots : mem'[s] \in Word
    BY <1>2, <1>3, <1>9, CompletedWords
  <2>2. CASE tacky[t].kind = "Return"
    BY <1>9, <2>2 DEF Completes, Done, Progress
  <2>3. CASE tacky[t].kind # "Return"
    <3>1. \E u : Arrives(first, at, u)
      <4>1. tacky[t] \in TackyInstruction
        BY <1>2, <1>3, ValueWords
      <4> QED
        BY <1>9, <2>3, <4>1 DEF Completes, TackyInstruction
    <3>2. PICK u : Arrives(first, at, u)
      BY <3>1
    <3>3. AtLine(first, at, u, 1, 1)' /\ \A s \in Slots : settled'[s] \in Word
      BY <2>1, <3>2 DEF Arrives
    <3> QED
      BY <1>6, <3>3
  <2> QED
    BY <2>2, <2>3
<1> QED
  BY <1>2, <1>3, <1>4, <1>7, <1>8, <1>9

(* The two lines of the entry. *)
LEMMA ProgressEntry ==
  ASSUME BackIInv, MeaningInv, Run, ~(ip >= 3)
  PROVE  /\ Progress' /\ status' = "on" /\ status = "on"
         /\ out_origin[ip] = 1 /\ out_origin[ip'] = 1
         /\ \A s \in Slots : settled'[s] = settled[s]
<1>1. /\ status = "on" /\ phase = "done" /\ tacky \in Called /\ Cpu!Execute /\ UNCHANGED code_vars
      /\ ip \in 1..Len(out) /\ DOMAIN reg = RegASM \cup {"SP", "BP"}
      /\ DOMAIN mem = Slots \cup {0, Cpu!CallSite} /\ StackShape
  BY Fetched DEF Run, BackIInv, MachineInv
<1>2. Len(out) \in Nat
  BY LenProperties DEF BackIInv, IInv
<1>3. (ip = 1 \/ ip = 2) /\ ip < 3
  BY <1>1, <1>2
<1>4. out_origin[1] = 1 /\ out_origin[2] = 1
  BY <1>1 DEF MeaningInv, OutShape
<1>5. Unwritten /\ \A s \in Slots : settled[s] \in Word
  BY <1>1, <1>3 DEF MeaningInv, Progress
<1>6. PICK first, at : Blocks(first) /\ Lines(at)
  BY <1>1 DEF MeaningInv, AsmShape, OutShape
<1>7. Executing(first, at)
  BY <1>1, <1>5, <1>6 DEF Executing, Laid, BackIInv, MeaningInv
<1>8. Slots' = Slots
  BY <1>1 DEF code_vars, Slots
<1>9. CASE ip = 1
  <2>1. out[ip] = Machine("pushq", rbp, None) /\ reg["SP"] = Cpu!CallSite
    BY <1>1, <1>9 DEF BackIInv, OutInv, StackShape
  <2>2. ip' = 2 /\ status' = "on"
    BY <1>1, <1>9, <2>1, PushStep
  <2>3. Cpu!Push
    BY <1>1, <2>1, EntryLines, Fetched
  <2>4. \A s \in Slots : s # reg["SP"] - 8
    BY <2>1, SameConstants, SlotsBelow DEF BackIInv
  <2>5. \A s \in Slots : mem'[s] = mem[s]
    <3> HIDE DEF Slots
    <3> QED
      BY <1>1, <2>3, <2>4 DEF Cpu!Push
  <2>6. settled' = settled
    <3>1. ip' # 1 /\ ip' - 1 = 1
      BY <2>2
    <3> QED
      BY <1>4, <2>2, <3>1, SettledWhen
  <2>7. ip' < 3 /\ ~(ip' >= 3)
    BY <2>2
  <2>8. Unwritten'
    BY <1>5, <1>8, <2>5, <2>6 DEF Unwritten
  <2>9. Progress'
    <3>1. \A s \in Slots' : settled'[s] \in Word'
      BY <1>5, <1>8, <2>6 DEF Word, MinInt, MaxInt
    <3> QED
      BY <2>7, <2>8, <3>1 DEF Progress
  <2> QED
    BY <1>1, <1>4, <1>9, <2>2, <2>6, <2>9
<1>10. CASE ip = 2
  <2>1. out[ip] = Machine("movq", rsp, rbp)
    BY <1>1, <1>10 DEF BackIInv, OutInv
  <2>2. ip' = 3 /\ status' = "on" /\ mem' = mem
    BY <1>1, <1>10, <2>1, EntryLines, MoveStep
  <2>3. Place(first, 1, 1, 1) /\ LineNo(first, at, 1, 1, 1) = 3
    <3>1. /\ tacky \in Seq(TackyInstruction) /\ Len(tacky) \in Nat \ {0} /\ 1 \in 1..Len(tacky)
          /\ tacky[1] \in TackyInstruction
      BY <1>1, CalledCode DEF BackIInv
    <3>2. 1 \in 1..Len(Lower(tacky[1]))
      BY <3>1, LowerLength, FirstOf
    <3>3. Len(code_gen(asm_instructions[At(first, 1, 1)])) \in 1..3
      BY <1>7, <3>1, <3>2, BlockAt DEF Executing, Laid
    <3>4. 1 \in 1..Len(code_gen(asm_instructions[At(first, 1, 1)]))
      BY <3>3, FirstOf
    <3>5. first[1] = 1 /\ at[1] = 3
      BY <1>6 DEF Blocks, Lines
    <3> QED
      BY <3>1, <3>2, <3>4, <3>5 DEF Place, LineNo, At
  <2>4. out_origin[3] = 1
    BY <1>7, <2>3, LineNumber DEF Executing
  <2>5. settled' = settled
    <3>1. ip' # 1 /\ ip' - 1 = 2
      BY <2>2
    <3> QED
      BY <1>4, <2>2, <2>4, <3>1, SettledWhen
  <2>6. \A s \in Slots : settled'[s] = mem'[s] /\ settled'[s] \in Word
    BY <1>5, <2>2, <2>5 DEF Unwritten
  <2>7. Arrives(first, at, 1)
    BY <1>7, <2>2, <2>3, <2>6, ArriveAt
  <2>8. Progress'
    BY <1>7, <2>6, <2>7, ProgressAt DEF Arrives, MeaningInv
  <2> QED
    BY <1>1, <1>4, <1>10, <2>2, <2>4, <2>5, <2>8
<1> QED
  BY <1>3, <1>9, <1>10

(* The call of the function.                                               *)
LEMMA LoadProgress ==
  ASSUME BackIInv, MeaningInv, Load
  PROVE  /\ Progress' /\ status = "off" /\ status' = "on" /\ ip' = 1
         /\ out_origin[1] = 1
         /\ \A s \in Slots : settled'[s] \in Word
<1>1. /\ phase = "done" /\ tacky \in Called /\ settled' = mem' /\ UNCHANGED code_vars
      /\ Cpu!Enter(GarbageInRegs, [Slots -> Garbage])
  BY DEF Load
<1>2. status = "off" /\ status' = "on" /\ ip' = 1
  BY <1>1 DEF Cpu!Enter, BackIInv, MachineInv
<1>3. PICK s \in [Slots -> Garbage] :
        mem' = [a \in Slots \cup {0, Cpu!CallSite} |->
                  CASE a = Cpu!CallSite -> Cpu!ReturnAddress
                    [] a = Cpu!CallSite - 8 -> 0 [] OTHER -> s[a]]
  BY <1>1, SameConstants DEF Cpu!Enter
<1>4. \A a \in Slots : a # Cpu!CallSite /\ a # Cpu!CallSite - 8
  BY SlotsBelow, SameConstants DEF BackIInv
<1>5. Slots' = Slots
  BY <1>1 DEF code_vars, Slots
<1> HIDE DEF Slots
<1>6. \A a \in Slots : settled'[a] \in Word
  BY <1>1, <1>3, <1>4, GarbageAssumption
<1>7. Unwritten'
  BY <1>1 DEF Unwritten
<1>8. ip' < 3 /\ ~(ip' >= 3)
  BY <1>2
<1>9. \A a \in Slots' : settled'[a] \in Word'
  BY <1>5, <1>6 DEF Word, MinInt, MaxInt
<1>10. Progress'
  BY <1>7, <1>8, <1>9 DEF Progress
<1>11. out_origin[1] = 1
  BY <1>1 DEF MeaningInv, OutShape
<1> QED
  BY <1>2, <1>6, <1>10, <1>11

(* While the function is compiled nothing runs.                            *)
LEMMA CompileIdle ==
  ASSUME BackIInv, Compile
  PROVE  status = "off" /\ status' = "off"
<1>1. Next /\ UNCHANGED cpu_vars
  BY DEF Compile
<1>2. phase # "done"
  <2>1. CASE VisitInstruction /\ ~BeginAllocation
    BY <2>1, VisitLowers DEF BackIInv
  <2>2. CASE BeginAllocation
    BY <2>2 DEF BeginAllocation
  <2>3. CASE AllocatePseudo \/ PrintInstruction \/ EndPrinting
    BY <2>3 DEF AllocatePseudo, ReplaceNewPseudo, ReplaceKnownPseudo, KeepOperand, AtOperand,
       NextInstruction, BeginPrinting, PrintInstruction, EndPrinting
  <2> QED
    BY <1>1, <2>1, <2>2, <2>3 DEF Next
<1> QED
  BY <1>1, <1>2 DEF BackIInv, MachineInv, cpu_vars

LEMMA MeaningInit == BackInit => MeaningInv
<1> SUFFICES ASSUME BackInit PROVE MeaningInv
  OBVIOUS
<1>1. Init /\ status = "off" /\ phase = "visit" /\ DOMAIN offset_map = {}
  BY DEF BackInit, Init, CodeGenStart, MachineStart, Cpu!PowerOff
<1>2. AsmShape
  BY <1>1, ShapeInit
<1> QED
  BY <1>1, <1>2 DEF MeaningInv, OutShape, NamesKnown, Progress

LEMMA IdleProgress ==
  ASSUME UNCHANGED code_vars, UNCHANGED cpu_vars, settled' = settled,
         AsmShape, OutShape, NamesKnown, Progress
  PROVE  Progress'
<1>1. /\ UNCHANGED <<ip, reg, mem, flags, status>> /\ offset_map' = offset_map
      /\ tacky' = tacky /\ asm_instructions' = asm_instructions
  BY DEF code_vars, cpu_vars
<1> SUFFICES ASSUME status = "on" PROVE Progress'
  BY <1>1 DEF Progress
<1>2. Slots' = Slots /\ Calm
  BY <1>1 DEF Slots, Calm
<1>3. Unwritten => Unwritten'
  BY <1>1, UnwrittenKept DEF Unwritten
<1>4. \A s \in Slots' : settled'[s] \in Word'
  BY <1>2 DEF Progress, Word, MinInt, MaxInt
<1>5. ASSUME ip >= 3
      PROVE  \E first, at : /\ Blocks(first)' /\ Lines(at)'
                            /\ \E t, j, m : AtLine(first, at, t, j, m)'
  <2>1. PICK first, at : /\ Blocks(first) /\ Lines(at)
                         /\ \E t, j, m : AtLine(first, at, t, j, m)
    BY <1>5 DEF Progress
  <2>2. PICK t, j, m : AtLine(first, at, t, j, m)
    BY <2>1
  <2>3. PICK i, a : i = tacky[t] /\ a = asm_instructions[At(first, t, j)]
    OBVIOUS
  <2>4. Place(first, t, j, m) /\ ip = LineNo(first, at, t, j, m) /\ Stage(i, j) /\ Scratch(a, m)
    BY <2>2, <2>3 DEF AtLine
  <2>5. Stage(i, j)'
    <3>1. j \in Nat \ {0}
      BY <2>4 DEF Place
    <3> QED
      BY <1>1, <1>2, <2>4, <3>1, StageKept
  <2>6. Scratch(a, m)'
    BY <1>1, <2>4 DEF Scratch, Content, Combined, IsImmediate, Wrap, MinInt, Modulus
  <2>7. Stage(tacky[t], j)' /\ Scratch(asm_instructions[At(first, t, j)], m)'
    <3>1. At(first, t, j)' = At(first, t, j)
      BY DEF At
    <3> QED
      BY <1>1, <2>3, <2>5, <2>6, <3>1
  <2>8. AtLine(first, at, t, j, m)'
    BY <1>1, <2>4, <2>7, PlaceKept
  <2> QED
    BY <2>1, <2>8, LaidKept
<1> QED
  BY <1>1, <1>3, <1>4, <1>5 DEF Progress

LEMMA MeaningNext == BackIInv /\ MeaningInv /\ [BackNext]_vars => MeaningInv'
<1> SUFFICES ASSUME BackIInv, MeaningInv, [BackNext]_vars PROVE MeaningInv'
  OBVIOUS
<1>1. ASSUME UNCHANGED code_vars, Progress'
      PROVE  MeaningInv'
  BY <1>1, LaidKept DEF MeaningInv
<1>2. CASE Compile
  <2>1. Next /\ status' # "on"
    BY <1>2, CompileIdle DEF Compile
  <2>2. AsmShape' /\ OutShape' /\ NamesKnown'
    BY <2>1, ShapeStep, LinesStep, NamesStep DEF BackIInv, MeaningInv
  <2> QED
    BY <2>1, <2>2 DEF MeaningInv, Progress
<1>3. CASE Load
  BY <1>1, <1>3, LoadProgress DEF Load
<1>4. CASE Run
  <2>1. CASE ip >= 3
    <3>1. status = "on"
      BY <1>4, Fetched DEF Run
    <3>2. PICK first, at : /\ Blocks(first) /\ Lines(at)
                           /\ \E t, j, m : AtLine(first, at, t, j, m)
      BY <2>1, <3>1 DEF MeaningInv, Progress
    <3>3. PICK t, j, m : AtLine(first, at, t, j, m)
      BY <3>2
    <3> QED
      BY <1>1, <1>4, <2>1, <3>2, <3>3, ProgressInside DEF Run
  <2>2. CASE ~(ip >= 3)
    BY <1>1, <1>4, <2>2, ProgressEntry DEF Run
  <2> QED
    BY <2>1, <2>2
<1>5. CASE UNCHANGED vars
  <2>1. UNCHANGED code_vars /\ UNCHANGED cpu_vars /\ settled' = settled
    BY <1>5 DEF vars
  <2>2. Progress'
    BY <2>1, IdleProgress DEF MeaningInv
  <2> QED
    BY <1>1, <2>1, <2>2
<1> QED
  BY <1>2, <1>3, <1>4, <1>5 DEF BackNext

(* The inductive invariant holds of every reachable state: every assembly  *)
(* instruction and every printed line belongs to the block of one TACKY    *)
(* instruction, every variable of the code has its slot, and between the   *)
(* lines of a block the registers, the slots and the flags hold what the   *)
(* lines already executed have computed of it.                             *)
THEOREM MeaningInductive == BackSpec => []MeaningInv
<1>1. BackInit => BackIInv /\ MeaningInv
  BY BackInitEstablishes, MeaningInit
<1>2. BackIInv /\ MeaningInv /\ [BackNext]_vars => BackIInv' /\ MeaningInv'
  BY BackNextPreserves, MeaningNext
<1> QED
  BY <1>1, <1>2, PTL DEF BackSpec

-----------------------------------------------------------------------------
(* The refinement of TackyMachine. *)

LEMMA SameEnv ==
  ASSUME UNCHANGED code_vars, status # "off", status' # "off",
         \A s \in Slots : settled'[s] = settled[s]
  PROVE  tacky_env' = tacky_env
<1>1. offset_map' = offset_map /\ \A x \in DOMAIN offset_map : offset_map[x] \in Slots
  BY DEF code_vars, Slots
<1>2. \A x \in DOMAIN offset_map : settled'[offset_map[x]] = settled[offset_map[x]]
  BY <1>1
<1> QED
  BY <1>1, <1>2 DEF tacky_env

LEMMA WrittenEnv ==
  ASSUME IInv, UNCHANGED code_vars, status # "off", status' # "off",
         NEW d, d.id \in DOMAIN offset_map, NEW x,
         \A s \in Slots : settled'[s] = IF s = offset_map[d.id] THEN x ELSE settled[s]
  PROVE  tacky_env' = [tacky_env EXCEPT ![d.id] = x]
<1>1. offset_map' = offset_map
  BY DEF code_vars
<1>2. \A y \in DOMAIN offset_map :
        settled'[offset_map[y]] = IF y = d.id THEN x ELSE settled[offset_map[y]]
  BY SlotOf
<1> QED
  BY <1>1, <1>2 DEF tacky_env

LEMMA MeaningValue ==
  ASSUME status # "off", NEW v \in Operand, v.tag = "var" => v.id \in DOMAIN offset_map
  PROVE  Meaning!ValueOf(v) = Val(v)
<1>1. v.tag # "const" => v.tag = "var"
  BY ConvertedNames
<1> QED
  BY <1>1, SameWords DEF Meaning!ValueOf, Val, tacky_env

LEMMA MeaningTraps ==
  ASSUME status # "off", NEW i \in TackyInstruction, Known(i)
  PROVE  Meaning!Traps(i) <=> i.kind = "Binary" /\ i.op \in {"DIVIDE", "REMAINDER"} /\ Overflows(i)
<1>1. i.kind = "Binary" => /\ Meaning!ValueOf(i.src1) = Val(i.src1)
                           /\ Meaning!ValueOf(i.src2) = Val(i.src2)
  <2> SUFFICES ASSUME i.kind = "Binary"
               PROVE  /\ Meaning!ValueOf(i.src1) = Val(i.src1)
                      /\ Meaning!ValueOf(i.src2) = Val(i.src2)
    OBVIOUS
  <2>1. i.src1 \in Operand /\ i.src2 \in Operand /\ i.src1 \in Reading(i) /\ i.src2 \in Reading(i)
    BY TackyFields, ReadingForms
  <2> QED
    BY <2>1, MeaningValue DEF Known
<1>2. Meaning!MinInt = MinInt
  BY DEF Meaning!MinInt, MinInt
<1> QED
  BY <1>1, <1>2 DEF Meaning!Traps, Meaning!Divides, Overflows

LEMMA Outcomes ==
  /\ status = "off" => tacky_outcome = Meaning!Pending
  /\ status = "on" => tacky_outcome = Meaning!Running
  /\ status = "fault" => tacky_outcome = Meaning!Trapped
  /\ status = "exited" => tacky_outcome = Meaning!Returned(reg["AX"])
BY DEF tacky_outcome, Meaning!Pending, Meaning!Running, Meaning!Trapped, Meaning!Returned

LEMMA NextOutcomes ==
  /\ status' = "off" => tacky_outcome' = Meaning!Pending
  /\ status' = "on" => tacky_outcome' = Meaning!Running
  /\ status' = "fault" => tacky_outcome' = Meaning!Trapped
  /\ status' = "exited" => tacky_outcome' = Meaning!Returned(reg'["AX"])
BY DEF tacky_outcome, Meaning!Pending, Meaning!Running, Meaning!Trapped, Meaning!Returned

(* What the abstract machine sees before and after a step of the processor *)
(* in TACKY instruction t.                                                 *)
LEMMA SeenBefore ==
  ASSUME NEW first, NEW at, Executing(first, at), NEW t \in 1..Len(tacky), out_origin[ip] = t,
         NEW kinds, tacky[t].kind \in kinds
  PROVE  /\ tacky_pc = t /\ tacky_outcome = Meaning!Running /\ Meaning!At(kinds)
         /\ status # "off" /\ tacky' = tacky /\ UNCHANGED code_vars /\ IInv
<1>1. status = "on" /\ IInv /\ UNCHANGED code_vars
  BY DEF Executing, Laid, Run
<1>2. DOMAIN tacky = 1..Len(tacky)
  BY CalledCode DEF Executing, Laid
<1>3. tacky_pc = t /\ tacky_outcome = Meaning!Running
  BY <1>1, Outcomes DEF tacky_pc
<1> QED
  BY <1>1, <1>2, <1>3 DEF Meaning!At, code_vars

LEMMA SeenAfter ==
  ASSUME UNCHANGED code_vars, status' # "off"
  PROVE  tacky_pc' = out_origin[ip']
BY DEF tacky_pc, code_vars

LEMMA StepStays ==
  ASSUME NEW first, NEW at, Executing(first, at), NEW t \in 1..Len(tacky), out_origin[ip] = t,
         Stays(first, at, t)
  PROVE  UNCHANGED <<tacky_pc, tacky_env, tacky_outcome>>
<1>1. /\ tacky_pc = t /\ tacky_outcome = Meaning!Running /\ status # "off" /\ UNCHANGED code_vars
  BY SeenBefore
<1>2. status' = "on" /\ settled' = settled /\ out_origin[ip'] = t
  BY DEF Stays
<1>3. tacky_pc' = t /\ tacky_outcome' = Meaning!Running
  BY <1>1, <1>2, SeenAfter, NextOutcomes
<1>4. tacky_env' = tacky_env
  BY <1>1, <1>2, SameEnv
<1> QED
  BY <1>1, <1>3, <1>4

LEMMA StepFaults ==
  ASSUME NEW first, NEW at, Executing(first, at), NEW t \in 1..Len(tacky), out_origin[ip] = t,
         Faults(tacky[t])
  PROVE  Meaning!StepTrap
<1>1. /\ tacky_pc = t /\ Meaning!At({"Binary"}) /\ status # "off" /\ UNCHANGED code_vars
      /\ tacky' = tacky
  BY SeenBefore DEF Faults
<1>2. status' = "fault" /\ ip' = ip /\ \A s \in Slots : mem'[s] = settled[s]
  BY DEF Faults, Leaves
<1>3. tacky_pc' = t /\ tacky_outcome' = Meaning!Trapped
  BY <1>1, <1>2, SeenAfter, NextOutcomes
<1>4. \A s \in Slots : settled'[s] = settled[s]
  <2>1. settled' = mem' \/ settled' = settled
    BY SettledWhen DEF Executing
  <2> QED
    BY <1>2, <2>1
<1>5. tacky_env' = tacky_env
  BY <1>1, <1>2, <1>4, SameEnv
<1>6. Meaning!Traps(tacky[tacky_pc])
  BY <1>1, ValueWords, MeaningTraps DEF Faults
<1> QED
  BY <1>1, <1>3, <1>5, <1>6 DEF Meaning!StepTrap, Meaning!Stop

LEMMA StepReturns ==
  ASSUME NEW first, NEW at, Executing(first, at), NEW t \in 1..Len(tacky), out_origin[ip] = t,
         Done(tacky[t]), tacky[t].kind = "Return"
  PROVE  Meaning!StepReturn
<1>1. /\ tacky_pc = t /\ Meaning!At({"Return"}) /\ status # "off" /\ UNCHANGED code_vars
      /\ tacky' = tacky
  BY SeenBefore
<1>2. /\ status' = "exited" /\ reg'["AX"] = Val(tacky[t].src) /\ ip' = ip
      /\ \A s \in Slots : mem'[s] = settled[s]
  BY DEF Done, Leaves
<1>3. tacky_pc' = t /\ tacky_outcome' = Meaning!Returned(Val(tacky[t].src))
  BY <1>1, <1>2, SeenAfter, NextOutcomes
<1>4. \A s \in Slots : settled'[s] = settled[s]
  <2>1. settled' = mem' \/ settled' = settled
    BY SettledWhen DEF Executing
  <2> QED
    BY <1>2, <2>1
<1>5. tacky_env' = tacky_env
  BY <1>1, <1>2, <1>4, SameEnv
<1>6. Meaning!ValueOf(tacky[t].src) = Val(tacky[t].src)
  <2>1. /\ tacky[t] \in TackyInstruction /\ Known(tacky[t])
        /\ tacky[t].src \in Operand /\ tacky[t].src \in Reading(tacky[t])
    BY ValueWords, TackyFields, ReadingForms
  <2> QED
    BY <1>1, <2>1, MeaningValue DEF Known
<1> QED
  BY <1>1, <1>3, <1>5, <1>6 DEF Meaning!StepReturn, Meaning!Stop

(* A step that writes x to the variable of the instruction and goes on.    *)
LEMMA StepAssigns ==
  ASSUME NEW first, NEW at, Executing(first, at), NEW t \in 1..Len(tacky), out_origin[ip] = t,
         tacky[t].kind \in {"Unary", "Binary", "Copy"}, NEW x,
         Result(tacky[t].dst, x), Arrives(first, at, t + 1)
  PROVE  Meaning!Assign(tacky[t].dst, x)
<1>1. /\ tacky_pc = t /\ status # "off" /\ UNCHANGED code_vars /\ tacky' = tacky
      /\ tacky_outcome = Meaning!Running /\ IInv
  BY SeenBefore
<1>2. /\ status' = "on" /\ out_origin[ip'] = t + 1 /\ \A s \in Slots : settled'[s] = mem'[s]
  BY DEF Arrives
<1>3. tacky_pc' = t + 1 /\ tacky_outcome' = Meaning!Running
  BY <1>1, <1>2, SeenAfter, NextOutcomes
<1>4. \A s \in Slots : settled'[s] = IF s = offset_map[tacky[t].dst.id] THEN x ELSE settled[s]
  BY <1>2 DEF Result
<1>5. tacky[t].dst.id \in DOMAIN offset_map
  <2>1. /\ tacky[t] \in TackyInstruction /\ Known(tacky[t])
        /\ tacky[t].dst \in Variable /\ tacky[t].dst \in Reading(tacky[t])
    BY ValueWords, TackyFields, ReadingForms
  <2> QED
    BY <2>1, VariableOperand DEF Known
<1>6. tacky_env' = [tacky_env EXCEPT ![tacky[t].dst.id] = x]
  <2>1. status' # "off"
    BY <1>2
  <2> QED
    BY <1>1, <1>4, <1>5, <2>1, WrittenEnv
<1> QED
  BY <1>1, <1>3, <1>6 DEF Meaning!Assign

(* A step that only goes to the TACKY instruction u.                       *)
LEMMA StepGoes ==
  ASSUME NEW first, NEW at, Executing(first, at), NEW t \in 1..Len(tacky), out_origin[ip] = t,
         Leaves, NEW u, Arrives(first, at, u)
  PROVE  Meaning!GoTo(u)
<1>1. /\ tacky_pc = t /\ status # "off" /\ UNCHANGED code_vars /\ tacky' = tacky
      /\ tacky_outcome = Meaning!Running
  BY SeenBefore
<1>2. /\ status' = "on" /\ out_origin[ip'] = u /\ \A s \in Slots : settled'[s] = settled[s]
  BY DEF Arrives, Leaves
<1>3. tacky_pc' = u /\ tacky_outcome' = Meaning!Running
  BY <1>1, <1>2, SeenAfter, NextOutcomes
<1>4. tacky_env' = tacky_env
  BY <1>1, <1>2, SameEnv
<1> QED
  BY <1>1, <1>3, <1>4 DEF Meaning!GoTo

LEMMA StepCompletes ==
  ASSUME NEW first, NEW at, Executing(first, at), NEW t \in 1..Len(tacky), out_origin[ip] = t,
         Completes(first, at, t)
  PROVE  Meaning!Step
<1> DEFINE i == tacky[t]
<1>1. i \in TackyInstruction /\ Known(i) /\ Done(i)
  BY ValueWords DEF Completes
<1>2. tacky_pc = t /\ status # "off" /\ tacky[tacky_pc] = i
  BY SeenBefore
<1>3. \A v \in Reading(i) : Meaning!ValueOf(v) = Val(v)
  <2>1. Reading(i) \subseteq Operand
    BY <1>1, ReadingForms
  <2> QED
    BY <1>1, <1>2, <2>1, MeaningValue DEF Known
<1>4. CASE i.kind = "Return"
  BY <1>1, <1>4, StepReturns DEF Meaning!Step
<1>5. CASE i.kind = "Unary"
  <2>1. Meaning!At({"Unary"})
    BY <1>5, SeenBefore
  <2>2. Meaning!Assign(i.dst, Meaning!Unary(i.op, Val(i.src)))
    BY <1>1, <1>5, StepAssigns DEF Completes, Done
  <2>3. Meaning!ValueOf(i.src) = Val(i.src)
    BY <1>1, <1>3, <1>5, ReadingForms
  <2>4. Meaning!StepUnary
    BY <1>2, <2>1, <2>2, <2>3 DEF Meaning!StepUnary
  <2> QED
    BY <2>4 DEF Meaning!Step
<1>6. CASE i.kind = "Binary"
  <2>1. Meaning!At({"Binary"})
    BY <1>6, SeenBefore
  <2>2. Meaning!Assign(i.dst, Meaning!Binary(i.op, Val(i.src1), Val(i.src2)))
    BY <1>1, <1>6, StepAssigns DEF Completes, Done
  <2>3. Meaning!ValueOf(i.src1) = Val(i.src1) /\ Meaning!ValueOf(i.src2) = Val(i.src2)
    BY <1>1, <1>3, <1>6, ReadingForms
  <2>4. ~Meaning!Traps(i)
    BY <1>1, <1>2, <1>6, MeaningTraps DEF Done
  <2>5. Meaning!StepBinary
    BY <1>2, <2>1, <2>2, <2>3, <2>4 DEF Meaning!StepBinary
  <2> QED
    BY <2>5 DEF Meaning!Step
<1>7. CASE i.kind = "Copy"
  <2>1. Meaning!At({"Copy"})
    BY <1>7, SeenBefore
  <2>2. Meaning!Assign(i.dst, Val(i.src))
    BY <1>1, <1>7, StepAssigns DEF Completes, Done
  <2>3. Meaning!ValueOf(i.src) = Val(i.src)
    BY <1>1, <1>3, <1>7, ReadingForms
  <2>4. Meaning!StepCopy
    BY <1>2, <2>1, <2>2, <2>3 DEF Meaning!StepCopy
  <2> QED
    BY <2>4 DEF Meaning!Step
<1>8. CASE i.kind = "Label"
  <2>1. Meaning!At({"Label"})
    BY <1>8, SeenBefore
  <2>2. Meaning!GoTo(t + 1)
    BY <1>1, <1>8, StepGoes DEF Completes, Done
  <2>3. Meaning!StepLabel
    BY <1>2, <2>1, <2>2 DEF Meaning!StepLabel
  <2> QED
    BY <2>3 DEF Meaning!Step
<1>9. CASE i.kind = "Jump"
  <2>1. Meaning!At({"Jump", "JumpIfZero", "JumpIfNotZero"})
    BY <1>9, SeenBefore
  <2>2. Meaning!GoTo(Meaning!Find(i.target))
    BY <1>1, <1>9, StepGoes DEF Completes, Done
  <2>3. Meaning!StepJump
    BY <1>2, <1>9, <2>1, <2>2 DEF Meaning!StepJump
  <2> QED
    BY <2>3 DEF Meaning!Step
<1>10. CASE i.kind \in {"JumpIfZero", "JumpIfNotZero"}
  <2>1. Meaning!At({"Jump", "JumpIfZero", "JumpIfNotZero"})
    BY <1>10, SeenBefore
  <2>2. Meaning!GoTo(IF (Val(i.cond) = 0) = (i.kind = "JumpIfZero")
                     THEN Meaning!Find(i.target) ELSE t + 1)
    BY <1>1, <1>10, StepGoes DEF Completes, Done
  <2>3. Meaning!ValueOf(i.cond) = Val(i.cond)
    BY <1>1, <1>3, <1>10, ReadingForms
  <2>4. Meaning!StepJump
    BY <1>2, <1>10, <2>1, <2>2, <2>3 DEF Meaning!StepJump
  <2> QED
    BY <2>4 DEF Meaning!Step
<1> QED
  BY <1>1, <1>4, <1>5, <1>6, <1>7, <1>8, <1>9, <1>10 DEF TackyInstruction

LEMMA StepLoads ==
  ASSUME BackIInv, MeaningInv, Load
  PROVE  Meaning!Load
<1>1. /\ status = "off" /\ status' = "on" /\ ip' = 1 /\ out_origin[1] = 1
      /\ \A s \in Slots : settled'[s] \in Word
  BY LoadProgress
<1>2. UNCHANGED code_vars /\ phase = "done"
  BY DEF Load
<1>3. tacky_pc = 1 /\ tacky_outcome = Meaning!Pending
  BY <1>1, Outcomes DEF tacky_pc
<1>4. tacky_pc' = 1 /\ tacky_outcome' = Meaning!Running
  BY <1>1, <1>2, SeenAfter, NextOutcomes
<1>5. DOMAIN offset_map = Meaning!VariablesOf(tacky)
  BY <1>2, EveryVariable DEF BackIInv, MeaningInv
<1>6. tacky_env' \in [Meaning!VariablesOf(tacky) -> Meaning!Word]
  <2>1. offset_map' = offset_map /\ \A x \in DOMAIN offset_map : offset_map[x] \in Slots
    BY <1>2 DEF code_vars, Slots
  <2>2. \A x \in DOMAIN offset_map : settled'[offset_map[x]] \in Meaning!Word
    BY <1>1, <2>1, SameWords
  <2>3. tacky_env' = [x \in DOMAIN offset_map |-> settled'[offset_map[x]]]
    BY <1>1, <2>1 DEF tacky_env
  <2> QED
    BY <1>5, <2>2, <2>3
<1> QED
  BY <1>2, <1>3, <1>4, <1>6 DEF Meaning!Load, code_vars

LEMMA StepRuns ==
  ASSUME BackIInv, MeaningInv, Run
  PROVE  Meaning!Step \/ UNCHANGED <<tacky_pc, tacky_env, tacky_outcome>>
<1>1. CASE ip >= 3
  <2>1. status = "on"
    BY Fetched DEF Run
  <2>2. PICK first, at : /\ Blocks(first) /\ Lines(at)
                         /\ \E t, j, m : AtLine(first, at, t, j, m)
    BY <1>1, <2>1 DEF MeaningInv, Progress
  <2>3. PICK t, j, m : AtLine(first, at, t, j, m)
    BY <2>2
  <2>4. /\ Executing(first, at) /\ t \in 1..Len(tacky) /\ out_origin[ip] = t
        /\ \/ Stays(first, at, t) \/ Faults(tacky[t]) \/ Completes(first, at, t)
    BY <1>1, <2>2, <2>3, ProgressInside
  <2>5. Faults(tacky[t]) => Meaning!Step
    BY <2>4, StepFaults DEF Meaning!Step
  <2> QED
    BY <2>4, <2>5, StepStays, StepCompletes
<1>2. CASE ~(ip >= 3)
  <2>1. /\ status' = "on" /\ status = "on" /\ out_origin[ip] = 1 /\ out_origin[ip'] = 1
        /\ \A s \in Slots : settled'[s] = settled[s]
    BY <1>2, ProgressEntry
  <2>2. UNCHANGED code_vars
    BY DEF Run
  <2>3. tacky_pc = 1 /\ tacky_pc' = 1
    BY <2>1, <2>2, SeenAfter DEF tacky_pc
  <2>4. tacky_outcome' = tacky_outcome
    BY <2>1, Outcomes, NextOutcomes
  <2>5. tacky_env' = tacky_env
    BY <2>1, <2>2, SameEnv
  <2> QED
    BY <2>3, <2>4, <2>5
<1> QED
  BY <1>1, <1>2

LEMMA RefinesInit == BackInit => Meaning!Init
BY Outcomes DEF BackInit, MachineStart, Cpu!PowerOff, tacky_pc, tacky_env, Meaning!Init

LEMMA RefinesStep ==
  BackIInv /\ MeaningInv /\ [BackNext]_vars => [Meaning!Next]_<<tacky_pc, tacky_env, tacky_outcome>>
<1> SUFFICES ASSUME BackIInv, MeaningInv, [BackNext]_vars
             PROVE  [Meaning!Next]_<<tacky_pc, tacky_env, tacky_outcome>>
  OBVIOUS
<1>1. CASE Compile
  <2>1. status = "off" /\ status' = "off"
    BY <1>1, CompileIdle
  <2>2. tacky_pc' = tacky_pc /\ tacky_env' = tacky_env
    BY <2>1 DEF tacky_pc, tacky_env
  <2>3. tacky_outcome' = tacky_outcome
    BY <2>1, Outcomes, NextOutcomes
  <2> QED
    BY <2>2, <2>3
<1>2. CASE Load
  BY <1>2, StepLoads DEF Meaning!Next
<1>3. CASE Run
  BY <1>3, StepRuns DEF Meaning!Next
<1>4. CASE UNCHANGED vars
  BY <1>4 DEF vars, code_vars, cpu_vars, tacky_pc, tacky_env, tacky_outcome
<1> QED
  BY <1>1, <1>2, <1>3, <1>4 DEF BackNext

(* The compiled function does what its TACKY code means.  Whatever well-   *)
(* formed TACKY function is compiled and called, with words of any size    *)
(* and anything in the registers and in the frame: executing the lines     *)
(* that CodeGen printed is a run of TackyMachine.  Every TACKY instruction *)
(* takes effect at its last line with the value and the jump that it       *)
(* means, the divisions that trap are the same, and the value returned in  *)
(* %eax is the one returned.                                               *)
THEOREM ImplementsHolds == BackSpec => ImplementsTacky
<1>1. BackInit => Meaning!Init
  BY RefinesInit
<1>2. BackInit => BackIInv /\ MeaningInv
  BY BackInitEstablishes, MeaningInit
<1>3. BackIInv /\ MeaningInv /\ [BackNext]_vars => BackIInv' /\ MeaningInv'
  BY BackNextPreserves, MeaningNext
<1>4. BackIInv /\ MeaningInv /\ [BackNext]_vars =>
        [Meaning!Next]_<<tacky_pc, tacky_env, tacky_outcome>>
  BY RefinesStep
<1> QED
  BY <1>1, <1>2, <1>3, <1>4, PTL DEF BackSpec, ImplementsTacky, Meaning!Spec
=============================================================================
