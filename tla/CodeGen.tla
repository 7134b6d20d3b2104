------------------------------ MODULE CodeGen ------------------------------
(***************************************************************************)
(* assembly::CodeGen (src/asm.cpp, include/libdcc/asm.hpp): TACKY code is  *)
(* lowered to assembly over pseudo-registers (the visit methods), every    *)
(* pseudo-register is given a stack slot (allocate_pseudo), and the        *)
(* instructions are printed (code_gen), which is where an instruction that *)
(* the hardware lacks is expanded through %r10d or %r11d.                  *)
(***************************************************************************)
EXTENDS Asm, Tacky

CONSTANT TackyCode  (* The TACKY functions that are compiled. *)

ASSUME TackyCodeAssumption == TackyCode \subseteq Seq(TackyInstruction)

VARIABLES
  phase,             (* "visit", "allocate", "print" or "done"               *)
  tacky,             (* tacky_func->_instructions                            *)
  next,              (* the element that the loop of this phase is at        *)
  operand,           (* the operand that allocate_pseudo is at               *)
  asm_instructions,
  cur_offset,
  offset_map,
  out,               (* the machine instructions printed                     *)
  origin,            (* ghost: the TACKY instruction of every assembly one   *)
  out_origin         (* ghost: the TACKY instruction of every printed one,   *)
                     (* the first one for the entry of the function          *)

code_vars == <<phase, tacky, next, operand, asm_instructions, cur_offset,
               offset_map, out, origin, out_origin>>

-----------------------------------------------------------------------------
CodeGenStart ==
  /\ phase = "visit"
  /\ next = 1
  /\ operand = 1
  /\ asm_instructions = <<>>
  /\ cur_offset = 0
  /\ offset_map = [x \in {} |-> 0]
  /\ out = <<>>
  /\ origin = <<>>
  /\ out_origin = <<>>

Init == tacky \in TackyCode /\ CodeGenStart

(* convert_val and convert_op. *)
convert_val(v) ==
  IF v.tag = "const" THEN Immediate(v.value) ELSE Pseudo(v.id)

(* Mutant: an enumerator of the wrong type. *)
convert_unary_Unconverted == [COMPLEMENT |-> "NOT", NEGATION |-> "NEGATION"]

convert_unary  == [COMPLEMENT |-> "NOT", NEGATION |-> "NEG"]
convert_binary == [ADD |-> "ADD", SUBTRACT |-> "SUB", MULTIPLY |-> "MULT"]

convert_to_condition_code ==
  [EQUAL |-> "E", NOT_EQUAL |-> "NE", LESS_THAN |-> "L", LESS_OR_EQUAL |-> "LE",
   GREATER_THAN |-> "G", GREATER_OR_EQUAL |-> "GE"]

-----------------------------------------------------------------------------
(* The visit methods. *)

Visit(kind) ==
  phase = "visit" /\ next <= Len(tacky) /\ tacky[next].kind = kind

PushBack(instructions) ==
  /\ asm_instructions' = asm_instructions \o instructions
  /\ origin' = origin \o [k \in 1..Len(instructions) |-> next]
  /\ next' = next + 1
  /\ UNCHANGED <<phase, tacky, operand, cur_offset, offset_map, out, out_origin>>

VisitReturn ==
  /\ Visit("Return")
  /\ PushBack(<<Mov(convert_val(tacky[next].src), Register("AX")), Ret>>)

VisitNot ==
  /\ Visit("Unary")
  /\ tacky[next].op = "NOT"
  /\ LET src == convert_val(tacky[next].src)
         dst == convert_val(tacky[next].dst)
     IN  PushBack(<<Cmp(Immediate(0), src), Mov(Immediate(0), dst), SetCC("E", dst)>>)

VisitUnary ==
  /\ Visit("Unary")
  /\ tacky[next].op # "NOT"
  /\ LET src == convert_val(tacky[next].src)
         dst == convert_val(tacky[next].dst)
     IN  PushBack(<<Mov(src, dst), UnaryASM(convert_unary[tacky[next].op], dst)>>)

(* Mutant: the remainder is taken from the register of the quotient. *)
VisitDivision_Quotient ==
  /\ Visit("Binary")
  /\ tacky[next].op \in {"DIVIDE", "REMAINDER"}
  /\ PushBack(<<Mov(convert_val(tacky[next].src1), Register("AX")), Cdq,
                Idiv(convert_val(tacky[next].src2)),
                Mov(Register("AX"), convert_val(tacky[next].dst))>>)

VisitDivision ==
  /\ Visit("Binary")
  /\ tacky[next].op \in {"DIVIDE", "REMAINDER"}
  /\ LET src1 == convert_val(tacky[next].src1)
         src2 == convert_val(tacky[next].src2)
         dst  == convert_val(tacky[next].dst)
         asm_reg == IF tacky[next].op = "DIVIDE" THEN "AX" ELSE "DX"
     IN  PushBack(<<Mov(src1, Register("AX")), Cdq, Idiv(src2),
                    Mov(Register(asm_reg), dst)>>)

(* Mutants: the operands of cmp in source order; the result cleared by     *)
(* subtracting it from itself.                                             *)
VisitRelationalOf(body(_, _, _)) ==
  /\ Visit("Binary")
  /\ tacky[next].op \in RelationalOp
  /\ PushBack(body(convert_val(tacky[next].src1), convert_val(tacky[next].src2),
                   convert_val(tacky[next].dst)))

VisitRelational_Swapped ==
  VisitRelationalOf(LAMBDA src1, src2, dst :
    <<Cmp(src1, src2), Mov(Immediate(0), dst),
      SetCC(convert_to_condition_code[tacky[next].op], dst)>>)

VisitRelational_Subtract ==
  VisitRelationalOf(LAMBDA src1, src2, dst :
    <<Cmp(src2, src1), BinaryASM("SUB", dst, dst),
      SetCC(convert_to_condition_code[tacky[next].op], dst)>>)

VisitRelational ==
  /\ Visit("Binary")
  /\ tacky[next].op \in RelationalOp
  /\ LET src1 == convert_val(tacky[next].src1)
         src2 == convert_val(tacky[next].src2)
         dst  == convert_val(tacky[next].dst)
     IN  PushBack(<<Cmp(src2, src1), Mov(Immediate(0), dst),
                    SetCC(convert_to_condition_code[tacky[next].op], dst)>>)

VisitArithmetic ==
  /\ Visit("Binary")
  /\ tacky[next].op \in {"ADD", "SUBTRACT", "MULTIPLY"}
  /\ LET src1 == convert_val(tacky[next].src1)
         src2 == convert_val(tacky[next].src2)
         dst  == convert_val(tacky[next].dst)
     IN  PushBack(<<Mov(src1, dst),
                    BinaryASM(convert_binary[tacky[next].op], src2, dst)>>)

VisitJump == Visit("Jump") /\ PushBack(<<Jmp(tacky[next].target)>>)

VisitJumpIfZero ==
  /\ Visit("JumpIfZero")
  /\ PushBack(<<Cmp(Immediate(0), convert_val(tacky[next].cond)),
                JmpCC("E", tacky[next].target)>>)

VisitJumpIfNotZero ==
  /\ Visit("JumpIfNotZero")
  /\ PushBack(<<Cmp(Immediate(0), convert_val(tacky[next].cond)),
                JmpCC("NE", tacky[next].target)>>)

VisitCopy ==
  /\ Visit("Copy")
  /\ PushBack(<<Mov(convert_val(tacky[next].src), convert_val(tacky[next].dst))>>)

VisitLabel == Visit("Label") /\ PushBack(<<AsmLabel(tacky[next].id)>>)

BeginAllocation ==
  /\ phase = "visit"
  /\ next > Len(tacky)
  /\ phase' = "allocate"
  /\ next' = 1
  /\ operand' = 1
  /\ UNCHANGED <<tacky, asm_instructions, cur_offset, offset_map, out, origin, out_origin>>

-----------------------------------------------------------------------------
(* allocate_pseudo, one operand of one instruction at a time. *)

AtOperand ==
  /\ phase = "allocate"
  /\ next <= Len(asm_instructions)
  /\ operand <= Len(asm_instructions[next].ops)

Here == asm_instructions[next].ops[operand]

Replace(offset) ==
  /\ asm_instructions' = [asm_instructions EXCEPT ![next].ops[operand] = Stack(offset)]
  /\ operand' = operand + 1

(* Mutant: the slot is the offset before it is lowered. *)
ReplaceNewPseudo_RecordedEarly ==
  /\ AtOperand
  /\ Here.type = "PSEUDO"
  /\ Here.id \notin DOMAIN offset_map
  /\ cur_offset' = cur_offset - 4
  /\ offset_map' = [x \in DOMAIN offset_map \cup {Here.id} |->
                      IF x = Here.id THEN cur_offset ELSE offset_map[x]]
  /\ Replace(cur_offset)
  /\ UNCHANGED <<phase, tacky, next, out, origin, out_origin>>

(* Pseudo::replace_pseudo for a name seen for the first time, *)
ReplaceNewPseudo ==
  /\ AtOperand
  /\ Here.type = "PSEUDO"
  /\ Here.id \notin DOMAIN offset_map
  /\ cur_offset' = cur_offset - 4
  /\ offset_map' = [x \in DOMAIN offset_map \cup {Here.id} |->
                      IF x = Here.id THEN cur_offset - 4 ELSE offset_map[x]]
  /\ Replace(cur_offset - 4)
  /\ UNCHANGED <<phase, tacky, next, out, origin, out_origin>>

(* and for a name that has its slot. *)
ReplaceKnownPseudo ==
  /\ AtOperand
  /\ Here.type = "PSEUDO"
  /\ Here.id \in DOMAIN offset_map
  /\ Replace(offset_map[Here.id])
  /\ UNCHANGED <<phase, tacky, next, cur_offset, offset_map, out, origin, out_origin>>

(* Operand::replace_pseudo: nullptr, the operand stays. *)
KeepOperand ==
  /\ AtOperand
  /\ Here.type # "PSEUDO"
  /\ operand' = operand + 1
  /\ UNCHANGED <<phase, tacky, next, asm_instructions, cur_offset, offset_map,
                 out, origin, out_origin>>

NextInstruction ==
  /\ phase = "allocate"
  /\ next <= Len(asm_instructions)
  /\ operand > Len(asm_instructions[next].ops)
  /\ next' = next + 1
  /\ operand' = 1
  /\ UNCHANGED <<phase, tacky, asm_instructions, cur_offset, offset_map, out,
                 origin, out_origin>>

BeginPrinting ==
  /\ phase = "allocate"
  /\ next > Len(asm_instructions)
  /\ phase' = "print"
  /\ next' = 1
  /\ out' = Prologue
  /\ out_origin' = [k \in DOMAIN Prologue |-> 1]
  /\ UNCHANGED <<tacky, operand, asm_instructions, cur_offset, offset_map, origin>>

-----------------------------------------------------------------------------
(* The loop of IRFunction::code_gen. *)
PrintInstruction ==
  /\ phase = "print"
  /\ next <= Len(asm_instructions)
  /\ LET lines == code_gen(asm_instructions[next])
     IN  /\ out' = out \o lines
         /\ out_origin' = out_origin \o [k \in 1..Len(lines) |-> origin[next]]
  /\ next' = next + 1
  /\ UNCHANGED <<phase, tacky, operand, asm_instructions, cur_offset, offset_map, origin>>

EndPrinting ==
  /\ phase = "print"
  /\ next > Len(asm_instructions)
  /\ phase' = "done"
  /\ UNCHANGED <<tacky, next, operand, asm_instructions, cur_offset, offset_map,
                 out, origin, out_origin>>

VisitInstruction ==
  \/ VisitReturn \/ VisitNot \/ VisitUnary \/ VisitDivision
  \/ VisitRelational \/ VisitArithmetic \/ VisitJump \/ VisitJumpIfZero
  \/ VisitJumpIfNotZero \/ VisitCopy \/ VisitLabel \/ BeginAllocation

AllocatePseudo ==
  \/ ReplaceNewPseudo \/ ReplaceKnownPseudo \/ KeepOperand
  \/ NextInstruction \/ BeginPrinting

Next == VisitInstruction \/ AllocatePseudo \/ PrintInstruction \/ EndPrinting

Spec == Init /\ [][Next]_code_vars

-----------------------------------------------------------------------------
TypeOK ==
  /\ phase \in {"visit", "allocate", "print", "done"}
  /\ tacky \in Seq(TackyInstruction)
  /\ next \in Nat \ {0}
  /\ operand \in Nat \ {0}
  /\ asm_instructions \in Seq(AsmInstruction)
  /\ cur_offset \in Int
  /\ DOMAIN offset_map \subseteq Name
  /\ \A x \in DOMAIN offset_map : offset_map[x] \in Int

(* Two names never share a byte of the frame, and no name reaches the      *)
(* saved frame pointer at 0(%rbp): a slot is four bytes, and the offsets   *)
(* come from the counter that replace_pseudo decrements.                   *)
SlotsDisjoint ==
  \A x, y \in DOMAIN offset_map :
    /\ offset_map[x] + 4 <= 0
    /\ x # y => \/ offset_map[x] + 4 <= offset_map[y]
                \/ offset_map[y] + 4 <= offset_map[x]

(* Pseudo::code_gen prints the empty string, so a pseudo-register that the *)
(* allocation pass forgot would give an assembly line without an operand.  *)
(* Once printing has begun none is left, and every memory operand is the   *)
(* slot of a name.                                                         *)
EveryOperandPlaced ==
  phase \in {"print", "done"} =>
    \A i \in DOMAIN asm_instructions : \A k \in DOMAIN asm_instructions[i].ops :
      LET o == asm_instructions[i].ops[k]
      IN  /\ o.type # "PSEUDO"
          /\ InMemory(o) => \E x \in DOMAIN offset_map : offset_map[x] = o.offset

(* The forms of the instructions that x86-64 has: at most one operand in   *)
(* memory, no immediate where a result or the second operand of cmp goes,  *)
(* a register for the result of imul, no immediate divisor.                *)
Encodable(i) ==
  LET s == i.src
      d == i.dst
  IN  /\ s.type # "PSEUDO" /\ d.type # "PSEUDO"
      /\ d.type # "IMM"
      /\ ~(InMemory(s) /\ InMemory(d))
      /\ i.m = "imull" => d.type = "REG"
      /\ i.m = "idivl" => s.type \in {"REG", "STACK"}

(* Every line that is printed is an instruction the assembler accepts,     *)
(* whatever the kinds of the operands: the allocation pass has placed them *)
(* all, and the expansions through %r10d and %r11d cover all combinations  *)
(* that lowering makes.                                                    *)
PrintedEncodable == EveryOperandPlaced /\ \A i \in DOMAIN out : Encodable(out[i])
=============================================================================
