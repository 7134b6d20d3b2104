-------------------------------- MODULE Asm --------------------------------
(***************************************************************************)
(* The assembly tree of include/libdcc/asm.hpp, and the machine            *)
(* instructions that its code_gen methods print.                           *)
(***************************************************************************)
EXTENDS Names, Sequences

-----------------------------------------------------------------------------
(* Operands. *)

RegASM == {"AX", "DX", "R10", "R11"}

Immediate(v) == [type |-> "IMM", val |-> v]
Register(r)  == [type |-> "REG", reg |-> r]
Pseudo(x)    == [type |-> "PSEUDO", id |-> x]
Stack(o)     == [type |-> "STACK", offset |-> o]

Value     == [type : {"IMM"}, val : Int]
Reg       == [type : {"REG"}, reg : RegASM]
Unplaced  == [type : {"PSEUDO"}, id : Name]
Placed    == [type : {"STACK"}, offset : Int]
AsmOperand == Value \cup Reg \cup Unplaced \cup Placed

IsImmediate(o) == o.type = "IMM"
InMemory(o)    == o.type = "STACK"

-----------------------------------------------------------------------------
(***************************************************************************)
(* Instructions.  ops lists the operands in the order of allocate_pseudo.  *)
(***************************************************************************)
CondCode == {"E", "NE", "G", "GE", "L", "LE"}

Mov(s, d)        == [kind |-> "Mov", ops |-> <<s, d>>]
UnaryASM(op, o)  == [kind |-> "Unary", op |-> op, ops |-> <<o>>]
BinaryASM(op, s, d) == [kind |-> "Binary", op |-> op, ops |-> <<s, d>>]
Cmp(s, d)        == [kind |-> "Cmp", ops |-> <<s, d>>]
SetCC(cc, o)     == [kind |-> "SetCC", cc |-> cc, ops |-> <<o>>]
Idiv(o)          == [kind |-> "Idiv", ops |-> <<o>>]
Cdq              == [kind |-> "Cdq", ops |-> <<>>]
Ret              == [kind |-> "Ret", ops |-> <<>>]
Jmp(l)           == [kind |-> "Jmp", target |-> l, ops |-> <<>>]
JmpCC(cc, l)     == [kind |-> "JmpCC", cc |-> cc, target |-> l, ops |-> <<>>]
AsmLabel(l)      == [kind |-> "Label", id |-> l, ops |-> <<>>]

UnaryOpASM  == {"NOT", "NEG"}
BinaryOpASM == {"ADD", "SUB", "MULT"}

AsmInstruction ==
       [kind : {"Mov", "Cmp"}, ops : Seq(AsmOperand)]
  \cup [kind : {"Unary"}, op : UnaryOpASM, ops : Seq(AsmOperand)]
  \cup [kind : {"Binary"}, op : BinaryOpASM, ops : Seq(AsmOperand)]
  \cup [kind : {"SetCC"}, cc : CondCode, ops : Seq(AsmOperand)]
  \cup [kind : {"Idiv"}, ops : Seq(AsmOperand)]
  \cup [kind : {"Cdq", "Ret"}, ops : {<<>>}]
  \cup [kind : {"Jmp"}, target : LabelId, ops : {<<>>}]
  \cup [kind : {"JmpCC"}, cc : CondCode, target : LabelId, ops : {<<>>}]
  \cup [kind : {"Label"}, id : LabelId, ops : {<<>>}]

-----------------------------------------------------------------------------
(***************************************************************************)
(* Machine instructions: a mnemonic, a source and a destination in AT&T    *)
(* order, a condition and a label; None where there is none.               *)
(***************************************************************************)
None == [type |-> "NONE"]
NoLabel == LabelName("", 0)

Machine(m, s, d)      == [m |-> m, src |-> s, dst |-> d, cc |-> "", label |-> NoLabel]
Branching(m, cc, l)   == [m |-> m, src |-> None, dst |-> None, cc |-> cc, label |-> l]
Setting(cc, d)        == [m |-> "set", src |-> None, dst |-> d, cc |-> cc, label |-> NoLabel]

r10d == Register("R10")
r11d == Register("R11")
rsp  == Register("SP")
rbp  == Register("BP")

(* Mov::code_gen *)
PrintMov(s, d) ==
  IF InMemory(s) /\ InMemory(d)
  THEN <<Machine("movl", s, r10d), Machine("movl", r10d, d)>>
  ELSE <<Machine("movl", s, d)>>

(* BinaryASM::code_gen *)
Mnemonic == [ADD |-> "addl", SUB |-> "subl", MULT |-> "imull"]

PrintBinary(op, s, d) ==
  IF op = "MULT" /\ InMemory(d)
  THEN <<Machine("movl", d, r11d), Machine("imull", s, r11d), Machine("movl", r11d, d)>>
  ELSE IF op # "MULT" /\ InMemory(s) /\ InMemory(d)
  THEN <<Machine("movl", s, r10d), Machine(Mnemonic[op], r10d, d)>>
  ELSE <<Machine(Mnemonic[op], s, d)>>

(* Mutant: an immediate second operand is printed as it is. *)
PrintCmp_Immediate(s, d) ==
  IF InMemory(s) /\ InMemory(d)
  THEN <<Machine("movl", s, r10d), Machine("cmpl", r10d, d)>>
  ELSE <<Machine("cmpl", s, d)>>

(* Cmp::code_gen *)
PrintCmp(s, d) ==
  IF InMemory(s) /\ InMemory(d)
  THEN <<Machine("movl", s, r10d), Machine("cmpl", r10d, d)>>
  ELSE IF IsImmediate(d)
  THEN <<Machine("movl", d, r11d), Machine("cmpl", s, r11d)>>
  ELSE <<Machine("cmpl", s, d)>>

(* Idiv::code_gen *)
PrintIdiv(o) ==
  IF IsImmediate(o)
  THEN <<Machine("movl", o, r10d), Machine("idivl", r10d, None)>>
  ELSE <<Machine("idivl", o, None)>>

(* UnaryASM::code_gen *)
PrintUnary(op, o) == <<Machine(IF op = "NOT" THEN "notl" ELSE "negl", None, o)>>

(* The entry of a function, IRFunction::code_gen. *)
Prologue == <<Machine("pushq", rbp, None), Machine("movq", rsp, rbp)>>

(* Mutant: the saved frame pointer stays on the stack. *)
PrintRet_WithoutPop == <<Machine("movq", rbp, rsp), Machine("ret", None, None)>>

(* Ret::code_gen *)
PrintRet == <<Machine("movq", rbp, rsp), Machine("popq", None, rbp), Machine("ret", None, None)>>

(* code_gen of every class: the virtual call. *)
code_gen(i) ==
  CASE i.kind = "Mov"    -> PrintMov(i.ops[1], i.ops[2])
    [] i.kind = "Unary"  -> PrintUnary(i.op, i.ops[1])
    [] i.kind = "Binary" -> PrintBinary(i.op, i.ops[1], i.ops[2])
    [] i.kind = "Cmp"    -> PrintCmp(i.ops[1], i.ops[2])
    [] i.kind = "SetCC"  -> <<Setting(i.cc, i.ops[1])>>
    [] i.kind = "Idiv"   -> PrintIdiv(i.ops[1])
    [] i.kind = "Cdq"    -> <<Machine("cdq", None, None)>>
    [] i.kind = "Ret"    -> PrintRet
    [] i.kind = "Jmp"    -> <<Branching("jmp", "", i.target)>>
    [] i.kind = "JmpCC"  -> <<Branching("j", i.cc, i.target)>>
    [] i.kind = "Label"  -> <<Branching("label", "", i.id)>>
=============================================================================
