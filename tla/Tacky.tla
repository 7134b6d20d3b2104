------------------------------- MODULE Tacky -------------------------------
(***************************************************************************)
(* The TACKY intermediate representation (include/libdcc/tacky.hpp): what  *)
(* TackyGen produces and CodeGen consumes.                                 *)
(***************************************************************************)
EXTENDS Names, Sequences

-----------------------------------------------------------------------------
(* TackyVal: std::variant<std::monostate, TackyConstant, TackyVar>. *)

NoVal            == [tag |-> "none"]
TackyConstant(c) == [tag |-> "const", value |-> c]
TackyVar(x)      == [tag |-> "var", id |-> x]

Operand  == [tag : {"const"}, value : Int] \cup [tag : {"var"}, id : Name]
TackyVal == Operand \cup {NoVal}
Variable == [tag : {"var"}, id : Name]

-----------------------------------------------------------------------------
(* Instructions. *)

TackyUnaryOp  == {"COMPLEMENT", "NEGATION", "NOT"}
RelationalOp  == {"EQUAL", "NOT_EQUAL", "LESS_THAN", "LESS_OR_EQUAL",
                  "GREATER_THAN", "GREATER_OR_EQUAL"}
TackyBinaryOp == {"ADD", "SUBTRACT", "MULTIPLY", "DIVIDE", "REMAINDER"}
                 \cup RelationalOp

TackyReturn(v)            == [kind |-> "Return", src |-> v]
TackyUnary(op, s, d)      == [kind |-> "Unary", op |-> op, src |-> s, dst |-> d]
TackyBinary(op, s, t, d)  ==
  [kind |-> "Binary", op |-> op, src1 |-> s, src2 |-> t, dst |-> d]
TackyCopy(s, d)           == [kind |-> "Copy", src |-> s, dst |-> d]
Jump(l)                   == [kind |-> "Jump", target |-> l]
JumpIfZero(c, l)          == [kind |-> "JumpIfZero", cond |-> c, target |-> l]
JumpIfNotZero(c, l)       == [kind |-> "JumpIfNotZero", cond |-> c, target |-> l]
Label(l)                  == [kind |-> "Label", id |-> l]

TackyInstruction ==
       [kind : {"Return"}, src : Operand]
  \cup [kind : {"Unary"}, op : TackyUnaryOp, src : Operand, dst : Variable]
  \cup [kind : {"Binary"}, op : TackyBinaryOp,
        src1 : Operand, src2 : Operand, dst : Variable]
  \cup [kind : {"Copy"}, src : Operand, dst : Variable]
  \cup [kind : {"Jump"}, target : LabelId]
  \cup [kind : {"JumpIfZero", "JumpIfNotZero"}, cond : Operand, target : LabelId]
  \cup [kind : {"Label"}, id : LabelId]

Jumps(i) == i.kind \in {"Jump", "JumpIfZero", "JumpIfNotZero"}

(* The operands an instruction reads, and the variables it writes. *)
Sources(i) ==
  CASE i.kind \in {"Return", "Unary", "Copy"} -> {i.src}
    [] i.kind = "Binary" -> {i.src1, i.src2}
    [] i.kind \in {"JumpIfZero", "JumpIfNotZero"} -> {i.cond}
    [] OTHER -> {}

Destinations(i) ==
  IF i.kind \in {"Unary", "Binary", "Copy"} THEN {i.dst} ELSE {}

-----------------------------------------------------------------------------
(***************************************************************************)
(* What CodeGen relies on without a test.  Code ends with a return; every  *)
(* jump has one label to go to; and an operator does not write its own     *)
(* second operand, because the lowering writes the result first (mov src1, *)
(* dst) and then reads src2.                                               *)
(***************************************************************************)
WellFormed(code) ==
  /\ code # <<>> /\ code[Len(code)].kind = "Return"
  /\ \A i \in DOMAIN code :
       /\ Jumps(code[i]) => \E j \in DOMAIN code : code[j] = Label(code[i].target)
       /\ code[i].kind = "Label" => \A j \in DOMAIN code : code[j] = code[i] => j = i
       /\ code[i].kind = "Binary" => code[i].dst # code[i].src2
=============================================================================
