------------------------------ MODULE TackyGen ------------------------------
(***************************************************************************)
(* tacky::TackyGen (src/tacky.cpp, include/libdcc/tacky.hpp): the visitor  *)
(* that flattens the tree into TACKY instructions.                         *)
(*                                                                         *)
(* The visit methods call each other through accept, read _current_val     *)
(* after a child returns, and push instructions in between.  The C++ call  *)
(* stack is the agenda todo: the statements that the open visit methods    *)
(* have still to execute, the next one first.  A visit action replaces an  *)
(* accept by the body of the visit method; the remaining actions execute   *)
(* one statement of a body.                                                *)
(***************************************************************************)
EXTENDS Ast, Tacky

(* The generator runs on trees that the analyser has accepted. *)
ASSUME CheckedAssumption == \A n \in Node : CheckedShape(n)

VARIABLES
  ast,           (* the Function node passed to generate_tacky                 *)
  todo,          (* statements of the open visit methods, next one first       *)
  instructions,  (* _instructions                                              *)
  current_val,   (* _current_val                                               *)
  tmp_counter,   (* _tmp_counter                                               *)
  label_counter  (* _label_counter                                             *)

vars == <<ast, todo, instructions, current_val, tmp_counter, label_counter>>

-----------------------------------------------------------------------------
(***************************************************************************)
(* Statements on the agenda, with the locals of the visit method that they *)
(* need.  Where a statement uses _current_val it is the value at the time  *)
(* the statement is executed.                                              *)
(***************************************************************************)
Accept(n)       == [do |-> "accept", node |-> n]
Emit(i)         == [do |-> "emit", ins |-> i]
EmitJZ(l)       == [do |-> "jz", target |-> l]
EmitJNZ(l)      == [do |-> "jnz", target |-> l]
EmitCopy(d)     == [do |-> "copy", dst |-> d]
EmitReturn      == [do |-> "return"]
EmitUnary(op)   == [do |-> "unary", op |-> op]
EmitBinary(op, v) == [do |-> "binary", op |-> op, src1 |-> v]
Second(op, n)   == [do |-> "second", op |-> op, node |-> n]
SetValue(v)     == [do |-> "value", val |-> v]
Branch(n)       == [do |-> "branch", node |-> n]

Op == [do : {"accept", "branch"}, node : Expr \cup Item \cup Body \cup Program]
      \cup [do : {"emit"}, ins : TackyInstruction]
      \cup [do : {"jz", "jnz"}, target : LabelId]
      \cup [do : {"copy"}, dst : Variable]
      \cup [do : {"return"}]
      \cup [do : {"unary"}, op : TackyUnaryOp]
      \cup [do : {"binary"}, op : TackyBinaryOp, src1 : Operand]
      \cup [do : {"second"}, op : TackyBinaryOp, node : Expr]
      \cup [do : {"value"}, val : Operand]

(* convert_unop and convert_binop. *)
convert_unop ==
  [Complement |-> "COMPLEMENT", Negate |-> "NEGATION", Not |-> "NOT"]

convert_binop ==
  [Add |-> "ADD", Sub |-> "SUBTRACT", Mul |-> "MULTIPLY", Div |-> "DIVIDE",
   Rem |-> "REMAINDER", Equal |-> "EQUAL", NotEqual |-> "NOT_EQUAL",
   LessThan |-> "LESS_THAN", LessOrEqual |-> "LESS_OR_EQUAL",
   GreaterThan |-> "GREATER_THAN", GreaterOrEqual |-> "GREATER_OR_EQUAL"]

(* make_temporary_name and make_label_name for the k-th call from here. *)
make_temporary_name == TackyVar(Tmp(tmp_counter))
make_label_name(p, k) == LabelName(p, label_counter + k)

-----------------------------------------------------------------------------
(* generate_tacky: clears the generator and accepts the program. *)
Init ==
  /\ ast \in Program
  /\ todo = <<Accept(ast)>>
  /\ instructions = <<>>
  /\ current_val = NoVal
  /\ tmp_counter = 0
  /\ label_counter = 0

Finished == todo = <<>>

Doing(what) == todo # <<>> /\ Head(todo).do = what
Visiting(kind) == Doing("accept") /\ Head(todo).node.k = kind

(* Run the statements of body, then what was left to do. *)
Run(body) == todo' = body \o Tail(todo)

-----------------------------------------------------------------------------
(* Leaves. *)

VisitConstant ==
  /\ Visiting("Constant")
  /\ current_val' = TackyConstant(Head(todo).node.value)
  /\ Run(<<>>)
  /\ UNCHANGED <<ast, instructions, tmp_counter, label_counter>>

VisitVar ==
  /\ Visiting("Var")
  /\ current_val' = TackyVar(Source(Head(todo).node.id))
  /\ Run(<<>>)
  /\ UNCHANGED <<ast, instructions, tmp_counter, label_counter>>

(* Operators. *)

VisitUnaryOperator ==
  /\ Visiting("UnaryOperator")
  /\ LET n == Head(todo).node
     IN  Run(<<Accept(n.expr), EmitUnary(convert_unop[n.op])>>)
  /\ UNCHANGED <<ast, instructions, current_val, tmp_counter, label_counter>>

VisitAnd ==
  /\ Visiting("BinaryOperator")
  /\ Head(todo).node.op = "And"
  /\ LET n           == Head(todo).node
         false_label == make_label_name("and_false", 0)
         end_label   == make_label_name("and_else", 1)
         result_val  == make_temporary_name
     IN  Run(<<Accept(n.left), EmitJZ(false_label),
               Accept(n.right), EmitJZ(false_label),
               Emit(TackyCopy(TackyConstant(1), result_val)),
               Emit(Jump(end_label)),
               Emit(Label(false_label)),
               Emit(TackyCopy(TackyConstant(0), result_val)),
               Emit(Label(end_label)),
               SetValue(result_val)>>)
  /\ tmp_counter' = tmp_counter + 1
  /\ label_counter' = label_counter + 2
  /\ UNCHANGED <<ast, instructions, current_val>>

VisitOr ==
  /\ Visiting("BinaryOperator")
  /\ Head(todo).node.op = "Or"
  /\ LET n          == Head(todo).node
         true_label == make_label_name("or_true", 0)
         end_label  == make_label_name("or_end", 1)
         result_val == make_temporary_name
     IN  Run(<<Accept(n.left), EmitJNZ(true_label),
               Accept(n.right), EmitJNZ(true_label),
               Emit(TackyCopy(TackyConstant(0), result_val)),
               Emit(Jump(end_label)),
               Emit(Label(true_label)),
               Emit(TackyCopy(TackyConstant(1), result_val)),
               Emit(Label(end_label)),
               SetValue(result_val)>>)
  /\ tmp_counter' = tmp_counter + 1
  /\ label_counter' = label_counter + 2
  /\ UNCHANGED <<ast, instructions, current_val>>

VisitBinaryOperator ==
  /\ Visiting("BinaryOperator")
  /\ Head(todo).node.op \notin {"And", "Or"}
  /\ LET n == Head(todo).node
     IN  Run(<<Accept(n.left), Second(convert_binop[n.op], n.right)>>)
  /\ UNCHANGED <<ast, instructions, current_val, tmp_counter, label_counter>>

(* TackyVal src1 = _current_val, then the right operand. *)
VisitRightOperand ==
  /\ Doing("second")
  /\ Run(<<Accept(Head(todo).node), EmitBinary(Head(todo).op, current_val)>>)
  /\ UNCHANGED <<ast, instructions, current_val, tmp_counter, label_counter>>

VisitAssignment ==
  /\ Visiting("Assignment")
  /\ LET n   == Head(todo).node
         dst == TackyVar(Source(n.left.id))
     IN  Run(<<Accept(n.right), EmitCopy(dst), SetValue(dst)>>)
  /\ UNCHANGED <<ast, instructions, current_val, tmp_counter, label_counter>>

(* The labels of a conditional are made after its condition is visited. *)
VisitConditional ==
  /\ Visiting("Conditional")
  /\ LET n == Head(todo).node IN Run(<<Accept(n.cond), Branch(n)>>)
  /\ UNCHANGED <<ast, instructions, current_val, tmp_counter, label_counter>>

BranchConditional ==
  /\ Doing("branch")
  /\ Head(todo).node.k = "Conditional"
  /\ LET n          == Head(todo).node
         e2_label   == make_label_name("e2_end", 0)
         end_label  == make_label_name("conditional_end", 1)
         result_val == make_temporary_name
     IN  Run(<<EmitJZ(e2_label),
               Accept(n.true), EmitCopy(result_val), Emit(Jump(end_label)),
               Emit(Label(e2_label)),
               Accept(n.false), EmitCopy(result_val),
               Emit(Label(end_label)),
               SetValue(result_val)>>)
  /\ tmp_counter' = tmp_counter + 1
  /\ label_counter' = label_counter + 2
  /\ UNCHANGED <<ast, instructions, current_val>>

-----------------------------------------------------------------------------
(* Statements and declarations. *)

(* Mutant: the expression of a return is not visited. *)
VisitReturnStmt_Unvisited ==
  /\ Visiting("ReturnStmt")
  /\ Run(<<EmitReturn>>)
  /\ UNCHANGED <<ast, instructions, current_val, tmp_counter, label_counter>>

VisitReturnStmt ==
  /\ Visiting("ReturnStmt")
  /\ Run(<<Accept(Head(todo).node.expr), EmitReturn>>)
  /\ UNCHANGED <<ast, instructions, current_val, tmp_counter, label_counter>>

VisitIfStatement ==
  /\ Visiting("IfStatement")
  /\ LET n == Head(todo).node IN Run(<<Accept(n.cond), Branch(n)>>)
  /\ UNCHANGED <<ast, instructions, current_val, tmp_counter, label_counter>>

(* Mutant: the else label is forgotten. *)
BranchIfElse_NoElseLabel ==
  /\ Doing("branch")
  /\ Head(todo).node.k = "IfStatement"
  /\ Head(todo).node.else # Nil
  /\ LET n         == Head(todo).node
         end_label == make_label_name("if_end", 0)
     IN  Run(<<EmitJZ(make_label_name("if_else", 1)),
               Accept(n.then), Emit(Jump(end_label)),
               Accept(n.else), Emit(Label(end_label))>>)
  /\ label_counter' = label_counter + 2
  /\ UNCHANGED <<ast, instructions, current_val, tmp_counter>>

BranchIfElse ==
  /\ Doing("branch")
  /\ Head(todo).node.k = "IfStatement"
  /\ Head(todo).node.else # Nil
  /\ LET n          == Head(todo).node
         end_label  == make_label_name("if_end", 0)
         else_label == make_label_name("if_else", 1)
     IN  Run(<<EmitJZ(else_label),
               Accept(n.then), Emit(Jump(end_label)),
               Emit(Label(else_label)),
               Accept(n.else),
               Emit(Label(end_label))>>)
  /\ label_counter' = label_counter + 2
  /\ UNCHANGED <<ast, instructions, current_val, tmp_counter>>

(* Mutants: the counter stays; the label comes before the statement; the   *)
(* jump goes to the next label.                                            *)
BranchIfOf(body, step) ==
  /\ Doing("branch")
  /\ Head(todo).node.k = "IfStatement"
  /\ Head(todo).node.else = Nil
  /\ Run(body)
  /\ label_counter' = label_counter + step
  /\ UNCHANGED <<ast, instructions, current_val, tmp_counter>>

BranchIf_SameLabel ==
  LET end_label == make_label_name("if_end", 0)
  IN  BranchIfOf(<<EmitJZ(end_label), Accept(Head(todo).node.then), Emit(Label(end_label))>>, 0)

BranchIf_LabelFirst ==
  LET end_label == make_label_name("if_end", 0)
  IN  BranchIfOf(<<Emit(Label(end_label)), EmitJZ(end_label), Accept(Head(todo).node.then)>>, 1)

BranchIf_NextLabel ==
  BranchIfOf(<<EmitJZ(make_label_name("if_end", 1)), Accept(Head(todo).node.then),
               Emit(Label(make_label_name("if_end", 0)))>>, 1)

BranchIf ==
  /\ Doing("branch")
  /\ Head(todo).node.k = "IfStatement"
  /\ Head(todo).node.else = Nil
  /\ LET n         == Head(todo).node
         end_label == make_label_name("if_end", 0)
     IN  Run(<<EmitJZ(end_label), Accept(n.then), Emit(Label(end_label))>>)
  /\ label_counter' = label_counter + 1
  /\ UNCHANGED <<ast, instructions, current_val, tmp_counter>>

VisitExpressionStmt ==
  /\ Visiting("ExpressionStmt")
  /\ Run(<<Accept(Head(todo).node.expr)>>)
  /\ UNCHANGED <<ast, instructions, current_val, tmp_counter, label_counter>>

VisitNullStmt ==
  /\ Visiting("NullStmt")
  /\ Run(<<>>)
  /\ UNCHANGED <<ast, instructions, current_val, tmp_counter, label_counter>>

VisitDeclarationVariable ==
  /\ Visiting("DeclarationVariable")
  /\ LET n == Head(todo).node
     IN  Run(IF n.init = Nil
             THEN <<>>
             ELSE <<Accept(n.init), EmitCopy(TackyVar(Source(n.id)))>>)
  /\ UNCHANGED <<ast, instructions, current_val, tmp_counter, label_counter>>

VisitCompoundStmt ==
  /\ Visiting("CompoundStmt")
  /\ Run(<<Accept(Head(todo).node.block)>>)
  /\ UNCHANGED <<ast, instructions, current_val, tmp_counter, label_counter>>

AcceptAll(items) == [i \in 1..Len(items) |-> Accept(items[i])]

VisitBlock ==
  /\ Visiting("Block")
  /\ Run(AcceptAll(Head(todo).node.items))
  /\ UNCHANGED <<ast, instructions, current_val, tmp_counter, label_counter>>

(* The items of the body, then an unconditional return of 0. *)
VisitFunction ==
  /\ Visiting("Function")
  /\ Run(AcceptAll(Head(todo).node.block.items)
         \o <<Emit(TackyReturn(TackyConstant(0)))>>)
  /\ UNCHANGED <<ast, instructions, current_val, tmp_counter, label_counter>>

-----------------------------------------------------------------------------
(* Statements of the visit methods that push an instruction. *)

PushInstruction(i) ==
  /\ instructions' = Append(instructions, i)
  /\ Run(<<>>)

EmitReady ==
  /\ Doing("emit")
  /\ PushInstruction(Head(todo).ins)
  /\ UNCHANGED <<ast, current_val, tmp_counter, label_counter>>

EmitConditionalJump ==
  /\ \/ Doing("jz") /\ PushInstruction(JumpIfZero(current_val, Head(todo).target))
     \/ Doing("jnz") /\ PushInstruction(JumpIfNotZero(current_val, Head(todo).target))
  /\ UNCHANGED <<ast, current_val, tmp_counter, label_counter>>

EmitCopyOfCurrent ==
  /\ Doing("copy")
  /\ PushInstruction(TackyCopy(current_val, Head(todo).dst))
  /\ UNCHANGED <<ast, current_val, tmp_counter, label_counter>>

EmitReturnOfCurrent ==
  /\ Doing("return")
  /\ PushInstruction(TackyReturn(current_val))
  /\ UNCHANGED <<ast, current_val, tmp_counter, label_counter>>

(* Mutant: the counter of temporaries stays. *)
EmitUnaryOfCurrent_SameTemporary ==
  /\ Doing("unary")
  /\ PushInstruction(TackyUnary(Head(todo).op, current_val, make_temporary_name))
  /\ current_val' = make_temporary_name
  /\ UNCHANGED <<ast, tmp_counter, label_counter>>

EmitUnaryOfCurrent ==
  /\ Doing("unary")
  /\ PushInstruction(TackyUnary(Head(todo).op, current_val, make_temporary_name))
  /\ current_val' = make_temporary_name
  /\ tmp_counter' = tmp_counter + 1
  /\ UNCHANGED <<ast, label_counter>>

EmitBinaryOfCurrent ==
  /\ Doing("binary")
  /\ PushInstruction(TackyBinary(Head(todo).op, Head(todo).src1, current_val,
                                 make_temporary_name))
  /\ current_val' = make_temporary_name
  /\ tmp_counter' = tmp_counter + 1
  /\ UNCHANGED <<ast, label_counter>>

(* _current_val = result_val, _current_val = dst. *)
SetCurrent ==
  /\ Doing("value")
  /\ current_val' = Head(todo).val
  /\ Run(<<>>)
  /\ UNCHANGED <<ast, instructions, tmp_counter, label_counter>>

-----------------------------------------------------------------------------
VisitExpr ==
  \/ VisitConstant \/ VisitVar \/ VisitUnaryOperator
  \/ VisitAnd \/ VisitOr \/ VisitBinaryOperator \/ VisitRightOperand
  \/ VisitAssignment \/ VisitConditional \/ BranchConditional

VisitStmt ==
  \/ VisitReturnStmt \/ VisitIfStatement \/ BranchIfElse \/ BranchIf
  \/ VisitExpressionStmt \/ VisitNullStmt \/ VisitDeclarationVariable
  \/ VisitCompoundStmt \/ VisitBlock \/ VisitFunction

Execute ==
  \/ EmitReady \/ EmitConditionalJump \/ EmitCopyOfCurrent
  \/ EmitReturnOfCurrent \/ EmitUnaryOfCurrent
  \/ EmitBinaryOfCurrent \/ SetCurrent

Next == VisitExpr \/ VisitStmt \/ Execute

Spec == Init /\ [][Next]_vars

-----------------------------------------------------------------------------
(* Every variable holds values of its C++ type. *)
TypeOK ==
  /\ ast \in Program
  /\ todo \in Seq(Op)
  /\ instructions \in Seq(TackyInstruction)
  /\ current_val \in TackyVal
  /\ tmp_counter \in Nat
  /\ label_counter \in Nat

(* A label is defined by at most one instruction, whatever the nesting of  *)
(* the &&, ||, ?: and if that made it: the shared counter of               *)
(* make_label_name separates the prefixes.                                 *)
LabelsDefinedOnce ==
  \A i, j \in 1..Len(instructions) :
    instructions[i].kind = "Label" /\ instructions[j] = instructions[i] => i = j

(* When generate_tacky returns, every jump goes to a label that is defined *)
(* further on: no jump dangles, and the generated code cannot loop.        *)
JumpsForward ==
  Finished =>
    \A i \in 1..Len(instructions) :
      Jumps(instructions[i]) =>
        \E j \in i+1..Len(instructions) :
          instructions[j] = Label(instructions[i].target)

Temporary(v) == v.tag = "var" /\ v.id.base = "tmp" /\ v.id.num # NoNumber

(* A temporary is read only after an instruction that writes it, and never *)
(* written again once it has been read.  The visit methods carry operands  *)
(* by name (src1, v1, result_val) across the code of their other children, *)
(* so a name that was reused would be read with another value.             *)
TempsSettledWhenRead ==
  \A i \in 1..Len(instructions) : \A v \in Sources(instructions[i]) :
    Temporary(v) =>
      /\ \E j \in 1..i-1 : v \in Destinations(instructions[j])
      /\ \A j \in i..Len(instructions) : v \notin Destinations(instructions[j])

-----------------------------------------------------------------------------
(***************************************************************************)
(* The inductive invariant behind the properties: what an agenda promises. *)
(***************************************************************************)

(* Statements that use _current_val, and those that leave a value in it.   *)
Consumes(o) == o.do \in {"jz", "jnz", "copy", "return", "unary", "binary", "second", "branch"}
Produces(o) ==
  \/ o.do \in {"accept", "branch"} /\ o.node \in Expr
  \/ o.do \in {"value", "unary", "binary", "second"}

(* Every use of _current_val comes after a statement that sets it. *)
ValuesReady(agenda) ==
  \A p \in 1..Len(agenda) :
    Consumes(agenda[p]) => \E q \in 1..p-1 : Produces(agenda[q])

(* Statements that push a jump, and those that push a given label. *)
PushesJump(o) == o.do \in {"jz", "jnz"} \/ (o.do = "emit" /\ Jumps(o.ins))
JumpTarget(o) == IF o.do = "emit" THEN o.ins.target ELSE o.target
PushesLabel(o) == o.do = "emit" /\ o.ins.kind = "Label"

(* The label of every jump that will be pushed is pushed after it. *)
JumpsClosed(agenda) ==
  \A p \in 1..Len(agenda) :
    PushesJump(agenda[p]) =>
      \E q \in p+1..Len(agenda) : agenda[q] = Emit(Label(JumpTarget(agenda[p])))

(* The labels that will be pushed are distinct, with numbers in lo..hi-1. *)
LabelsApart(agenda, lo, hi) ==
  \A p \in 1..Len(agenda) :
    PushesLabel(agenda[p]) =>
      /\ lo <= agenda[p].ins.id.num /\ agenda[p].ins.id.num < hi
      /\ \A q \in 1..Len(agenda) : agenda[q] = agenda[p] => q = p

(* A jump that was pushed has its label already, or the label will come. *)
JumpsResolved ==
  \A i \in 1..Len(instructions) :
    Jumps(instructions[i]) =>
      \/ \E j \in i+1..Len(instructions) :
           instructions[j] = Label(instructions[i].target)
      \/ \E q \in 1..Len(todo) : todo[q] = Emit(Label(instructions[i].target))

(* A label that was pushed was made by make_label_name, and will not be    *)
(* pushed again.                                                           *)
LabelsPushed ==
  \A i \in 1..Len(instructions) :
    instructions[i].kind = "Label" =>
      /\ instructions[i].id.num < label_counter
      /\ \A q \in 1..Len(todo) : todo[q] # Emit(instructions[i])

IInv ==
  /\ TypeOK
  /\ current_val = NoVal => ValuesReady(todo)
  /\ JumpsClosed(todo)
  /\ JumpsResolved
  /\ LabelsApart(todo, 0, label_counter)
  /\ LabelsPushed
  /\ LabelsDefinedOnce
=============================================================================
