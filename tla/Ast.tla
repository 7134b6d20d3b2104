-------------------------------- MODULE Ast --------------------------------
(***************************************************************************)
(* The abstract syntax tree that dcc::Parser builds and that the analyser  *)
(* and the TACKY generator walk (include/libdcc/parser.hpp).  A node is a  *)
(* record whose field k names the C++ class; a child pointer is the child  *)
(* itself, and a null std::unique_ptr is Nil.                              *)
(***************************************************************************)
EXTENDS Names, Sequences

CONSTANT Node  (* The nodes of the programs considered, closed under children. *)

Nil == [k |-> "Nil"]

UnaryOpType == {"Complement", "Negate", "Not"}

RelationalOpType == {"Equal", "NotEqual", "LessThan", "LessOrEqual",
                     "GreaterThan", "GreaterOrEqual"}

ArithmeticOpType == {"Add", "Sub", "Mul", "Div", "Rem"}

BinaryOpType == ArithmeticOpType \cup RelationalOpType \cup {"And", "Or"}

-----------------------------------------------------------------------------
(* Expressions. *)

Constant(v)           == [k |-> "Constant", value |-> v]
Var(x)                == [k |-> "Var", id |-> x]
UnaryOperator(op, e)  == [k |-> "UnaryOperator", op |-> op, expr |-> e]
BinaryOperator(op, l, r) ==
  [k |-> "BinaryOperator", op |-> op, left |-> l, right |-> r]
Assignment(l, r)      == [k |-> "Assignment", left |-> l, right |-> r]
Conditional(c, t, f)  == [k |-> "Conditional", cond |-> c, true |-> t, false |-> f]

(* Statements, declarations, blocks and the function. *)

ReturnStmt(e)         == [k |-> "ReturnStmt", expr |-> e]
IfStatement(c, t, f)  == [k |-> "IfStatement", cond |-> c, then |-> t, else |-> f]
ExpressionStmt(e)     == [k |-> "ExpressionStmt", expr |-> e]
NullStmt              == [k |-> "NullStmt"]
CompoundStmt(b)       == [k |-> "CompoundStmt", block |-> b]
DeclarationVariable(x, e) == [k |-> "DeclarationVariable", id |-> x, init |-> e]
Block(items)          == [k |-> "Block", items |-> items]
Function(b)           == [k |-> "Function", block |-> b]

-----------------------------------------------------------------------------
ExprKind == {"Constant", "Var", "UnaryOperator", "BinaryOperator",
             "Assignment", "Conditional"}
StmtKind == {"ReturnStmt", "IfStatement", "ExpressionStmt", "NullStmt",
             "CompoundStmt"}

Expr  == {n \in Node : n.k \in ExprKind}
Stmt  == {n \in Node : n.k \in StmtKind}
Item  == Stmt \cup {n \in Node : n.k = "DeclarationVariable"}
Body  == {n \in Node : n.k = "Block"}

(* The functions a compilation can start from. *)
Program == {n \in Node : n.k = "Function"}

(***************************************************************************)
(* The shape of a node that the parser can build.  It accepts `return;',   *)
(* and it does not test the second and third operand of a conditional, so  *)
(* those three pointers may be null.                                       *)
(***************************************************************************)
ParsedShape(n) ==
  \/ n.k = "Constant" /\ n.value \in Int
  \/ n.k = "Var" /\ n.id \in Ident
  \/ n.k = "UnaryOperator" /\ n.op \in UnaryOpType /\ n.expr \in Expr
  \/ n.k = "BinaryOperator" /\ n.op \in BinaryOpType
     /\ n.left \in Expr /\ n.right \in Expr
  \/ n.k = "Assignment" /\ n.left \in Expr /\ n.right \in Expr
  \/ n.k = "Conditional" /\ n.cond \in Expr
     /\ (n.true = Nil \/ n.true \in Expr) /\ (n.false = Nil \/ n.false \in Expr)
  \/ n.k = "ReturnStmt" /\ (n.expr = Nil \/ n.expr \in Expr)
  \/ n.k = "IfStatement" /\ n.cond \in Expr
     /\ n.then \in Stmt /\ (n.else = Nil \/ n.else \in Stmt)
  \/ n.k = "ExpressionStmt" /\ n.expr \in Expr
  \/ n.k = "NullStmt"
  \/ n.k = "CompoundStmt" /\ n.block \in Body
  \/ n.k = "DeclarationVariable" /\ n.id \in Ident
     /\ (n.init = Nil \/ n.init \in Expr)
  \/ n.k = "Block" /\ n.items \in Seq(Item)
  \/ n.k = "Function" /\ n.block \in Body

(***************************************************************************)
(* What the analyser has checked of a node it accepts: no null pointer     *)
(* where an expression is needed, and only variables are assigned to.      *)
(***************************************************************************)
CheckedShape(n) ==
  /\ n.k = "Conditional" => n.true # Nil /\ n.false # Nil
  /\ n.k = "ReturnStmt" => n.expr # Nil
  /\ n.k = "Assignment" => n.left.k = "Var"

ASSUME NodeAssumption == \A n \in Node : ParsedShape(n)

=============================================================================
