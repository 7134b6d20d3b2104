-------------------------- MODULE SemanticAnalyzer --------------------------
(***************************************************************************)
(* dcc::SemanticAnalyzer (src/semantic.cpp, include/libdcc/semantic.hpp):  *)
(* the visitor that resolves variables against a stack of scopes and       *)
(* rejects a program by throwing.                                          *)
(*                                                                         *)
(* The tree of resolved nodes that it builds in _result_expr,              *)
(* _result_stmt and _result_block is dropped by visit(Function) and is not *)
(* modelled; what is left of the analysis is its verdict and the unique    *)
(* names it gave.  As in TackyGen, todo is the C++ call stack.             *)
(***************************************************************************)
EXTENDS Ast, FiniteSets

VARIABLES
  ast,       (* the Function of the program                                  *)
  todo,      (* what the open visit methods have still to do, next first     *)
  scopes,    (* _variable_maps, innermost first: name to unique name         *)
  counter,   (* _counter                                                     *)
  verdict    (* how the analysis ends                                        *)

vars == <<ast, todo, scopes, counter, verdict>>

Verdict == {"running", "accepted",
            "Variable already declared", "Undeclared variable", "Invalid lvalue",
            "null dereference"}

(* Agenda: accept a node, resolve a pointer (which may be null), close a   *)
(* scope.                                                                  *)
Resolve(p) == [do |-> "resolve", node |-> p]
Close      == [do |-> "close"]

Op == [do : {"resolve"}, node : Expr \cup Item \cup Body \cup Program \cup {Nil}]
      \cup [do : {"close"}]

(* A scope gives the number n of the unique name "x.n" to every name x that *)
(* it declares.                                                            *)
NotDeclared == -1
EmptyScope  == [x \in Ident |-> NotDeclared]
Declares(scope, x) == scope[x] # NotDeclared

-----------------------------------------------------------------------------
Init ==
  /\ ast \in Program
  /\ todo = <<Resolve(ast), Close>>
  /\ scopes = <<EmptyScope>>
  /\ counter = 0
  /\ verdict = "running"

Working(what) == verdict = "running" /\ todo # <<>> /\ Head(todo).do = what
Visiting(kind) == Working("resolve") /\ Head(todo).node.k = kind

Run(body) == todo' = body \o Tail(todo)
Continue(body) == Run(body) /\ UNCHANGED <<ast, scopes, counter, verdict>>

(* An exception leaves the analyser; so does the signal of a null pointer. *)
Throw(v) == verdict' = v /\ UNCHANGED <<ast, todo, scopes, counter>>

-----------------------------------------------------------------------------
(* The virtual call in resolve, on a null pointer. *)
ResolveNull == Visiting("Nil") /\ Throw("null dereference")

VisitConstant == Visiting("Constant") /\ Continue(<<>>)

(* lookup_variable *)
Declared(x) == \E i \in DOMAIN scopes : Declares(scopes[i], x)

VisitVar ==
  /\ Visiting("Var")
  /\ IF Declared(Head(todo).node.id)
     THEN Continue(<<>>)
     ELSE Throw("Undeclared variable")

(* Mutant: the operator is resolved again in place of its operand. *)
VisitUnaryOperator_Itself ==
  Visiting("UnaryOperator") /\ Continue(<<Resolve(Head(todo).node)>>)

VisitUnaryOperator ==
  Visiting("UnaryOperator") /\ Continue(<<Resolve(Head(todo).node.expr)>>)

(* The operands are resolved by the arguments of one make_unique call, in  *)
(* whatever order the compiler of dcc evaluates arguments.                 *)
VisitBinaryOperator ==
  /\ Visiting("BinaryOperator")
  /\ LET l == Resolve(Head(todo).node.left)
         r == Resolve(Head(todo).node.right)
     IN  Continue(<<l, r>>) \/ Continue(<<r, l>>)

VisitConditional ==
  /\ Visiting("Conditional")
  /\ LET n == Head(todo).node
         operands == <<Resolve(n.cond), Resolve(n.true), Resolve(n.false)>>
     IN  \E order \in {<<1, 2, 3>>, <<1, 3, 2>>, <<2, 1, 3>>,
                       <<2, 3, 1>>, <<3, 1, 2>>, <<3, 2, 1>>} :
           Continue([i \in 1..3 |-> operands[order[i]]])

(* Mutant: the left side is not tested. *)
VisitAssignment_AnyLeft ==
  /\ Visiting("Assignment")
  /\ Continue(<<Resolve(Head(todo).node.left), Resolve(Head(todo).node.right)>>)

VisitAssignment ==
  /\ Visiting("Assignment")
  /\ LET n == Head(todo).node
     IN  IF n.left.k = "Var"
         THEN Continue(<<Resolve(n.left), Resolve(n.right)>>)
         ELSE Throw("Invalid lvalue")

(* Mutants: the counter counts down; it stays; a duplicate is looked for   *)
(* in every open scope.                                                    *)
DeclareOf(x, init, duplicate, step) ==
  IF duplicate
  THEN Throw("Variable already declared")
  ELSE /\ scopes' = [scopes EXCEPT ![1][x] = counter]
       /\ counter' = counter + step
       /\ Run(IF init = Nil THEN <<>> ELSE <<Resolve(init)>>)
       /\ UNCHANGED <<ast, verdict>>

VisitDeclarationVariable_Down ==
  /\ Visiting("DeclarationVariable")
  /\ LET n == Head(todo).node
     IN  DeclareOf(n.id, n.init, Declares(Head(scopes), n.id), -1)

VisitDeclarationVariable_SameNumber ==
  /\ Visiting("DeclarationVariable")
  /\ LET n == Head(todo).node
     IN  DeclareOf(n.id, n.init, Declares(Head(scopes), n.id), 0)

VisitDeclarationVariable_AnyScope ==
  /\ Visiting("DeclarationVariable")
  /\ LET n == Head(todo).node
     IN  DeclareOf(n.id, n.init, Declared(n.id), 1)

VisitDeclarationVariable ==
  /\ Visiting("DeclarationVariable")
  /\ LET n == Head(todo).node
     IN  IF Declares(Head(scopes), n.id)
         THEN Throw("Variable already declared")
         ELSE /\ scopes' = [scopes EXCEPT ![1][n.id] = counter]
              /\ counter' = counter + 1
              /\ Run(IF n.init = Nil THEN <<>> ELSE <<Resolve(n.init)>>)
              /\ UNCHANGED <<ast, verdict>>

(* Statements. *)
VisitReturnOrExpressionStmt ==
  /\ Visiting("ReturnStmt") \/ Visiting("ExpressionStmt")
  /\ Continue(<<Resolve(Head(todo).node.expr)>>)

VisitNullStmt == Visiting("NullStmt") /\ Continue(<<>>)

VisitCompoundStmt ==
  Visiting("CompoundStmt") /\ Continue(<<Resolve(Head(todo).node.block)>>)

VisitIfStatement ==
  /\ Visiting("IfStatement")
  /\ LET n == Head(todo).node
     IN  Continue(<<Resolve(n.cond), Resolve(n.then)>>
                  \o (IF n.else = Nil THEN <<>> ELSE <<Resolve(n.else)>>))

VisitFunction ==
  Visiting("Function") /\ Continue(<<Resolve(Head(todo).node.block)>>)

(* Mutant: a block that closes no scope. *)
VisitBlock_NeverClosed ==
  /\ Visiting("Block")
  /\ LET items == Head(todo).node.items
     IN  Run([i \in 1..Len(items) |-> Resolve(items[i])])
  /\ scopes' = <<EmptyScope>> \o scopes
  /\ UNCHANGED <<ast, counter, verdict>>

VisitBlock ==
  /\ Visiting("Block")
  /\ LET items == Head(todo).node.items
     IN  Run([i \in 1..Len(items) |-> Resolve(items[i])] \o <<Close>>)
  /\ scopes' = <<EmptyScope>> \o scopes
  /\ UNCHANGED <<ast, counter, verdict>>

(* _variable_maps.pop_back(), at the end of a block and of the program. *)
CloseScope ==
  /\ Working("close")
  /\ scopes' = Tail(scopes)
  /\ Run(<<>>)
  /\ UNCHANGED <<ast, counter, verdict>>

Accept ==
  /\ verdict = "running"
  /\ todo = <<>>
  /\ verdict' = "accepted"
  /\ UNCHANGED <<ast, todo, scopes, counter>>

Next ==
  \/ ResolveNull \/ VisitConstant \/ VisitVar \/ VisitUnaryOperator
  \/ VisitBinaryOperator \/ VisitConditional \/ VisitAssignment
  \/ VisitDeclarationVariable \/ VisitReturnOrExpressionStmt \/ VisitNullStmt
  \/ VisitCompoundStmt \/ VisitIfStatement \/ VisitFunction \/ VisitBlock
  \/ CloseScope \/ Accept

Spec == Init /\ [][Next]_vars

FairSpec == Spec /\ WF_vars(Next)

-----------------------------------------------------------------------------
TypeOK ==
  /\ ast \in Program
  /\ todo \in Seq(Op)
  /\ scopes \in Seq([Ident -> Nat \cup {NotDeclared}])
  /\ counter \in Nat
  /\ verdict \in Verdict

(* A scope is open for the program and for every block whose items are     *)
(* still visited: each push_back meets its pop_back, and back() is never   *)
(* called on an empty stack.                                               *)
ScopesBalanced ==
  /\ Len(scopes) = Cardinality({i \in DOMAIN todo : todo[i].do = "close"})
  /\ Visiting("DeclarationVariable") => scopes # <<>>

(* A unique name stands for one declaration: no two visible declarations   *)
(* share one, in the same scope or in two.                                 *)
UniqueNames ==
  \A i, j \in DOMAIN scopes : \A x, y \in Ident :
    Declares(scopes[i], x) /\ scopes[i][x] = scopes[j][y] => i = j /\ x = y

(* The analysis ends: with a verdict on every tree. *)
Decides == <>(verdict # "running")

(* The analysis of a tree that the parser built ends with acceptance or    *)
(* with a diagnosis.                                                       *)
NeverCrashes == verdict # "null dereference"
=============================================================================
