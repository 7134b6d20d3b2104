------------------------------- MODULE MCAst -------------------------------
(***************************************************************************)
(* Building blocks for the sets of programs that the MC modules check.     *)
(***************************************************************************)
EXTENDS Ast

(* Every expression with one more operator over the operands in S. *)
UnaryOver(ops, S)  == {UnaryOperator(op, e) : op \in ops, e \in S}
BinaryOver(ops, S, R) == {BinaryOperator(op, l, r) : op \in ops, l \in S, r \in R}
AssignOver(X, S)   == {Assignment(Var(x), e) : x \in X, e \in S}
CondOver(C, S, R)  == {Conditional(c, t, f) : c \in C, t \in S, f \in R}

(* Statements over conditions C, expressions S and statements B. *)
SimpleOver(S)  == {ReturnStmt(e) : e \in S} \cup {ExpressionStmt(e) : e \in S}
                  \cup {NullStmt}
IfOver(C, B, D) == {IfStatement(c, t, f) : c \in C, t \in B, f \in D}
DeclOver(X, S) == {DeclarationVariable(x, e) : x \in X, e \in S}

Sequences1(S)       == {<<s>> : s \in S}
Sequences2(S, R)    == {<<s, r>> : s \in S, r \in R}
Sequences3(S, R, Q) == {<<s, r, q>> : s \in S, r \in R, q \in Q}

Blocks(Items)    == {Block(items) : items \in Items}
ProgramsOf(Items) == {Function(b) : b \in Blocks(Items)}

(* The nodes of a set of programs. *)
RECURSIVE Under(_)
Under(n) ==
  {n} \cup
  CASE n.k \in {"UnaryOperator", "ExpressionStmt"} -> Under(n.expr)
    [] n.k = "ReturnStmt" -> IF n.expr = Nil THEN {} ELSE Under(n.expr)
    [] n.k \in {"BinaryOperator", "Assignment"} -> Under(n.left) \cup Under(n.right)
    [] n.k = "Conditional" -> UNION {Under(m) : m \in {n.cond, n.true, n.false} \ {Nil}}
    [] n.k = "IfStatement" -> UNION {Under(m) : m \in {n.cond, n.then, n.else} \ {Nil}}
    [] n.k \in {"CompoundStmt", "Function"} -> Under(n.block)
    [] n.k = "DeclarationVariable" -> IF n.init = Nil THEN {} ELSE Under(n.init)
    [] n.k = "Block" -> UNION {Under(n.items[i]) : i \in DOMAIN n.items}
    [] OTHER -> {}

NodesOf(P) == UNION {Under(p) : p \in P}
=============================================================================
