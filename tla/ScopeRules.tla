----------------------------- MODULE ScopeRules -----------------------------
(***************************************************************************)
(* C's rules on declarations, stated on the text of the program and        *)
(* without a stack, as the reference for SemanticAnalyzer: a use of x is   *)
(* bound if a declaration of x precedes it in a block that is still open;  *)
(* a declaration is a duplicate if the same block has declared the name    *)
(* already.                                                                *)
(***************************************************************************)
EXTENDS SemanticAnalyzer

Ev(what, x) == [ev |-> what, id |-> x]
Mark(what)  == Ev(what, "")

(* The text of a tree: declarations, uses and braces in source order. *)
RECURSIVE Text(_), TextOfItems(_)
Text(n) ==
  CASE n.k = "Nil"                 -> <<Mark("missing")>>
    [] n.k = "Constant"            -> <<>>
    [] n.k = "NullStmt"            -> <<>>
    [] n.k = "Var"                 -> <<Ev("use", n.id)>>
    [] n.k = "UnaryOperator"       -> Text(n.expr)
    [] n.k = "BinaryOperator"      -> Text(n.left) \o Text(n.right)
    [] n.k = "Assignment"          ->
         (IF n.left.k = "Var" THEN <<>> ELSE <<Mark("badleft")>>)
         \o Text(n.left) \o Text(n.right)
    [] n.k = "Conditional"         -> Text(n.cond) \o Text(n.true) \o Text(n.false)
    [] n.k = "ReturnStmt"          -> Text(n.expr)
    [] n.k = "ExpressionStmt"      -> Text(n.expr)
    [] n.k = "CompoundStmt"        -> Text(n.block)
    [] n.k = "IfStatement"         ->
         Text(n.cond) \o Text(n.then) \o (IF n.else = Nil THEN <<>> ELSE Text(n.else))
    [] n.k = "DeclarationVariable" ->
         <<Ev("declare", n.id)>> \o (IF n.init = Nil THEN <<>> ELSE Text(n.init))
    [] n.k = "Block"               -> <<Mark("{")>> \o TextOfItems(n.items) \o <<Mark("}")>>
    [] n.k = "Function"            -> Text(n.block)

TextOfItems(items) ==
  IF items = <<>> THEN <<>> ELSE Text(Head(items)) \o TextOfItems(Tail(items))

Depth(t, p) == Cardinality({i \in 1..p : t[i] = Mark("{")})
               - Cardinality({i \in 1..p : t[i] = Mark("}")})

(* The block that q is in is still open at p. *)
OpenUntil(t, q, p) == \A i \in q..p : Depth(t, i) >= Depth(t, q)

Binds(t, q, p) == q < p /\ t[q] = Ev("declare", t[p].id) /\ OpenUntil(t, q, p)

Undeclared(t, p) == t[p].ev = "use" /\ ~\E q \in DOMAIN t : Binds(t, q, p)

Duplicate(t, p) ==
  /\ t[p].ev = "declare"
  /\ \E q \in DOMAIN t : Binds(t, q, p) /\ Depth(t, q) = Depth(t, p)

(* The errors of a program. *)
Errors(n) ==
  LET t == Text(n)
      Some(P(_)) == \E p \in DOMAIN t : P(p)
  IN  {e \in Verdict :
         \/ e = "Undeclared variable" /\ Some(LAMBDA p : Undeclared(t, p))
         \/ e = "Variable already declared" /\ Some(LAMBDA p : Duplicate(t, p))
         \/ e = "Invalid lvalue" /\ Some(LAMBDA p : t[p].ev = "badleft")
         \/ e = "null dereference" /\ Some(LAMBDA p : t[p].ev = "missing")}

(* The analyser accepts exactly the programs without an error, and blames  *)
(* a program only for an error that it has, in whatever order the operands *)
(* of an expression are resolved.                                          *)
VerdictIsRight ==
  /\ verdict = "accepted" => Errors(ast) = {}
  /\ verdict \notin {"running", "accepted"} => verdict \in Errors(ast)
=============================================================================
