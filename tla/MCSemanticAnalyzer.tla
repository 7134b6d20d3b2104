------------------------- MODULE MCSemanticAnalyzer -------------------------
(***************************************************************************)
(* The analyser on programs of two names in three blocks, nested and in    *)
(* sequence, that declare, redeclare, hide and use the names in every      *)
(* combination, with the trees of `return;' and `a ? b :' among them.      *)
(***************************************************************************)
EXTENDS MCAst, ScopeRules

MCIdent == {"a", "b"}

a == Var("a")
b == Var("b")
one == Constant(1)

Expression == {a, one, UnaryOperator("Not", b), BinaryOperator("Add", a, b),
               Assignment(a, b), Assignment(one, a), Assignment(b, Assignment(a, one)),
               BinaryOperator("Mul", Assignment(one, a), b),
               Conditional(a, one, b), Conditional(one, Nil, b), Conditional(one, b, Nil)}

Short == {a, Assignment(b, a)}

Simple == {ReturnStmt(e) : e \in Expression \cup {Nil}} \cup {ExpressionStmt(b), NullStmt}

ShortItem == DeclOver({"a", "b"}, {Nil, a}) \cup {ExpressionStmt(e) : e \in Short}

Inner == Blocks({<<>>} \cup Sequences1(ShortItem) \cup Sequences2(ShortItem, ShortItem))

Nested == {CompoundStmt(k) : k \in Inner}
          \cup IfOver({a}, {CompoundStmt(k) : k \in Blocks(Sequences1(ShortItem))},
                      {Nil, ExpressionStmt(b), CompoundStmt(Block(<<DeclarationVariable("b", a)>>))})

Deep == {CompoundStmt(k) : k \in Blocks(Sequences2({DeclarationVariable("a", Nil)}, Nested))}

MCProgram ==
  ProgramsOf(Sequences1(Simple)
             \cup Sequences2(ShortItem, Simple)
             \cup Sequences3(ShortItem, Nested, ShortItem)
             \cup Sequences2(DeclOver({"a"}, {Nil}), Deep)
             \cup Sequences3(DeclOver({"a"}, {one}), DeclOver({"b"}, {a}), Simple))

MCNode == NodesOf(MCProgram)
=============================================================================
