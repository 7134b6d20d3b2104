---------------------------- MODULE MCTackyGen ----------------------------
(***************************************************************************)
(* TackyGen on every expression that nests two operators of the kinds that *)
(* make labels or temporaries, and on every pair of statements over        *)
(* one-operator expressions, with if within if and after if.               *)
(***************************************************************************)
EXTENDS MCAst, TackyGen

a == Var("a")
one == Constant(1)

(* One expression of every class over leaves. *)
Depth1 == {a, one}
          \cup UnaryOver({"Not"}, {a}) \cup BinaryOver({"And", "Or", "Sub"}, {a}, {one})
          \cup AssignOver({"a"}, {one}) \cup CondOver({a}, {one}, {a})

Depth2 == Depth1
          \cup UnaryOver({"Not"}, Depth1)
          \cup BinaryOver({"And", "Or", "Sub"}, Depth1, Depth1)
          \cup AssignOver({"a"}, Depth1)
          \cup CondOver({a}, Depth1, Depth1) \cup CondOver(Depth1, {a}, {one})

Simple == SimpleOver({BinaryOperator("And", a, one), Assignment(a, one)})
Inner  == Blocks({<<>>} \cup Sequences1(Simple))
Compound == {CompoundStmt(b) : b \in Inner}
Statement == Simple \cup Compound
             \cup IfOver({BinaryOperator("Or", a, one)}, Simple \cup Compound,
                         Simple \cup Compound \cup {Nil})

(* Statements if within if and after if. *)
Short == IfOver({a}, {NullStmt, ReturnStmt(one)}, {Nil, NullStmt})
Chained == IfOver({a}, Short, Short \cup {Nil})

Decls == DeclOver({"a"}, {one, Nil})

MCProgram ==
  ProgramsOf(Sequences2(Decls, {ReturnStmt(e) : e \in Depth2})
             \cup Sequences2(Decls, Statement)
             \cup Sequences2(Statement \ Compound, Simple)
             \cup Sequences1(Chained) \cup Sequences2(Short, Short))

MCIdent == {"a"}

MCNode == NodesOf(MCProgram)
=============================================================================
