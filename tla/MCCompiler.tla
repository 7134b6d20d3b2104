----------------------------- MODULE MCCompiler -----------------------------
(***************************************************************************)
(* The whole compiler, and the programs it makes run on 4-bit words: every *)
(* operator on boundary values, side effects under the short-circuit and   *)
(* conditional operators, returns in the branches of if, and blocks that   *)
(* reuse or hide a name.                                                   *)
(***************************************************************************)
EXTENDS MCAst, ExitStatus

MCIdent == {"a", "b"}

a == Var("a")
b == Var("b")
c(n) == Constant(n)

Neg(e) == UnaryOperator("Negate", e)
MinimumExpr == BinaryOperator("Sub", Neg(c(MaxInt)), c(1))

Let(x, e)  == DeclarationVariable(x, e)
Do(e)      == ExpressionStmt(e)
Set(x, n)  == Assignment(Var(x), c(n))
Return_(e) == ReturnStmt(e)
Scope(items) == CompoundStmt(Block(items))

(* Every operator on values at the ends of the range and around 0. *)
Edge == {MinimumExpr, Neg(c(1)), c(0), c(3), c(MaxInt)}

OperatorPrograms ==
  {<<Let("a", l), Return_(BinaryOperator(op, a, r))>> :
     op \in BinaryOpType, l \in Edge, r \in Edge}
  \cup {<<Let("a", l), Return_(UnaryOperator(op, a))>> : op \in UnaryOpType, l \in Edge}
  \cup {<<Let("a", c(2)), Return_(BinaryOperator(op, a, a))>> : op \in BinaryOpType}
  \cup {<<Let("a", c(3)), Return_(BinaryOperator(op, l, r))>> :
          op \in BinaryOpType,
          l \in {a, BinaryOperator("Sub", a, c(1))}, r \in {Neg(a), UnaryOperator("Not", a)}}

(* Expressions in which it matters which operands are evaluated. *)
Effect == {a, Set("a", 0), Set("b", 2),
           Assignment(b, BinaryOperator("Add", a, c(1)))}

Choice == {BinaryOperator(op, l, r) : op \in {"And", "Or", "Add"}, l \in Effect, r \in Effect}
          \cup {Conditional(l, r, e) : l \in {a, Set("a", 0)}, r \in Effect, e \in {b, Set("a", 3)}}

EffectPrograms ==
  {<<Let("a", c(1)), Let("b", c(0)), Let_, Return_(BinaryOperator("Sub", a, b))>> :
     Let_ \in {Do(e) : e \in Choice}}
  \cup {<<Let("a", c(1)), Let("b", c(0)), Return_(e)>> : e \in Choice}

(* Statements. *)
Branch_ == {Return_(a), Do(Set("a", 2)), NullStmt, Scope(<<Do(Set("b", 3))>>)}

ControlPrograms ==
  {<<Let("a", c(1)), Let("b", c(0)), IfStatement(e, t, f), Return_(BinaryOperator("Add", a, b))>> :
     e \in {a, b}, t \in Branch_, f \in Branch_ \cup {Nil}}
  \cup {<<Let("a", c(1))>>, <<>>, <<Let("a", Nil), Return_(a)>>,
        <<Let("a", c(1)), IfStatement(a, IfStatement(Set("a", 0), Return_(c(1)), Return_(c(2))), Nil)>>}

(* Blocks that follow each other, and blocks that hide a name. *)
ScopePrograms ==
  {<<Scope(<<Let("a", c(1))>>), Let("a", c(2)), Return_(a)>>,
   <<Let("b", c(0)), Scope(<<Let("a", c(1)), Do(Assignment(b, a))>>),
     Scope(<<Let("a", c(2)), Do(Assignment(b, BinaryOperator("Add", a, b)))>>), Return_(b)>>,
   <<Let("a", c(1)), Scope(<<Do(Set("a", 2))>>), Return_(a)>>}

HidingPrograms ==
  {<<Let("a", c(1)), Scope(<<Let("a", c(2))>>), Return_(a)>>,
   <<Let("a", c(1)), Scope(<<Do(Set("a", 3)), Let("a", c(2))>>), Return_(a)>>}

RejectedPrograms ==
  {<<Return_(a)>>, <<Return_(Nil)>>, <<Let("a", Nil), Let("a", Nil)>>,
   <<Let("a", c(1)), Do(Assignment(c(1), a))>>, <<Do(Conditional(c(1), Nil, c(1)))>>}

MCProgram == ProgramsOf(OperatorPrograms \cup EffectPrograms \cup ControlPrograms
                        \cup ScopePrograms \cup HidingPrograms \cup RejectedPrograms)

MCNode == NodesOf(MCProgram)

(* Cells and registers start with bits set that no result leaves there. *)
MCGarbage == {-6}
MCGarbageInRegs == {[r \in RegASM |-> -6]}
=============================================================================
