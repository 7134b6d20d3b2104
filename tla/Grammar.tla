------------------------------ MODULE Grammar -------------------------------
(***************************************************************************)
(* C's grammar for the language of dcc, as the reference for Parser: the   *)
(* trees of a sequence of tokens, found by splitting it at its weakest     *)
(* operator, or into statements in every possible way.                     *)
(***************************************************************************)
EXTENDS Parser, FiniteSets

LOCAL Tree == INSTANCE MCAst WITH Node <- {}

Type(w, p)  == w[p].token
Part(w, p, q) == SubSeq(w, p, q)
Opens(w, p)  == Type(w, p) \in {"OPEN_PARENTHESIS", "QUESTION_MARK_DELIMITER"}
Closes(w, p) == Type(w, p) \in {"CLOSE_PARENTHESIS", "COLON_DELIMITER"}

(* The tokens of w that no parenthesis encloses, and no pair of ? and :.   *)
Outer(w, types) ==
  {p \in DOMAIN w :
     /\ Type(w, p) \in types
     /\ Cardinality({q \in 1..p - 1 : Opens(w, q)}) = Cardinality({q \in 1..p : Closes(w, q)})}

Leftmost(S) == CHOOSE p \in S : \A q \in S : p <= q
Rightmost(S)  == CHOOSE p \in S : \A q \in S : p >= q

(* Binary operators, the weakest first.  A minus is one after an operand.  *)
Classes == <<{"OR"}, {"AND"}, {"EQUALITY", "NOT_EQUALITY"},
             {"LESSER", "LESSER_EQUAL", "GREATER", "GREATER_EQUAL"},
             {"ADDITION", "MINUS"}, {"MULTIPLICATION", "DIVISION", "REMAINDER"}>>

AfterOperand(w, p) == p > 1 /\ Type(w, p - 1) \in {"IDENTIFIER", "CONSTANT", "CLOSE_PARENTHESIS"}

BinaryAt(w, class) ==
  {p \in Outer(w, class) : Type(w, p) = "MINUS" => AfterOperand(w, p)}

(* The trees of an expression: one, or none if it is malformed. *)
RECURSIVE Exprs(_)
Exprs(w) ==
  LET assigns  == Outer(w, {"ASSIGNMENT"})
      marks    == Outer(w, {"QUESTION_MARK_DELIMITER"})
      colons   == {p \in Outer(w, {"COLON_DELIMITER"}) : p > Leftmost(marks)}
      weakest  == {k \in DOMAIN Classes : BinaryAt(w, Classes[k]) # {}}
      Before(p) == Exprs(Part(w, 1, p - 1))
      After(p)  == Exprs(Part(w, p + 1, Len(w)))
  IN  CASE w = <<>> -> {}
        [] assigns # {} ->
             LET p == Leftmost(assigns)
             IN  {Tree!Assignment(l, r) : l \in Before(p), r \in After(p)}
        [] assigns = {} /\ marks # {} ->
             IF colons = {} THEN {}
             ELSE {Tree!Conditional(c, t, f) : c \in Before(Leftmost(marks)),
                     t \in Exprs(Part(w, Leftmost(marks) + 1, Leftmost(colons) - 1)),
                     f \in After(Leftmost(colons))}
        [] assigns = {} /\ marks = {} /\ weakest # {} ->
             LET p == Rightmost(BinaryAt(w, Classes[Leftmost(weakest)]))
             IN  {Tree!BinaryOperator(binary_op[Type(w, p)], l, r) : l \in Before(p), r \in After(p)}
        [] OTHER ->
             CASE Type(w, 1) \in DOMAIN unary_op ->
                    {Tree!UnaryOperator(unary_op[Type(w, 1)], e) : e \in After(1)}
               [] Type(w, 1) = "OPEN_PARENTHESIS" /\ Type(w, Len(w)) = "CLOSE_PARENTHESIS" ->
                    Exprs(Part(w, 2, Len(w) - 1))
               [] Len(w) = 1 /\ Type(w, 1) = "IDENTIFIER" -> {Tree!Var(w[1].text)}
               [] Len(w) = 1 /\ Type(w, 1) = "CONSTANT" ->
                    IF w[1].text <= IntMax THEN {Tree!Constant(w[1].text)}
                    ELSE {Tree!Constant(i) : i \in Garbage}
               [] OTHER -> {}

(* A statement that an else may still follow. *)
RECURSIVE Open(_)
Open(s) == s.k = "IfStatement" /\ (s.else = Tree!Nil \/ Open(s.else))

Starts(w, types) == Len(w) >= Len(types) /\ \A k \in DOMAIN types : Type(w, k) = types[k]
EndsIn(w, t)     == w # <<>> /\ Type(w, Len(w)) = t

RECURSIVE Stmts(_), Items(_), Blocks(_)
Stmts(w) ==
  UNION {
    IF Starts(w, <<"RETURN_KEYWORD">>) /\ EndsIn(w, "SEMICOLON")
    THEN {Tree!ReturnStmt(e) : e \in IF Len(w) = 2 THEN {Tree!Nil} ELSE Exprs(Part(w, 2, Len(w) - 1))}
    ELSE {},
    IF Starts(w, <<"SEMICOLON">>) /\ Len(w) = 1 THEN {Tree!NullStmt} ELSE {},
    {Tree!CompoundStmt(b) : b \in Blocks(w)},
    IF EndsIn(w, "SEMICOLON")
    THEN {Tree!ExpressionStmt(e) : e \in Exprs(Part(w, 1, Len(w) - 1))} ELSE {},
    IF ~Starts(w, <<"IF_KEYWORD", "OPEN_PARENTHESIS">>) THEN {}
    ELSE UNION {
      LET cond == Exprs(Part(w, 3, p - 1))
      IN  {Tree!IfStatement(c, s, Tree!Nil) : c \in cond, s \in Stmts(Part(w, p + 1, Len(w)))}
          \cup UNION {
            {Tree!IfStatement(c, s, e) : c \in cond,
               s \in {t \in Stmts(Part(w, p + 1, q - 1)) : ~Open(t)},
               e \in Stmts(Part(w, q + 1, Len(w)))}
            : q \in {q \in p + 1..Len(w) : Type(w, q) = "ELSE_KEYWORD"}}
      : p \in {p \in 3..Len(w) : Type(w, p) = "CLOSE_PARENTHESIS"}}}

Declarations(w) ==
  IF ~(Starts(w, <<"INT_KEYWORD", "IDENTIFIER">>) /\ EndsIn(w, "SEMICOLON")) THEN {}
  ELSE {Tree!DeclarationVariable(w[2].text, e) :
          e \in IF Len(w) = 3 THEN {Tree!Nil}
                ELSE IF Type(w, 3) = "ASSIGNMENT" THEN Exprs(Part(w, 4, Len(w) - 1)) ELSE {}}

(* The sequences of items: the first one ends in some place. *)
Items(w) ==
  IF w = <<>> THEN {<<>>}
  ELSE UNION {
    {<<i>> \o rest : i \in Stmts(Part(w, 1, p)) \cup Declarations(Part(w, 1, p)),
                     rest \in Items(Part(w, p + 1, Len(w)))}
    : p \in {p \in DOMAIN w : Type(w, p) \in {"SEMICOLON", "CLOSE_BRACE"}}}

Blocks(w) ==
  IF Len(w) >= 2 /\ Starts(w, <<"OPEN_BRACE">>) /\ EndsIn(w, "CLOSE_BRACE")
  THEN {Tree!Block(items) : items \in Items(Part(w, 2, Len(w) - 1))}
  ELSE {}

Functions(w) ==
  IF Starts(w, <<"INT_KEYWORD", "IDENTIFIER", "OPEN_PARENTHESIS", "VOID_KEYWORD",
                 "CLOSE_PARENTHESIS">>) /\ EndsIn(w, "ENDOFFILE")
  THEN {Tree!Function(b) : b \in Blocks(Part(w, 6, Len(w) - 1))}
  ELSE {}

-----------------------------------------------------------------------------
Result == Head(values)

(* A conditional whose second or third operand the parser found missing. *)
LacksOperand(n) == n.k = "Conditional" /\ Tree!Nil \in {n.true, n.false}

(* The parser accepts exactly the programs of the grammar, and its tree is *)
(* the one of the grammar: operators take the operands that precedence and *)
(* associativity give them, an else belongs to the nearest if.  Excepted   *)
(* is a program in which a conditional lacks an operand.                   *)
TreeIsRight ==
  /\ verdict = "accepted" =>
       Result \in Functions(tokens) \/ \E n \in Tree!Under(Result) : LacksOperand(n)
  /\ verdict = "syntax error" => Functions(tokens) = {}

(* Every tree has the shape that the phases behind the parser assume.      *)
Shape(N) == INSTANCE Ast WITH Node <- N

NodesHaveShape ==
  verdict = "accepted" =>
    LET N == Tree!Under(Result) IN \A n \in N : Shape(N)!ParsedShape(n)
=============================================================================
