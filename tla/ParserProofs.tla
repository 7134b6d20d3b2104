----------------------------- MODULE ParserProofs -----------------------------
(***************************************************************************)
(* Theorems about Parser, for every set of token sequences: no method      *)
(* reads past the last token, and every tree has the shape that the phases *)
(* behind the parser assume.                                               *)
(***************************************************************************)
EXTENDS Parser, SequenceTheorems, TLAPS

-----------------------------------------------------------------------------
(***************************************************************************)
(* The contracts of the methods.  What is on the stack of values is of a   *)
(* class, relative to a set of nodes that holds the nodes made so far; the *)
(* agenda takes the classes that are there, step by step, to the one class *)
(* of the result.                                                          *)
(***************************************************************************)
Tree(N) == INSTANCE Ast WITH Node <- N

(* Every node in N has the shape that the parser may give it. *)
Shaped(N) == \A n \in N : Tree(N)!ParsedShape(n)

Class == {"Expr", "MaybeExpr", "Stmt", "MaybeStmt", "Item", "Items", "Body", "Function"}
Stack == Seq(Class)   (* the class of the last value is the last one         *)

Is(v, c, N) ==
  CASE c = "Expr"      -> v \in Tree(N)!Expr
    [] c = "MaybeExpr" -> v \in Tree(N)!Expr \/ v = Nil
    [] c = "Stmt"      -> v \in Tree(N)!Stmt
    [] c = "MaybeStmt" -> v \in Tree(N)!Stmt \/ v = Nil
    [] c = "Item"      -> v \in Tree(N)!Item
    [] c = "Items"     -> v \in Seq(Tree(N)!Item)
    [] c = "Body"      -> v \in Tree(N)!Body
    [] c = "Function"  -> v \in Tree(N)!Program

(* What is of class c is of class d. *)
Below(c, d) ==
  c = d \/ <<c, d>> \in {<<"Expr", "MaybeExpr">>, <<"Stmt", "MaybeStmt">>, <<"Stmt", "Item">>}

(* The methods that return what the caller pushes, and those that go on    *)
(* with what is there.                                                     *)
Returns ==
  [function |-> "Function", block |-> "Body", item |-> "Item", declarator |-> "Item",
   initializer |-> "Item", statement |-> "Stmt", return |-> "Stmt",
   factor |-> "MaybeExpr", parse_expr |-> "MaybeExpr"]

(* The classes of one, two and three operands. *)
Takes1 == [Function |-> "Body", Block |-> "Items", ReturnStmt |-> "MaybeExpr",
           CompoundStmt |-> "Body", ExpressionStmt |-> "Expr",
           DeclarationVariable |-> "MaybeExpr", UnaryOperator |-> "Expr"]
Takes3 == [IfStatement |-> <<"Expr", "Stmt", "MaybeStmt">>,
           Conditional |-> <<"Expr", "MaybeExpr", "MaybeExpr">>]
Makes ==
  [Function |-> "Function", Block |-> "Body", ReturnStmt |-> "Stmt", CompoundStmt |-> "Stmt",
   ExpressionStmt |-> "Stmt", IfStatement |-> "Stmt", DeclarationVariable |-> "Item",
   UnaryOperator |-> "MaybeExpr", BinaryOperator |-> "MaybeExpr", Assignment |-> "MaybeExpr",
   Conditional |-> "MaybeExpr"]

Op ==
  [do : DOMAIN Returns \ {"parse_expr", "initializer"}]
  \cup [do : {"items", "push_back", "else", "required"}]
  \cup [do : {"consume"}, token : Plain \cup {"IDENTIFIER", "CONSTANT", "ENDOFFILE"}]
  \cup [do : {"parse_expr", "climb"}, min_prec : Int]
  \cup [do : {"initializer"}, id : Ident]
  \cup [do : {"make"}, class : DOMAIN Makes \ {"DeclarationVariable", "UnaryOperator",
                                              "BinaryOperator"}]
  \cup [do : {"make"}, class : {"DeclarationVariable"}, op : Ident]
  \cup [do : {"make"}, class : {"UnaryOperator"}, op : Tree({})!UnaryOpType]
  \cup [do : {"make"}, class : {"BinaryOperator"}, op : Tree({})!BinaryOpType]

(* Of the classes g, the step takes those above r and returns class d.     *)
Consumes(op, g, r, d) ==
  \/ op.do \in DOMAIN Returns /\ g = r /\ d = Returns[op.do]
  \/ op.do = "items" /\ g = Append(r, "Items") /\ d = "Body"
  \/ op.do = "push_back" /\ g = Append(Append(r, "Items"), "Item") /\ d = "Items"
  \/ op.do = "else" /\ g = Append(Append(r, "Expr"), "Stmt") /\ d = "Stmt"
  \/ op.do = "climb" /\ g = Append(r, "MaybeExpr") /\ d = "MaybeExpr"
  \/ op.do = "required" /\ g = Append(r, "MaybeExpr") /\ d = "Expr"
  \/ op.do = "required" /\ g = Append(r, "Stmt") /\ d = "Stmt"
  \/ op.do = "make" /\ op.class \in DOMAIN Takes1
     /\ g = Append(r, Takes1[op.class]) /\ d = Makes[op.class]
  \/ op.do = "make" /\ op.class \in {"BinaryOperator", "Assignment"}
     /\ g = Append(Append(r, "Expr"), "Expr") /\ d = Makes[op.class]
  \/ op.do = "make" /\ op.class \in DOMAIN Takes3
     /\ g = Append(Append(Append(r, Takes3[op.class][1]), Takes3[op.class][2]),
                   Takes3[op.class][3])
     /\ d = Makes[op.class]

Step(op, g, h) ==
  \/ op.do = "consume" /\ h = g
  \/ op.do # "consume" /\ \E r \in Stack, c, d \in Class :
       Consumes(op, g, r, d) /\ Below(d, c) /\ h = Append(r, c)

(* The agenda takes the classes h[1] to the class of a function. *)
Contracts(agenda, h) ==
  /\ h \in [1..Len(agenda) + 1 -> Stack]
  /\ h[Len(agenda) + 1] = <<"Function">>
  /\ \A k \in 1..Len(agenda) : Step(agenda[k], h[k], h[k + 1])

(* The values are of these classes. *)
Thing(N) == N \cup {Nil} \cup Seq(N)
Matches(stack, g, N) ==
  /\ stack \in Seq(Thing(N)) /\ Len(stack) = Len(g)
  /\ \A i \in 1..Len(g) : Is(stack[Len(g) + 1 - i], g[i], N)

Reading ==
  /\ tokens \in Inputs
  /\ cur \in 1..Len(tokens)

(* The nodes made so far, and the agenda. *)
Building ==
  \E N, h : Shaped(N) /\ Contracts(todo, h) /\ Matches(values, h[1], N)

PInv ==
  /\ Reading
  /\ todo \in Seq(Op)
  /\ Building
  /\ verdict \in {"parsing", "accepted", "syntax error"}
  /\ verdict = "accepted" => todo = <<>>

-----------------------------------------------------------------------------
(* Nodes, classes and values.                                              *)

LEMMA ShapeGrows ==
  ASSUME NEW N, NEW M, N \subseteq M, NEW n, Tree(N)!ParsedShape(n)
  PROVE  Tree(M)!ParsedShape(n)
<1>1. /\ Tree(N)!Expr \subseteq Tree(M)!Expr /\ Tree(N)!Stmt \subseteq Tree(M)!Stmt
      /\ Tree(N)!Item \subseteq Tree(M)!Item /\ Tree(N)!Body \subseteq Tree(M)!Body
  BY DEF Tree!Expr, Tree!Stmt, Tree!Item, Tree!Body, Tree!ExprKind, Tree!StmtKind
<1>2. \A s \in Seq(Tree(N)!Item) : s \in Seq(Tree(M)!Item)
  BY <1>1
<1> QED
  BY <1>1, <1>2
  DEF Tree!ParsedShape, Tree!UnaryOpType, Tree!BinaryOpType, Tree!ArithmeticOpType,
      Tree!RelationalOpType, Tree!Nil

LEMMA ShapedGrows ==
  ASSUME NEW N, Shaped(N), NEW v, Tree(N)!ParsedShape(v)
  PROVE  Shaped(N \cup {v})
BY ShapeGrows DEF Shaped

LEMMA IsGrows ==
  ASSUME NEW N, NEW M, N \subseteq M, NEW c \in Class, NEW v, Is(v, c, N)
  PROVE  Is(v, c, M)
<1>1. /\ Tree(N)!Expr \subseteq Tree(M)!Expr /\ Tree(N)!Stmt \subseteq Tree(M)!Stmt
      /\ Tree(N)!Item \subseteq Tree(M)!Item /\ Tree(N)!Body \subseteq Tree(M)!Body
      /\ Tree(N)!Program \subseteq Tree(M)!Program
  BY DEF Tree!Expr, Tree!Stmt, Tree!Item, Tree!Body, Tree!Program, Tree!ExprKind,
         Tree!StmtKind
<1>2. \A s \in Seq(Tree(N)!Item) : s \in Seq(Tree(M)!Item)
  BY <1>1
<1> QED
  BY <1>1, <1>2 DEF Is, Class

LEMMA IsThing ==
  ASSUME NEW N, NEW c \in Class, NEW v, Is(v, c, N)
  PROVE  v \in Thing(N)
<1>1. /\ Tree(N)!Expr \subseteq N /\ Tree(N)!Stmt \subseteq N /\ Tree(N)!Item \subseteq N
      /\ Tree(N)!Body \subseteq N /\ Tree(N)!Program \subseteq N
  BY DEF Tree!Expr, Tree!Stmt, Tree!Item, Tree!Body, Tree!Program
<1>2. \A s \in Seq(Tree(N)!Item) : s \in Seq(N)
  BY <1>1
<1> QED
  BY <1>1, <1>2 DEF Is, Class, Thing

LEMMA IsBelow ==
  ASSUME NEW N, NEW c \in Class, NEW d \in Class, Below(c, d), NEW v, Is(v, c, N)
  PROVE  Is(v, d, N)
<1>1. Tree(N)!Stmt \subseteq Tree(N)!Item
  BY DEF Tree!Item
<1> QED
  BY <1>1 DEF Is, Class, Below

LEMMA MatchesGrow ==
  ASSUME NEW N, NEW M, N \subseteq M, NEW g \in Stack, NEW stack, Matches(stack, g, N)
  PROVE  Matches(stack, g, M)
<1>1. Thing(N) \subseteq Thing(M)
  <2>1. \A s \in Seq(N) : s \in Seq(M)
    OBVIOUS
  <2> QED
    BY <2>1 DEF Thing
<1>2. stack \in Seq(Thing(M))
  BY <1>1 DEF Matches
<1>3. \A i \in 1..Len(g) : g[i] \in Class
  BY ElementOfSeq DEF Stack
<1> QED
  BY <1>2, <1>3, IsGrows DEF Matches

(* A value is returned.                                                    *)
LEMMA Pushing ==
  ASSUME NEW N, NEW g \in Stack, NEW c \in Class, NEW stack, Matches(stack, g, N),
         NEW v, Is(v, c, N)
  PROVE  Matches(<<v>> \o stack, Append(g, c), N)
<1>1. v \in Thing(N) /\ stack \in Seq(Thing(N)) /\ Len(stack) = Len(g)
  BY IsThing DEF Matches
<1>2. <<v>> \o stack \in Seq(Thing(N)) /\ Len(<<v>> \o stack) = Len(g) + 1
  BY <1>1
<1>3. /\ Len(Append(g, c)) = Len(g) + 1 /\ Append(g, c)[Len(g) + 1] = c
      /\ \A i \in 1..Len(g) : Append(g, c)[i] = g[i]
      /\ Len(g) \in Nat
  BY AppendProperties, LenProperties DEF Stack
<1>4. (<<v>> \o stack)[1] = v
  BY <1>1
<1>5. \A i \in 1..Len(g) : (<<v>> \o stack)[Len(g) + 2 - i] = stack[Len(g) + 1 - i]
  BY <1>1, <1>3
<1>6. ASSUME NEW i \in 1..Len(g) + 1
      PROVE  Is((<<v>> \o stack)[Len(g) + 2 - i], Append(g, c)[i], N)
  BY <1>3, <1>4, <1>5 DEF Matches
<1> QED
  BY <1>2, <1>3, <1>6 DEF Matches

(* Values are taken.                                                       *)
LEMMA Popping ==
  ASSUME NEW N, NEW g \in Stack, NEW r \in Stack, NEW n \in Nat, Len(g) = Len(r) + n,
         \A i \in 1..Len(r) : g[i] = r[i], NEW stack, Matches(stack, g, N)
  PROVE  /\ Len(stack) = Len(r) + n
         /\ \A i \in 1..n : Is(stack[i], g[Len(g) + 1 - i], N)
         /\ Matches(SubSeq(stack, n + 1, Len(stack)), r, N)
<1>1. Len(r) \in Nat /\ stack \in Seq(Thing(N)) /\ Len(stack) = Len(r) + n
  BY LenProperties DEF Matches, Stack
<1>2. \A i \in 1..Len(stack) : stack[i] \in Thing(N)
  BY <1>1, ElementOfSeq
<1>3. ASSUME NEW i \in 1..n
      PROVE  Is(stack[i], g[Len(g) + 1 - i], N)
  <2>1. Len(g) + 1 - i \in 1..Len(g) /\ Len(g) + 1 - (Len(g) + 1 - i) = i
    BY <1>1
  <2> QED
    BY <2>1 DEF Matches
<1> DEFINE rest == SubSeq(stack, n + 1, Len(stack))
<1>4. /\ rest \in Seq(Thing(N)) /\ Len(rest) = Len(r)
      /\ \A i \in 1..Len(r) : rest[i] = stack[n + i]
  BY <1>1, <1>2, SubSeqProperties
<1>5. ASSUME NEW i \in 1..Len(r)
      PROVE  Is(rest[Len(r) + 1 - i], r[i], N)
  <2>1. /\ rest[Len(r) + 1 - i] = stack[n + (Len(r) + 1 - i)]
        /\ n + (Len(r) + 1 - i) = Len(g) + 1 - i /\ i \in 1..Len(g)
    BY <1>1, <1>4
  <2>2. Is(stack[Len(g) + 1 - i], g[i], N)
    BY <2>1 DEF Matches
  <2> QED
    BY <2>1, <2>2
<1> HIDE DEF rest
<1>6. Matches(rest, r, N)
  BY <1>4, <1>5 DEF Matches
<1> QED
  BY <1>1, <1>3, <1>6 DEF rest

LEMMA Appended ==
  ASSUME NEW r \in Stack, NEW c \in Class
  PROVE  /\ Append(r, c) \in Stack /\ Len(Append(r, c)) = Len(r) + 1 /\ Len(r) \in Nat
         /\ \A i \in 1..Len(r) : Append(r, c)[i] = r[i]
         /\ Append(r, c)[Len(r) + 1] = c
BY AppendProperties, LenProperties DEF Stack

LEMMA AppendedTwice ==
  ASSUME NEW r \in Stack, NEW c \in Class, NEW d \in Class
  PROVE  LET g == Append(Append(r, c), d)
         IN  /\ g \in Stack /\ Len(g) = Len(r) + 2 /\ Len(r) \in Nat
             /\ g[Len(r) + 1] = c /\ g[Len(r) + 2] = d /\ \A i \in 1..Len(r) : g[i] = r[i]
<1> DEFINE m == Append(r, c)
<1>1. /\ m \in Stack /\ Len(m) = Len(r) + 1 /\ Len(r) \in Nat /\ m[Len(r) + 1] = c
      /\ \A i \in 1..Len(r) : m[i] = r[i]
  BY Appended
<1> HIDE DEF m
<1>2. /\ Append(m, d) \in Stack /\ Len(Append(m, d)) = Len(m) + 1
      /\ Append(m, d)[Len(m) + 1] = d /\ \A i \in 1..Len(m) : Append(m, d)[i] = m[i]
  BY <1>1, Appended
<1>3. /\ Append(m, d) \in Stack /\ Len(Append(m, d)) = Len(r) + 2 /\ Len(r) \in Nat
      /\ Append(m, d)[Len(r) + 1] = c /\ Append(m, d)[Len(r) + 2] = d
      /\ \A i \in 1..Len(r) : Append(m, d)[i] = r[i]
  BY <1>1, <1>2
<1> QED
  BY <1>3 DEF m

LEMMA PopOne ==
  ASSUME NEW N, NEW r \in Stack, NEW c \in Class, NEW stack, Matches(stack, Append(r, c), N)
  PROVE  /\ stack # <<>> /\ Is(stack[1], c, N) /\ Head(stack) = stack[1]
         /\ Matches(SubSeq(stack, 2, Len(stack)), r, N)
<1> DEFINE g == Append(r, c)
<1>1. /\ g \in Stack /\ Len(g) = Len(r) + 1 /\ Len(r) \in Nat /\ g[Len(r) + 1] = c
      /\ \A i \in 1..Len(r) : g[i] = r[i]
  BY Appended
<1>2. Matches(stack, g, N)
  OBVIOUS
<1> HIDE DEF g
<1>3. /\ Len(stack) = Len(r) + 1
      /\ \A i \in 1..1 : Is(stack[i], g[Len(g) + 1 - i], N)
      /\ Matches(SubSeq(stack, 1 + 1, Len(stack)), r, N)
  BY <1>1, <1>2, Popping
<1>4. stack \in Seq(Thing(N))
  BY <1>2 DEF Matches
<1>5. Is(stack[1], c, N)
  <2>1. Is(stack[1], g[Len(g) + 1 - 1], N)
    BY <1>3
  <2>2. Len(g) + 1 - 1 = Len(r) + 1
    BY <1>1
  <2> QED
    BY <1>1, <2>1, <2>2
<1> QED
  BY <1>1, <1>3, <1>4, <1>5

LEMMA PopTwo ==
  ASSUME NEW N, NEW r \in Stack, NEW c \in Class, NEW d \in Class, NEW stack,
         Matches(stack, Append(Append(r, c), d), N)
  PROVE  /\ Is(stack[1], d, N) /\ Is(stack[2], c, N)
         /\ Matches(SubSeq(stack, 3, Len(stack)), r, N)
<1> DEFINE g == Append(Append(r, c), d)
<1>1. /\ g \in Stack /\ Len(g) = Len(r) + 2 /\ Len(r) \in Nat
      /\ g[Len(r) + 1] = c /\ g[Len(r) + 2] = d /\ \A i \in 1..Len(r) : g[i] = r[i]
  BY AppendedTwice
<1>2. Matches(stack, g, N)
  OBVIOUS
<1> HIDE DEF g
<1>3. /\ Len(stack) = Len(r) + 2
      /\ \A i \in 1..2 : Is(stack[i], g[Len(g) + 1 - i], N)
      /\ Matches(SubSeq(stack, 2 + 1, Len(stack)), r, N)
  BY <1>1, <1>2, Popping
<1>4. Is(stack[1], g[Len(g) + 1 - 1], N) /\ Is(stack[2], g[Len(g) + 1 - 2], N)
  BY <1>3
<1>5. Len(g) + 1 - 1 = Len(r) + 2 /\ Len(g) + 1 - 2 = Len(r) + 1
  BY <1>1
<1> QED
  BY <1>1, <1>3, <1>4, <1>5

LEMMA PopThree ==
  ASSUME NEW N, NEW r \in Stack, NEW c \in Class, NEW d \in Class, NEW e \in Class,
         NEW stack,
         Matches(stack, Append(Append(Append(r, c), d), e), N)
  PROVE  /\ Is(stack[1], e, N) /\ Is(stack[2], d, N) /\ Is(stack[3], c, N)
         /\ Matches(SubSeq(stack, 4, Len(stack)), r, N)
<1> DEFINE g == Append(Append(Append(r, c), d), e)
<1>1. /\ g \in Stack /\ Len(g) = Len(r) + 3 /\ Len(r) \in Nat
      /\ g[Len(r) + 1] = c /\ g[Len(r) + 2] = d /\ g[Len(r) + 3] = e
      /\ \A i \in 1..Len(r) : g[i] = r[i]
  <2> DEFINE m == Append(Append(r, c), d)
  <2>1. /\ m \in Stack /\ Len(m) = Len(r) + 2 /\ Len(r) \in Nat
        /\ m[Len(r) + 1] = c /\ m[Len(r) + 2] = d /\ \A i \in 1..Len(r) : m[i] = r[i]
    BY AppendedTwice
  <2> HIDE DEF m
  <2>2. /\ Append(m, e) \in Stack /\ Len(Append(m, e)) = Len(m) + 1
        /\ Append(m, e)[Len(m) + 1] = e /\ \A i \in 1..Len(m) : Append(m, e)[i] = m[i]
    BY <2>1, Appended
  <2>3. /\ Append(m, e) \in Stack /\ Len(Append(m, e)) = Len(r) + 3 /\ Len(r) \in Nat
        /\ Append(m, e)[Len(r) + 1] = c /\ Append(m, e)[Len(r) + 2] = d
        /\ Append(m, e)[Len(r) + 3] = e /\ \A i \in 1..Len(r) : Append(m, e)[i] = r[i]
    BY <2>1, <2>2
  <2> QED
    BY <2>3 DEF m
<1>2. Matches(stack, g, N)
  OBVIOUS
<1> HIDE DEF g
<1>3. /\ Len(stack) = Len(r) + 3
      /\ \A i \in 1..3 : Is(stack[i], g[Len(g) + 1 - i], N)
      /\ Matches(SubSeq(stack, 3 + 1, Len(stack)), r, N)
  BY <1>1, <1>2, Popping
<1>4. /\ Is(stack[1], g[Len(g) + 1 - 1], N) /\ Is(stack[2], g[Len(g) + 1 - 2], N)
      /\ Is(stack[3], g[Len(g) + 1 - 3], N)
  BY <1>3
<1>5. /\ Len(g) + 1 - 1 = Len(r) + 3 /\ Len(g) + 1 - 2 = Len(r) + 2
      /\ Len(g) + 1 - 3 = Len(r) + 1
  BY <1>1
<1> QED
  BY <1>1, <1>3, <1>4, <1>5

-----------------------------------------------------------------------------
(* Agendas. *)

(* The body takes the classes g to the classes h.                          *)
Leads(body, g, h) ==
  \E e \in Seq(Stack) :
    /\ Len(e) = Len(body) + 1 /\ e[1] = g /\ e[Len(body) + 1] = h
    /\ \A k \in 1..Len(body) : Step(body[k], e[k], e[k + 1])

LEMMA LeadsNowhere ==
  ASSUME NEW g \in Stack
  PROVE  Leads(<<>>, g, g)
<1>1. <<g>> \in Seq(Stack) /\ Len(<<g>>) = Len(<<>>) + 1 /\ <<g>>[1] = g /\ Len(<<>>) = 0
  OBVIOUS
<1>2. /\ Len(<<g>>) = Len(<<>>) + 1 /\ <<g>>[1] = g /\ <<g>>[Len(<<>>) + 1] = g
      /\ \A k \in 1..Len(<<>>) : Step(<<>>[k], <<g>>[k], <<g>>[k + 1])
  BY <1>1
<1> QED
  BY <1>1, <1>2, Zenon DEF Leads

LEMMA LeadsOn ==
  ASSUME NEW g \in Stack, NEW m \in Stack, NEW h \in Stack, NEW o, NEW body \in Seq(Op),
         o \in Op, Step(o, g, m), Leads(body, m, h)
  PROVE  Leads(<<o>> \o body, g, h)
<1>1. PICK e \in Seq(Stack) :
        /\ Len(e) = Len(body) + 1 /\ e[1] = m /\ e[Len(body) + 1] = h
        /\ \A k \in 1..Len(body) : Step(body[k], e[k], e[k + 1])
  BY DEF Leads
<1> DEFINE f == <<g>> \o e
           b == <<o>> \o body
<1>2. Len(body) \in Nat /\ Len(b) = Len(body) + 1 /\ b[1] = o
      /\ \A k \in 1..Len(body) : b[k + 1] = body[k]
  OBVIOUS
<1>3. f \in Seq(Stack) /\ Len(f) = Len(body) + 2 /\ f[1] = g
      /\ \A k \in 1..Len(body) + 1 : f[k + 1] = e[k]
  BY <1>1, <1>2
<1> HIDE DEF f, b
<1>4. ASSUME NEW k \in 1..Len(b)
      PROVE  Step(b[k], f[k], f[k + 1])
  <2>1. CASE k = 1
    BY <2>1, <1>1, <1>2, <1>3
  <2>2. CASE k # 1
    <3>1. k - 1 \in 1..Len(body) /\ (k - 1) + 1 = k
      BY <2>2, <1>2
    <3>2. b[k] = body[k - 1] /\ f[k] = e[k - 1] /\ f[k + 1] = e[k]
      BY <3>1, <1>2, <1>3
    <3>3. Step(body[k - 1], e[k - 1], e[(k - 1) + 1])
      BY <3>1, <1>1
    <3> QED
      BY <3>1, <3>2, <3>3
  <2> QED
    BY <2>1, <2>2
<1>5. f[Len(b) + 1] = h
  BY <1>1, <1>2, <1>3
<1>6. Len(f) = Len(b) + 1 /\ f[1] = g /\ f \in Seq(Stack)
  BY <1>2, <1>3
<1>7. Leads(b, g, h)
  BY <1>4, <1>5, <1>6, Zenon DEF Leads
<1> QED
  BY <1>7 DEF b

(* A body in place of the head of the agenda.                              *)
LEMMA Splice ==
  ASSUME NEW agenda \in Seq(Op), agenda # <<>>, NEW h, Contracts(agenda, h),
         NEW body \in Seq(Op), NEW g \in Stack, Leads(body, g, h[2])
  PROVE  \E f : Contracts(body \o Tail(agenda), f) /\ f[1] = g
<1>1. PICK e \in Seq(Stack) :
        /\ Len(e) = Len(body) + 1 /\ e[1] = g /\ e[Len(body) + 1] = h[2]
        /\ \A k \in 1..Len(body) : Step(body[k], e[k], e[k + 1])
  BY DEF Leads
<1> DEFINE new == body \o Tail(agenda)
           n == Len(body)
           f == [k \in 1..Len(new) + 1 |-> IF k <= n THEN e[k] ELSE h[k - n + 1]]
<1>2. /\ n \in Nat /\ Len(agenda) \in Nat \ {0} /\ Len(new) = n + Len(agenda) - 1
      /\ \A k \in 1..n : new[k] = body[k]
      /\ \A k \in n + 1..Len(new) : new[k] = agenda[k - n + 1]
  <2>1. Tail(agenda) \in Seq(Op) /\ Len(Tail(agenda)) = Len(agenda) - 1
        /\ \A i \in 1..Len(agenda) - 1 : Tail(agenda)[i] = agenda[i + 1]
    BY HeadTailProperties
  <2> QED
    BY <2>1
<1> HIDE DEF new, n
<1>3. h \in [1..Len(agenda) + 1 -> Stack] /\ e \in [1..n + 1 -> Stack]
  BY <1>1 DEF Contracts, n
<1>4. f \in [1..Len(new) + 1 -> Stack]
  BY <1>2, <1>3
<1>5. f[Len(new) + 1] = <<"Function">>
  BY <1>2 DEF Contracts
<1>6. ASSUME NEW k \in 1..Len(new)
      PROVE  Step(new[k], f[k], f[k + 1])
  <2>1. CASE k < n
    <3>1. k \in 1..n /\ new[k] = body[k] /\ f[k] = e[k] /\ f[k + 1] = e[k + 1]
      BY <2>1, <1>2
    <3> QED
      BY <3>1, <1>1 DEF n
  <2>2. CASE k = n
    <3>1. k \in 1..n /\ new[k] = body[k] /\ f[k] = e[k] /\ f[k + 1] = h[2] /\ e[k + 1] = h[2]
      BY <2>2, <1>1, <1>2 DEF n
    <3> QED
      BY <3>1, <1>1 DEF n
  <2>3. CASE k > n
    <3>1. /\ k - n + 1 \in 1..Len(agenda) /\ new[k] = agenda[k - n + 1]
          /\ f[k] = h[k - n + 1] /\ f[k + 1] = h[(k - n + 1) + 1]
      <4>1. k \in n + 1..Len(new) /\ k + 1 \in 1..Len(new) + 1 /\ k - n + 1 \in 1..Len(agenda)
        BY <2>3, <1>2
      <4>2. new[k] = agenda[k - n + 1] /\ f[k] = h[k - n + 1] /\ f[k + 1] = h[(k + 1) - n + 1]
        BY <4>1, <2>3, <1>2
      <4>3. (k + 1) - n + 1 = (k - n + 1) + 1
        BY <4>1, <1>2
      <4> QED
        BY <4>1, <4>2, <4>3
    <3> QED
      BY <3>1 DEF Contracts
  <2> QED
    BY <1>2, <2>1, <2>2, <2>3
<1>7. f[1] = g
  BY <1>1, <1>2 DEF n
<1>8. Contracts(new, f)
  <2> HIDE DEF f
  <2> QED
    BY <1>4, <1>5, <1>6 DEF Contracts
<1> QED
  BY <1>7, <1>8 DEF new

LEMMA Tuple1 ==
  ASSUME NEW a \in Op
  PROVE  <<a>> = <<a>> \o <<>> /\ <<a>> \in Seq(Op)
OBVIOUS

LEMMA Tuple2 ==
  ASSUME NEW a \in Op, NEW b \in Op
  PROVE  <<a, b>> = <<a>> \o <<b>> /\ <<a, b>> \in Seq(Op)
<1>1. <<a, b>> \in Seq(Op) /\ <<a>> \o <<b>> \in Seq(Op)
  OBVIOUS
<1>2. Len(<<a, b>>) = 2 /\ Len(<<a>> \o <<b>>) = 2
  OBVIOUS
<1>3. (<<a>> \o <<b>>)[1] = a /\ (<<a>> \o <<b>>)[2] = b
  OBVIOUS
<1>4. \A i \in 1..2 : <<a, b>>[i] = (<<a>> \o <<b>>)[i]
  BY <1>3
<1> QED
  BY <1>1, <1>2, <1>4, SeqEqual

LEMMA Tuple3 ==
  ASSUME NEW a \in Op, NEW b \in Op, NEW c \in Op
  PROVE  <<a, b, c>> = <<a>> \o <<b, c>> /\ <<a, b, c>> \in Seq(Op)
OBVIOUS

LEMMA Tuple4 ==
  ASSUME NEW a \in Op, NEW b \in Op, NEW c \in Op, NEW d \in Op
  PROVE  <<a, b, c, d>> = <<a>> \o <<b, c, d>> /\ <<a, b, c, d>> \in Seq(Op)
OBVIOUS

LEMMA Tuple2And2 ==
  ASSUME NEW a \in Op, NEW b \in Op, NEW c \in Op, NEW d \in Op
  PROVE  <<a, b>> \o <<c, d>> = <<a, b, c, d>>
<1> DEFINE s == <<a, b>> \o <<c, d>>
           t == <<a, b, c, d>>
<1>1. s \in Seq(Op) /\ t \in Seq(Op)
  OBVIOUS
<1>2. Len(s) = 4 /\ Len(t) = 4
  OBVIOUS
<1>3. s[1] = a /\ s[2] = b /\ s[3] = c /\ s[4] = d
  OBVIOUS
<1>4. t[1] = a /\ t[2] = b /\ t[3] = c /\ t[4] = d
  OBVIOUS
<1> HIDE DEF s, t
<1>5. \A i \in 1..4 : s[i] = t[i]
  BY <1>3, <1>4
<1>6. s = t
  BY <1>1, <1>2, <1>5, SeqEqual
<1> QED
  BY <1>6 DEF s, t

LEMMA Tuple5 ==
  ASSUME NEW a \in Op, NEW b \in Op, NEW c \in Op, NEW d \in Op, NEW e \in Op
  PROVE  <<a, b, c, d, e>> = <<a>> \o <<b, c, d, e>> /\ <<a, b, c, d, e>> \in Seq(Op)
OBVIOUS

LEMMA Tuple6 ==
  ASSUME NEW a \in Op, NEW b \in Op, NEW c \in Op, NEW d \in Op, NEW e \in Op, NEW f \in Op
  PROVE  /\ <<a, b, c, d, e, f>> = <<a>> \o <<b, c, d, e, f>>
         /\ <<a, b, c, d, e, f>> \in Seq(Op)
OBVIOUS

LEMMA Tuple7 ==
  ASSUME NEW a \in Op, NEW b \in Op, NEW c \in Op, NEW d \in Op, NEW e \in Op,
         NEW f \in Op, NEW k \in Op
  PROVE  /\ <<a, b, c, d, e, f, k>> = <<a>> \o <<b, c, d, e, f, k>>
         /\ <<a, b, c, d, e, f, k>> \in Seq(Op)
OBVIOUS

LEMMA Leads1 ==
  ASSUME NEW o1 \in Op,
         NEW g0 \in Stack, NEW g1 \in Stack,
         Step(o1, g0, g1)
  PROVE  <<o1>> \in Seq(Op) /\ Leads(<<o1>>, g0, g1)
<1>1. Leads(<<>>, g1, g1) /\ <<>> \in Seq(Op)
  BY LeadsNowhere
<1>2. Leads(<<o1>> \o <<>>, g0, g1)
  BY <1>1, LeadsOn
<1> QED
  BY <1>2, Tuple1

LEMMA Leads2 ==
  ASSUME NEW o1 \in Op, NEW o2 \in Op,
         NEW g0 \in Stack, NEW g1 \in Stack, NEW g2 \in Stack,
         Step(o1, g0, g1), Step(o2, g1, g2)
  PROVE  <<o1, o2>> \in Seq(Op) /\ Leads(<<o1, o2>>, g0, g2)
<1>1. <<o2>> \in Seq(Op) /\ Leads(<<o2>>, g1, g2)
  BY Leads1
<1>2. Leads(<<o1>> \o <<o2>>, g0, g2)
  BY <1>1, LeadsOn
<1> QED
  BY <1>2, Tuple2

LEMMA Leads3 ==
  ASSUME NEW o1 \in Op, NEW o2 \in Op, NEW o3 \in Op,
         NEW g0 \in Stack, NEW g1 \in Stack, NEW g2 \in Stack, NEW g3 \in Stack,
         Step(o1, g0, g1), Step(o2, g1, g2), Step(o3, g2, g3)
  PROVE  <<o1, o2, o3>> \in Seq(Op) /\ Leads(<<o1, o2, o3>>, g0, g3)
<1>1. <<o2, o3>> \in Seq(Op) /\ Leads(<<o2, o3>>, g1, g3)
  BY Leads2
<1>2. Leads(<<o1>> \o <<o2, o3>>, g0, g3)
  BY <1>1, LeadsOn
<1> QED
  BY <1>2, Tuple3

LEMMA Leads4 ==
  ASSUME NEW o1 \in Op, NEW o2 \in Op, NEW o3 \in Op, NEW o4 \in Op,
         NEW g0 \in Stack, NEW g1 \in Stack, NEW g2 \in Stack, NEW g3 \in Stack,
         NEW g4 \in Stack,
         Step(o1, g0, g1), Step(o2, g1, g2), Step(o3, g2, g3), Step(o4, g3, g4)
  PROVE  <<o1, o2, o3, o4>> \in Seq(Op) /\ Leads(<<o1, o2, o3, o4>>, g0, g4)
<1>1. <<o2, o3, o4>> \in Seq(Op) /\ Leads(<<o2, o3, o4>>, g1, g4)
  BY Leads3
<1>2. Leads(<<o1>> \o <<o2, o3, o4>>, g0, g4)
  BY <1>1, LeadsOn
<1> QED
  BY <1>2, Tuple4

LEMMA Leads5 ==
  ASSUME NEW o1 \in Op, NEW o2 \in Op, NEW o3 \in Op, NEW o4 \in Op, NEW o5 \in Op,
         NEW g0 \in Stack, NEW g1 \in Stack, NEW g2 \in Stack, NEW g3 \in Stack,
         NEW g4 \in Stack, NEW g5 \in Stack,
         Step(o1, g0, g1), Step(o2, g1, g2), Step(o3, g2, g3), Step(o4, g3, g4),
         Step(o5, g4, g5)
  PROVE  <<o1, o2, o3, o4, o5>> \in Seq(Op) /\ Leads(<<o1, o2, o3, o4, o5>>, g0, g5)
<1>1. <<o2, o3, o4, o5>> \in Seq(Op) /\ Leads(<<o2, o3, o4, o5>>, g1, g5)
  BY Leads4
<1>2. Leads(<<o1>> \o <<o2, o3, o4, o5>>, g0, g5)
  BY <1>1, LeadsOn
<1>3. /\ <<o1, o2, o3, o4, o5>> = <<o1>> \o <<o2, o3, o4, o5>>
      /\ <<o1, o2, o3, o4, o5>> \in Seq(Op)
  BY Tuple5
<1> QED
  BY <1>2, <1>3, Zenon

LEMMA Leads6 ==
  ASSUME NEW o1 \in Op, NEW o2 \in Op, NEW o3 \in Op, NEW o4 \in Op, NEW o5 \in Op,
         NEW o6 \in Op,
         NEW g0 \in Stack, NEW g1 \in Stack, NEW g2 \in Stack, NEW g3 \in Stack,
         NEW g4 \in Stack, NEW g5 \in Stack, NEW g6 \in Stack,
         Step(o1, g0, g1), Step(o2, g1, g2), Step(o3, g2, g3), Step(o4, g3, g4),
         Step(o5, g4, g5), Step(o6, g5, g6)
  PROVE  <<o1, o2, o3, o4, o5, o6>> \in Seq(Op) /\ Leads(<<o1, o2, o3, o4, o5, o6>>, g0, g6)
<1>1. <<o2, o3, o4, o5, o6>> \in Seq(Op) /\ Leads(<<o2, o3, o4, o5, o6>>, g1, g6)
  BY Leads5
<1>2. Leads(<<o1>> \o <<o2, o3, o4, o5, o6>>, g0, g6)
  BY <1>1, LeadsOn
<1>3. /\ <<o1, o2, o3, o4, o5, o6>> = <<o1>> \o <<o2, o3, o4, o5, o6>>
      /\ <<o1, o2, o3, o4, o5, o6>> \in Seq(Op)
  BY Tuple6
<1> QED
  BY <1>2, <1>3, Zenon

LEMMA Leads7 ==
  ASSUME NEW o1 \in Op, NEW o2 \in Op, NEW o3 \in Op, NEW o4 \in Op, NEW o5 \in Op,
         NEW o6 \in Op, NEW o7 \in Op,
         NEW g0 \in Stack, NEW g1 \in Stack, NEW g2 \in Stack, NEW g3 \in Stack,
         NEW g4 \in Stack, NEW g5 \in Stack, NEW g6 \in Stack, NEW g7 \in Stack,
         Step(o1, g0, g1), Step(o2, g1, g2), Step(o3, g2, g3), Step(o4, g3, g4),
         Step(o5, g4, g5), Step(o6, g5, g6), Step(o7, g6, g7)
  PROVE  /\ <<o1, o2, o3, o4, o5, o6, o7>> \in Seq(Op)
         /\ Leads(<<o1, o2, o3, o4, o5, o6, o7>>, g0, g7)
<1>1. <<o2, o3, o4, o5, o6, o7>> \in Seq(Op) /\ Leads(<<o2, o3, o4, o5, o6, o7>>, g1, g7)
  BY Leads6
<1>2. Leads(<<o1>> \o <<o2, o3, o4, o5, o6, o7>>, g0, g7)
  BY <1>1, LeadsOn
<1>3. /\ <<o1, o2, o3, o4, o5, o6, o7>> = <<o1>> \o <<o2, o3, o4, o5, o6, o7>>
      /\ <<o1, o2, o3, o4, o5, o6, o7>> \in Seq(Op)
  BY Tuple7
<1> QED
  BY <1>2, <1>3, Zenon


LEMMA StepConsume ==
  ASSUME NEW t, NEW g
  PROVE  Step(Consume(t), g, g)
BY DEF Step, Consume

LEMMA StepTakes ==
  ASSUME NEW o, o.do # "consume", NEW g, NEW r \in Stack, NEW c \in Class, NEW d \in Class,
         Consumes(o, g, r, d), Below(d, c)
  PROVE  Step(o, g, Append(r, c))
BY DEF Step

LEMMA StepReturns ==
  ASSUME NEW o, o.do \in DOMAIN Returns, NEW g \in Stack, NEW c \in Class,
         Below(Returns[o.do], c)
  PROVE  Step(o, g, Append(g, c))
<1>1. Consumes(o, g, g, Returns[o.do])
  BY DEF Consumes
<1>2. Returns[o.do] \in Class /\ o.do # "consume"
  BY DEF Returns, Class
<1> QED
  BY <1>1, <1>2, StepTakes

LEMMA StepRequired ==
  ASSUME NEW r \in Stack, NEW c \in {"Expr", "MaybeExpr"}
  PROVE  Step(Required, Append(r, "MaybeExpr"), Append(r, c))
<1>1. Consumes(Required, Append(r, "MaybeExpr"), r, "Expr")
  BY DEF Consumes, Required
<1> QED
  BY <1>1, StepTakes DEF Below, Class, Required

LEMMA StepRequiredStmt ==
  ASSUME NEW r \in Stack, NEW c \in {"Stmt", "MaybeStmt"}
  PROVE  Step(Required, Append(r, "Stmt"), Append(r, c))
<1>1. Consumes(Required, Append(r, "Stmt"), r, "Stmt")
  BY DEF Consumes, Required
<1> QED
  BY <1>1, StepTakes DEF Below, Class, Required

(* The step of a method that returns, and that of another one.             *)
LEMMA Returned ==
  ASSUME NEW o, o.do \in DOMAIN Returns, NEW g, NEW h, Step(o, g, h)
  PROVE  \E c \in Class : Below(Returns[o.do], c) /\ h = Append(g, c)
BY DEF Step, Consumes, Returns

-----------------------------------------------------------------------------
(* Actions. *)

LEMMA HeadOfAgenda ==
  ASSUME PInv, todo # <<>>
  PROVE  /\ Head(todo) \in Op
         /\ \E N, h : /\ Shaped(N) /\ Contracts(todo, h) /\ Matches(values, h[1], N)
                      /\ h[1] \in Stack /\ h[2] \in Stack /\ Step(Head(todo), h[1], h[2])
<1>1. PICK N, h : Shaped(N) /\ Contracts(todo, h) /\ Matches(values, h[1], N)
  BY DEF PInv, Building
<1>2. /\ todo \in Seq(Op) /\ Len(todo) \in Nat \ {0} /\ Head(todo) = todo[1]
      /\ Head(todo) \in Op
  <2>1. todo \in Seq(Op)
    BY DEF PInv
  <2> QED
    BY <2>1
<1>3. h[1] \in Stack /\ h[2] \in Stack /\ Step(todo[1], h[1], h[1 + 1])
  BY <1>1, <1>2 DEF Contracts
<1> QED
  BY <1>1, <1>2, <1>3

LEMMA Proceeds ==
  ASSUME todo \in Seq(Op), todo # <<>>, NEW h, Contracts(todo, h), NEW body \in Seq(Op),
         NEW g \in Stack, Leads(body, g, h[2]), Run(body),
         NEW M, Shaped(M), Matches(values', g, M)
  PROVE  todo' \in Seq(Op) /\ Building'
<1>1. todo' = body \o Tail(todo)
  BY DEF Run
<1>2. todo' \in Seq(Op)
  BY <1>1
<1>3. PICK f : Contracts(body \o Tail(todo), f) /\ f[1] = g
  BY Splice
<1>4. Contracts(todo', f) /\ Matches(values', f[1], M)
  BY <1>1, <1>3
<1> QED
  BY <1>2, <1>4 DEF Building

LEMMA HeadReturns ==
  ASSUME PInv, todo # <<>>, Head(todo).do \in DOMAIN Returns
  PROVE  \E N, h, c : /\ Shaped(N) /\ Contracts(todo, h) /\ Matches(values, h[1], N)
                     /\ h[1] \in Stack /\ c \in Class
                     /\ Below(Returns[Head(todo).do], c) /\ h[2] = Append(h[1], c)
<1>1. PICK N, h : /\ Shaped(N) /\ Contracts(todo, h) /\ Matches(values, h[1], N)
                  /\ h[1] \in Stack /\ h[2] \in Stack /\ Step(Head(todo), h[1], h[2])
  BY HeadOfAgenda
<1>2. PICK c \in Class : Below(Returns[Head(todo).do], c) /\ h[2] = Append(h[1], c)
  BY <1>1, Returned
<1> QED
  BY <1>1, <1>2, Zenon

(* A method that returns what its body returns.                            *)
LEMMA Delegates ==
  ASSUME PInv, todo # <<>>, Head(todo).do \in DOMAIN Returns, NEW body \in Seq(Op),
         Run(body), values' = values,
         \A g \in Stack, c \in Class :
           Below(Returns[Head(todo).do], c) => Leads(body, g, Append(g, c))
  PROVE  todo' \in Seq(Op) /\ Building'
<1>1. PICK N, h : /\ Shaped(N) /\ Contracts(todo, h) /\ Matches(values, h[1], N)
                  /\ h[1] \in Stack /\ h[2] \in Stack /\ Step(Head(todo), h[1], h[2])
  BY HeadOfAgenda
<1>2. PICK c \in Class : Below(Returns[Head(todo).do], c) /\ h[2] = Append(h[1], c)
  BY <1>1, Returned
<1>3. Leads(body, h[1], h[2])
  BY <1>1, <1>2
<1>4. Matches(values', h[1], N)
  BY <1>1
<1> QED
  BY <1>1, <1>3, <1>4, Proceeds DEF PInv

(* One that returns a value first.                                         *)
LEMMA Delivers ==
  ASSUME PInv, todo # <<>>, Head(todo).do \in DOMAIN Returns, NEW body \in Seq(Op),
         Run(body), NEW v, values' = <<v>> \o values,
         \A N : Shaped(N) => \E M : N \subseteq M /\ Shaped(M) /\
           \A g \in Stack, c \in Class : Below(Returns[Head(todo).do], c) =>
             \E d \in Class : Is(v, d, M) /\ Leads(body, Append(g, d), Append(g, c))
  PROVE  todo' \in Seq(Op) /\ Building'
<1>1. PICK N, h, c : /\ Shaped(N) /\ Contracts(todo, h) /\ Matches(values, h[1], N)
                     /\ h[1] \in Stack /\ c \in Class
                     /\ Below(Returns[Head(todo).do], c) /\ h[2] = Append(h[1], c)
  BY HeadReturns, Zenon
<1>3. PICK M : N \subseteq M /\ Shaped(M) /\
           \E d \in Class : Is(v, d, M) /\ Leads(body, Append(h[1], d), Append(h[1], c))
  BY <1>1, Zenon
<1>4. PICK d \in Class : Is(v, d, M) /\ Leads(body, Append(h[1], d), Append(h[1], c))
  BY <1>3
<1>5. Matches(values, h[1], M)
  BY <1>1, <1>3, MatchesGrow
<1>6. Matches(values', Append(h[1], d), M) /\ Append(h[1], d) \in Stack
  BY <1>1, <1>4, <1>5, Pushing, Appended
<1> QED
  BY <1>1, <1>3, <1>4, <1>6, Proceeds DEF PInv

LEMMA OpsTyped ==
  /\ \A t \in Plain \cup {"IDENTIFIER", "CONSTANT", "ENDOFFILE"} : Consume(t) \in Op
  /\ \A m \in {"function", "block", "item", "declarator", "statement", "return", "factor",
              "items", "push_back", "else"} : Call(m) \in Op
  /\ Required \in Op
  /\ \A p \in Int : parse_expr(p) \in Op /\ Climb(p) \in Op
  /\ \A x \in Ident : Initializer(x) \in Op /\ MakeOver("DeclarationVariable", x) \in Op
  /\ \A x \in {"Function", "Block", "ReturnStmt", "CompoundStmt", "ExpressionStmt", "IfStatement",
              "Assignment", "Conditional"} : Make(x) \in Op
  /\ \A x \in Tree({})!UnaryOpType : MakeOver("UnaryOperator", x) \in Op
  /\ \A x \in Tree({})!BinaryOpType : MakeOver("BinaryOperator", x) \in Op
BY DEF Op, Returns, Makes, Consume, Call, Required, parse_expr, Climb, Initializer, MakeOver, Make

(* What the constructors of the agenda do.                                 *)
LEMMA StepCall ==
  ASSUME NEW m \in DOMAIN Returns, NEW g \in Stack
  PROVE  Step(Call(m), g, Append(g, Returns[m]))
<1>1. Returns[m] \in Class /\ Below(Returns[m], Returns[m]) /\ Call(m).do = m
  BY DEF Returns, Class, Below, Call
<1> QED
  BY <1>1, StepReturns

LEMMA StepCallAs ==
  ASSUME NEW m \in DOMAIN Returns, NEW g \in Stack, NEW c \in Class, Below(Returns[m], c)
  PROVE  Step(Call(m), g, Append(g, c))
BY StepReturns DEF Call

LEMMA StepExpr ==
  ASSUME NEW p, NEW g \in Stack
  PROVE  Step(parse_expr(p), g, Append(g, "MaybeExpr"))
<1>1. /\ parse_expr(p).do = "parse_expr" /\ "parse_expr" \in DOMAIN Returns
      /\ Returns["parse_expr"] = "MaybeExpr" /\ "MaybeExpr" \in Class
      /\ Below("MaybeExpr", "MaybeExpr")
  BY DEF parse_expr, Returns, Class, Below
<1> QED
  BY <1>1, StepReturns

LEMMA StepMake1 ==
  ASSUME NEW o, o.do = "make", o.class \in DOMAIN Takes1, NEW r \in Stack, NEW c \in Class,
         Below(Makes[o.class], c)
  PROVE  Step(o, Append(r, Takes1[o.class]), Append(r, c))
<1>1. Consumes(o, Append(r, Takes1[o.class]), r, Makes[o.class]) /\ Makes[o.class] \in Class
  BY DEF Consumes, Makes, Takes1, Class
<1> QED
  BY <1>1, StepTakes

LEMMA StepMake2 ==
  ASSUME NEW o, o.do = "make", o.class \in {"BinaryOperator", "Assignment"}, NEW r \in Stack
  PROVE  Step(o, Append(Append(r, "Expr"), "Expr"), Append(r, "MaybeExpr"))
<1>1. Consumes(o, Append(Append(r, "Expr"), "Expr"), r, "MaybeExpr")
  BY DEF Consumes, Makes
<1> QED
  BY <1>1, StepTakes DEF Below, Class

LEMMA StepMakeIf ==
  ASSUME NEW r \in Stack, NEW c \in Class, Below("Stmt", c)
  PROVE  Step(Make("IfStatement"),
              Append(Append(Append(r, "Expr"), "Stmt"), "MaybeStmt"), Append(r, c))
<1>1. Consumes(Make("IfStatement"),
               Append(Append(Append(r, "Expr"), "Stmt"), "MaybeStmt"), r, "Stmt")
  BY DEF Consumes, Makes, Takes3, Make
<1> QED
  BY <1>1, StepTakes DEF Class, Make

LEMMA StepMakeConditional ==
  ASSUME NEW r \in Stack
  PROVE  Step(Make("Conditional"),
              Append(Append(Append(r, "Expr"), "MaybeExpr"), "MaybeExpr"), Append(r, "MaybeExpr"))
<1>1. Consumes(Make("Conditional"),
               Append(Append(Append(r, "Expr"), "MaybeExpr"), "MaybeExpr"), r, "MaybeExpr")
  BY DEF Consumes, Makes, Takes3, Make
<1> QED
  BY <1>1, StepTakes DEF Class, Make, Below

LEMMA StepItems ==
  ASSUME NEW r \in Stack
  PROVE  /\ Step(Call("items"), Append(r, "Items"), Append(r, "Body"))
         /\ Step(Call("push_back"), Append(Append(r, "Items"), "Item"), Append(r, "Items"))
<1>1. /\ Consumes(Call("items"), Append(r, "Items"), r, "Body")
      /\ Consumes(Call("push_back"), Append(Append(r, "Items"), "Item"), r, "Items")
  BY DEF Consumes, Call
<1> QED
  BY <1>1, StepTakes DEF Class, Call, Below

LEMMA StepElse ==
  ASSUME NEW r \in Stack, NEW c \in Class, Below("Stmt", c)
  PROVE  Step(Call("else"), Append(Append(r, "Expr"), "Stmt"), Append(r, c))
<1>1. Consumes(Call("else"), Append(Append(r, "Expr"), "Stmt"), r, "Stmt")
  BY DEF Consumes, Call
<1> QED
  BY <1>1, StepTakes DEF Class, Call

LEMMA StepClimb ==
  ASSUME NEW o, o.do = "climb", NEW r \in Stack
  PROVE  Step(o, Append(r, "MaybeExpr"), Append(r, "MaybeExpr"))
<1>1. Consumes(o, Append(r, "MaybeExpr"), r, "MaybeExpr")
  BY DEF Consumes
<1> QED
  BY <1>1, StepTakes DEF Class, Below

LEMMA Classes ==
  /\ Class = {"Expr", "MaybeExpr", "Stmt", "MaybeStmt", "Item", "Items", "Body", "Function"}
  /\ \A c \in Class : Below(c, c)
  /\ \A c \in Class : Below("MaybeExpr", c) => c = "MaybeExpr"
  /\ \A c \in Class : Below("Item", c) => c = "Item"
  /\ \A c \in Class : Below("Items", c) => c = "Items"
  /\ \A c \in Class : Below("Body", c) => c = "Body"
  /\ \A c \in Class : Below("Function", c) => c = "Function"
  /\ Below("Stmt", "Item") /\ Below("Stmt", "MaybeStmt") /\ Below("Expr", "MaybeExpr")
BY DEF Class, Below

LEMMA ParseFunctionKeeps ==
  ASSUME PInv, ParseFunction
  PROVE  todo' \in Seq(Op) /\ Building'
<1> DEFINE body == <<Consume("INT_KEYWORD"), Consume("IDENTIFIER"), Consume("OPEN_PARENTHESIS"),
                     Consume("VOID_KEYWORD"), Consume("CLOSE_PARENTHESIS"), Call("block"),
                     Make("Function")>>
<1>1. /\ Consume("INT_KEYWORD") \in Op /\ Consume("IDENTIFIER") \in Op
      /\ Consume("OPEN_PARENTHESIS") \in Op /\ Consume("VOID_KEYWORD") \in Op
      /\ Consume("CLOSE_PARENTHESIS") \in Op /\ Call("block") \in Op
      /\ Make("Function") \in Op
  BY OpsTyped DEF Plain
<1>2. ASSUME NEW g \in Stack, NEW c \in Class, Below("Function", c)
      PROVE  Leads(body, g, Append(g, c))
  <2>1. Append(g, "Body") \in Stack /\ Append(g, c) \in Stack
    BY Appended, Classes
  <2>2. Step(Call("block"), g, Append(g, "Body"))
    BY StepCall DEF Returns
  <2>3. Step(Make("Function"), Append(g, "Body"), Append(g, c))
    BY <1>2, StepMake1 DEF Make, Takes1, Makes
  <2>4. /\ Step(Consume("INT_KEYWORD"), g, g) /\ Step(Consume("IDENTIFIER"), g, g)
        /\ Step(Consume("OPEN_PARENTHESIS"), g, g) /\ Step(Consume("VOID_KEYWORD"), g, g)
        /\ Step(Consume("CLOSE_PARENTHESIS"), g, g)
    BY StepConsume
  <2> QED
    BY <1>1, <2>1, <2>2, <2>3, <2>4, Leads7, Zenon
<1>3. body \in Seq(Op)
  BY <1>1, Tuple7
<1>4. /\ todo # <<>> /\ Head(todo).do = "function" /\ Run(body) /\ values' = values
      /\ "function" \in DOMAIN Returns /\ Returns["function"] = "Function"
  BY DEF ParseFunction, Descend, Doing, Returns
<1> HIDE DEF body
<1> QED
  BY <1>2, <1>3, <1>4, Delegates

LEMMA ParseItemDeclares ==
  ASSUME PInv, ParseItem, type = "INT_KEYWORD"
  PROVE  todo' \in Seq(Op) /\ Building'
<1> DEFINE body == <<Call("declarator")>>
<1>1. /\ Call("declarator") \in Op
  BY OpsTyped
<1>2. ASSUME NEW g \in Stack, NEW c \in Class, Below("Item", c)
      PROVE  Leads(body, g, Append(g, c))
  <2>1. /\ Append(g, c) \in Stack
    BY Appended, Classes
  <2>2. Step(Call("declarator"), g, Append(g, c))
    BY <1>2, StepCallAs DEF Returns
  <2> QED
    BY <1>1, <2>1, <2>2, StepConsume, Leads1
<1>3. body \in Seq(Op)
  BY <1>1, Tuple1
<1>4. /\ todo # <<>> /\ Head(todo).do = "item" /\ Run(body) /\ values' = values
      /\ "item" \in DOMAIN Returns /\ Returns["item"] = "Item"
  BY DEF ParseItem, Take, Doing, Returns
<1> HIDE DEF body
<1> QED
  BY <1>2, <1>3, <1>4, Delegates

LEMMA ParseItemStates ==
  ASSUME PInv, ParseItem, type # "INT_KEYWORD"
  PROVE  todo' \in Seq(Op) /\ Building'
<1> DEFINE body == <<Call("statement")>>
<1>1. /\ Call("statement") \in Op
  BY OpsTyped
<1>2. ASSUME NEW g \in Stack, NEW c \in Class, Below("Item", c)
      PROVE  Leads(body, g, Append(g, c))
  <2>1. /\ Append(g, c) \in Stack
    BY Appended, Classes
  <2>2. Step(Call("statement"), g, Append(g, c))
    BY <1>2, Classes, StepCallAs DEF Returns
  <2> QED
    BY <1>1, <2>1, <2>2, StepConsume, Leads1
<1>3. body \in Seq(Op)
  BY <1>1, Tuple1
<1>4. /\ todo # <<>> /\ Head(todo).do = "item" /\ Run(body) /\ values' = values
      /\ "item" \in DOMAIN Returns /\ Returns["item"] = "Item"
  BY DEF ParseItem, Descend, Doing, Returns
<1> HIDE DEF body
<1> QED
  BY <1>2, <1>3, <1>4, Delegates

LEMMA DeclaratorKeeps ==
  ASSUME PInv, Declarator, type = "IDENTIFIER", peek.text \in Ident
  PROVE  todo' \in Seq(Op) /\ Building'
<1> DEFINE body == <<Initializer(peek.text)>>
<1>1. /\ Initializer(peek.text) \in Op
  BY OpsTyped
<1>2. ASSUME NEW g \in Stack, NEW c \in Class, Below("Item", c)
      PROVE  Leads(body, g, Append(g, c))
  <2>1. /\ Append(g, c) \in Stack
    BY Appended, Classes
  <2>2. Step(Initializer(peek.text), g, Append(g, c))
    BY <1>2, StepReturns DEF Initializer, Returns
  <2> QED
    BY <1>1, <2>1, <2>2, StepConsume, Leads1
<1>3. body \in Seq(Op)
  BY <1>1, Tuple1
<1>4. /\ todo # <<>> /\ Head(todo).do = "declarator" /\ Run(body) /\ values' = values
      /\ "declarator" \in DOMAIN Returns /\ Returns["declarator"] = "Item"
  BY DEF Declarator, Take, Doing, Returns
<1> HIDE DEF body
<1> QED
  BY <1>2, <1>3, <1>4, Delegates

LEMMA InitializerParses ==
  ASSUME PInv, ParseInitializer, type = "ASSIGNMENT", Head(todo).id \in Ident
  PROVE  todo' \in Seq(Op) /\ Building'
<1> DEFINE body == <<parse_expr(0), Required, Consume("SEMICOLON"),
                     MakeOver("DeclarationVariable", Head(todo).id)>>
<1>1. /\ parse_expr(0) \in Op
      /\ Required \in Op
      /\ Consume("SEMICOLON") \in Op
      /\ MakeOver("DeclarationVariable", Head(todo).id) \in Op
  BY OpsTyped DEF Plain
<1>2. ASSUME NEW g \in Stack, NEW c \in Class, Below("Item", c)
      PROVE  Leads(body, g, Append(g, c))
  <2>1. /\ Append(g, "MaybeExpr") \in Stack
        /\ Append(g, c) \in Stack
    BY Appended, Classes
  <2>2. Step(parse_expr(0), g, Append(g, "MaybeExpr"))
    BY StepExpr
  <2>3. Step(Required, Append(g, "MaybeExpr"), Append(g, "MaybeExpr"))
    BY StepRequired
  <2>4. Step(MakeOver("DeclarationVariable", Head(todo).id), Append(g, "MaybeExpr"), Append(g, c))
    BY <1>2, StepMake1 DEF MakeOver, Takes1, Makes
  <2> QED
    BY <1>1, <2>1, <2>2, <2>3, <2>4, StepConsume, Leads4
<1>3. body \in Seq(Op)
  BY <1>1, Tuple4
<1>4. /\ todo # <<>> /\ Head(todo).do = "initializer" /\ Run(body) /\ values' = values
      /\ "initializer" \in DOMAIN Returns /\ Returns["initializer"] = "Item"
  <2>1. Run(<<parse_expr(0), Required>> \o <<Consume("SEMICOLON"), MakeOver("DeclarationVariable", Head(todo).id)>>)
    BY DEF ParseInitializer, Take, Doing
  <2>2. <<parse_expr(0), Required>> \o <<Consume("SEMICOLON"), MakeOver("DeclarationVariable", Head(todo).id)>> = body
    BY <1>1, Tuple2And2
  <2>3. Run(body)
    BY <2>1, <2>2, Zenon
  <2> QED
    BY <2>3 DEF ParseInitializer, Take, Doing, Returns
<1> HIDE DEF body
<1> QED
  BY <1>2, <1>3, <1>4, Delegates

LEMMA ParseReturnKeeps ==
  ASSUME PInv, ParseReturn
  PROVE  todo' \in Seq(Op) /\ Building'
<1> DEFINE body == <<Call("return")>>
<1>1. /\ Call("return") \in Op
  BY OpsTyped
<1>2. ASSUME NEW g \in Stack, NEW c \in Class, Below("Stmt", c)
      PROVE  Leads(body, g, Append(g, c))
  <2>1. /\ Append(g, c) \in Stack
    BY Appended, Classes
  <2>2. Step(Call("return"), g, Append(g, c))
    BY <1>2, StepCallAs DEF Returns
  <2> QED
    BY <1>1, <2>1, <2>2, StepConsume, Leads1
<1>3. body \in Seq(Op)
  BY <1>1, Tuple1
<1>4. /\ todo # <<>> /\ Head(todo).do = "statement" /\ Run(body) /\ values' = values
      /\ "statement" \in DOMAIN Returns /\ Returns["statement"] = "Stmt"
  BY DEF ParseReturn, Statement, Take, Doing, Returns
<1> HIDE DEF body
<1> QED
  BY <1>2, <1>3, <1>4, Delegates

LEMMA ReturnValueParses ==
  ASSUME PInv, ReturnValue, type # "SEMICOLON"
  PROVE  todo' \in Seq(Op) /\ Building'
<1> DEFINE body == <<parse_expr(0), Required, Consume("SEMICOLON"), Make("ReturnStmt")>>
<1>1. /\ parse_expr(0) \in Op
      /\ Required \in Op
      /\ Consume("SEMICOLON") \in Op
      /\ Make("ReturnStmt") \in Op
  BY OpsTyped DEF Plain
<1>2. ASSUME NEW g \in Stack, NEW c \in Class, Below("Stmt", c)
      PROVE  Leads(body, g, Append(g, c))
  <2>1. /\ Append(g, "MaybeExpr") \in Stack
        /\ Append(g, c) \in Stack
    BY Appended, Classes
  <2>2. Step(parse_expr(0), g, Append(g, "MaybeExpr"))
    BY StepExpr
  <2>3. Step(Required, Append(g, "MaybeExpr"), Append(g, "MaybeExpr"))
    BY StepRequired
  <2>4. Step(Make("ReturnStmt"), Append(g, "MaybeExpr"), Append(g, c))
    BY <1>2, StepMake1 DEF Make, Takes1, Makes
  <2> QED
    BY <1>1, <2>1, <2>2, <2>3, <2>4, StepConsume, Leads4
<1>3. body \in Seq(Op)
  BY <1>1, Tuple4
<1>4. /\ todo # <<>> /\ Head(todo).do = "return" /\ Run(body) /\ values' = values
      /\ "return" \in DOMAIN Returns /\ Returns["return"] = "Stmt"
  <2>1. Run(<<parse_expr(0), Required>> \o <<Consume("SEMICOLON"), Make("ReturnStmt")>>)
    BY DEF ReturnValue, Descend, Doing
  <2>2. <<parse_expr(0), Required>> \o <<Consume("SEMICOLON"), Make("ReturnStmt")>> = body
    BY <1>1, Tuple2And2
  <2>3. Run(body)
    BY <2>1, <2>2, Zenon
  <2> QED
    BY <2>3 DEF ReturnValue, Descend, Doing, Returns
<1> HIDE DEF body
<1> QED
  BY <1>2, <1>3, <1>4, Delegates

LEMMA ParseCompoundKeeps ==
  ASSUME PInv, ParseCompound
  PROVE  todo' \in Seq(Op) /\ Building'
<1> DEFINE body == <<Call("block"), Make("CompoundStmt")>>
<1>1. /\ Call("block") \in Op
      /\ Make("CompoundStmt") \in Op
  BY OpsTyped
<1>2. ASSUME NEW g \in Stack, NEW c \in Class, Below("Stmt", c)
      PROVE  Leads(body, g, Append(g, c))
  <2>1. /\ Append(g, "Body") \in Stack
        /\ Append(g, c) \in Stack
    BY Appended, Classes
  <2>2. Step(Call("block"), g, Append(g, "Body"))
    BY StepCall DEF Returns
  <2>3. Step(Make("CompoundStmt"), Append(g, "Body"), Append(g, c))
    BY <1>2, StepMake1 DEF Make, Takes1, Makes
  <2> QED
    BY <1>1, <2>1, <2>2, <2>3, StepConsume, Leads2
<1>3. body \in Seq(Op)
  BY <1>1, Tuple2
<1>4. /\ todo # <<>> /\ Head(todo).do = "statement" /\ Run(body) /\ values' = values
      /\ "statement" \in DOMAIN Returns /\ Returns["statement"] = "Stmt"
  BY DEF ParseCompound, Statement, Descend, Doing, Returns
<1> HIDE DEF body
<1> QED
  BY <1>2, <1>3, <1>4, Delegates

LEMMA ParseIfKeeps ==
  ASSUME PInv, ParseIf
  PROVE  todo' \in Seq(Op) /\ Building'
<1> DEFINE body == <<Consume("OPEN_PARENTHESIS"), parse_expr(0), Required,
                     Consume("CLOSE_PARENTHESIS"), Call("statement"), Required,
                     Call("else")>>
<1>1. /\ Consume("OPEN_PARENTHESIS") \in Op
      /\ parse_expr(0) \in Op
      /\ Required \in Op
      /\ Consume("CLOSE_PARENTHESIS") \in Op
      /\ Call("statement") \in Op
      /\ Call("else") \in Op
  BY OpsTyped DEF Plain
<1>2. ASSUME NEW g \in Stack, NEW c \in Class, Below("Stmt", c)
      PROVE  Leads(body, g, Append(g, c))
  <2>1. /\ Append(g, "MaybeExpr") \in Stack
        /\ Append(g, "Expr") \in Stack
        /\ Append(Append(g, "Expr"), "Stmt") \in Stack
        /\ Append(g, c) \in Stack
    BY Appended, Classes
  <2>2. Step(parse_expr(0), g, Append(g, "MaybeExpr"))
    BY StepExpr
  <2>3. Step(Required, Append(g, "MaybeExpr"), Append(g, "Expr"))
    BY StepRequired
  <2>4. Step(Call("statement"), Append(g, "Expr"), Append(Append(g, "Expr"), "Stmt"))
    BY <2>1, StepCall DEF Returns
  <2>5. Step(Required, Append(Append(g, "Expr"), "Stmt"), Append(Append(g, "Expr"), "Stmt"))
    BY <2>1, StepRequiredStmt
  <2>6. Step(Call("else"), Append(Append(g, "Expr"), "Stmt"), Append(g, c))
    BY <1>2, StepElse
  <2> QED
    BY <1>1, <2>1, <2>2, <2>3, <2>4, <2>5, <2>6, StepConsume, Leads7
<1>3. body \in Seq(Op)
  BY <1>1, Tuple7
<1>4. /\ todo # <<>> /\ Head(todo).do = "statement" /\ Run(body) /\ values' = values
      /\ "statement" \in DOMAIN Returns /\ Returns["statement"] = "Stmt"
  BY DEF ParseIf, Statement, Take, Doing, Returns
<1> HIDE DEF body
<1> QED
  BY <1>2, <1>3, <1>4, Delegates

LEMMA ParseExpressionKeeps ==
  ASSUME PInv, ParseExpression
  PROVE  todo' \in Seq(Op) /\ Building'
<1> DEFINE body == <<parse_expr(0), Required, Consume("SEMICOLON"), Make("ExpressionStmt")>>
<1>1. /\ parse_expr(0) \in Op
      /\ Required \in Op
      /\ Consume("SEMICOLON") \in Op
      /\ Make("ExpressionStmt") \in Op
  BY OpsTyped DEF Plain
<1>2. ASSUME NEW g \in Stack, NEW c \in Class, Below("Stmt", c)
      PROVE  Leads(body, g, Append(g, c))
  <2>1. /\ Append(g, "MaybeExpr") \in Stack
        /\ Append(g, "Expr") \in Stack
        /\ Append(g, c) \in Stack
    BY Appended, Classes
  <2>2. Step(parse_expr(0), g, Append(g, "MaybeExpr"))
    BY StepExpr
  <2>3. Step(Required, Append(g, "MaybeExpr"), Append(g, "Expr"))
    BY StepRequired
  <2>4. Step(Make("ExpressionStmt"), Append(g, "Expr"), Append(g, c))
    BY <1>2, StepMake1 DEF Make, Takes1, Makes
  <2> QED
    BY <1>1, <2>1, <2>2, <2>3, <2>4, StepConsume, Leads4
<1>3. body \in Seq(Op)
  BY <1>1, Tuple4
<1>4. /\ todo # <<>> /\ Head(todo).do = "statement" /\ Run(body) /\ values' = values
      /\ "statement" \in DOMAIN Returns /\ Returns["statement"] = "Stmt"
  BY DEF ParseExpression, Descend, Doing, Returns
<1> HIDE DEF body
<1> QED
  BY <1>2, <1>3, <1>4, Delegates

LEMMA UnaryOperators == \A t \in DOMAIN unary_op : unary_op[t] \in Tree({})!UnaryOpType
BY DEF unary_op, Tree!UnaryOpType

LEMMA FactorUnaryKeeps ==
  ASSUME PInv, FactorUnary
  PROVE  todo' \in Seq(Op) /\ Building'
<1> DEFINE body == <<Call("factor"), Required, MakeOver("UnaryOperator", unary_op[type])>>
<1>1. /\ Call("factor") \in Op
      /\ Required \in Op
      /\ MakeOver("UnaryOperator", unary_op[type]) \in Op
  BY OpsTyped, UnaryOperators DEF FactorUnary
<1>2. ASSUME NEW g \in Stack, NEW c \in Class, Below("MaybeExpr", c)
      PROVE  Leads(body, g, Append(g, c))
  <2>1. /\ Append(g, "MaybeExpr") \in Stack
        /\ Append(g, "Expr") \in Stack
        /\ Append(g, c) \in Stack
    BY Appended, Classes
  <2>2. Step(Call("factor"), g, Append(g, "MaybeExpr"))
    BY StepCall DEF Returns
  <2>3. Step(Required, Append(g, "MaybeExpr"), Append(g, "Expr"))
    BY StepRequired
  <2>4. Step(MakeOver("UnaryOperator", unary_op[type]), Append(g, "Expr"), Append(g, c))
    BY <1>2, StepMake1 DEF MakeOver, Takes1, Makes
  <2> QED
    BY <1>1, <2>1, <2>2, <2>3, <2>4, StepConsume, Leads3
<1>3. body \in Seq(Op)
  BY <1>1, Tuple3
<1>4. /\ todo # <<>> /\ Head(todo).do = "factor" /\ Run(body) /\ values' = values
      /\ "factor" \in DOMAIN Returns /\ Returns["factor"] = "MaybeExpr"
  BY DEF FactorUnary, Take, Doing, Returns
<1> HIDE DEF body
<1> QED
  BY <1>2, <1>3, <1>4, Delegates

LEMMA FactorParenthesisKeeps ==
  ASSUME PInv, FactorParenthesis
  PROVE  todo' \in Seq(Op) /\ Building'
<1> DEFINE body == <<parse_expr(0), Required, Consume("CLOSE_PARENTHESIS")>>
<1>1. /\ parse_expr(0) \in Op
      /\ Required \in Op
      /\ Consume("CLOSE_PARENTHESIS") \in Op
  BY OpsTyped DEF Plain
<1>2. ASSUME NEW g \in Stack, NEW c \in Class, Below("MaybeExpr", c)
      PROVE  Leads(body, g, Append(g, c))
  <2>1. /\ Append(g, "MaybeExpr") \in Stack
        /\ Append(g, c) \in Stack
    BY Appended, Classes
  <2>2. Step(parse_expr(0), g, Append(g, "MaybeExpr"))
    BY StepExpr
  <2>3. Step(Required, Append(g, "MaybeExpr"), Append(g, "MaybeExpr"))
    BY StepRequired
  <2>4. Append(g, c) = Append(g, "MaybeExpr")
    BY <1>2, Classes
  <2> QED
    BY <1>1, <2>1, <2>2, <2>3, <2>4, StepConsume, Leads3
<1>3. body \in Seq(Op)
  BY <1>1, Tuple3
<1>4. /\ todo # <<>> /\ Head(todo).do = "factor" /\ Run(body) /\ values' = values
      /\ "factor" \in DOMAIN Returns /\ Returns["factor"] = "MaybeExpr"
  BY DEF FactorParenthesis, Take, Doing, Returns
<1> HIDE DEF body
<1> QED
  BY <1>2, <1>3, <1>4, Delegates

LEMMA StartExprKeeps ==
  ASSUME PInv, StartExpr, Head(todo).min_prec \in Int
  PROVE  todo' \in Seq(Op) /\ Building'
<1> DEFINE body == <<Call("factor"), Climb(Head(todo).min_prec)>>
<1>1. /\ Call("factor") \in Op
      /\ Climb(Head(todo).min_prec) \in Op
  BY OpsTyped
<1>2. ASSUME NEW g \in Stack, NEW c \in Class, Below("MaybeExpr", c)
      PROVE  Leads(body, g, Append(g, c))
  <2>1. /\ Append(g, "MaybeExpr") \in Stack
        /\ Append(g, c) \in Stack
    BY Appended, Classes
  <2>2. Step(Call("factor"), g, Append(g, "MaybeExpr"))
    BY StepCall DEF Returns
  <2>3. Step(Climb(Head(todo).min_prec), Append(g, "MaybeExpr"), Append(g, "MaybeExpr"))
    BY StepClimb DEF Climb
  <2>4. Append(g, c) = Append(g, "MaybeExpr")
    BY <1>2, Classes
  <2> QED
    BY <1>1, <2>1, <2>2, <2>3, <2>4, StepConsume, Leads2
<1>3. body \in Seq(Op)
  BY <1>1, Tuple2
<1>4. /\ todo # <<>> /\ Head(todo).do = "parse_expr" /\ Run(body) /\ values' = values
      /\ "parse_expr" \in DOMAIN Returns /\ Returns["parse_expr"] = "MaybeExpr"
  BY DEF StartExpr, Descend, Doing, Returns
<1> HIDE DEF body
<1> QED
  BY <1>2, <1>3, <1>4, Delegates

(* A method that returns a constant of class d, and then goes on.          *)
LEMMA DeliversConstant ==
  ASSUME PInv, todo # <<>>, Head(todo).do \in DOMAIN Returns, NEW body \in Seq(Op),
         Run(body), NEW v, values' = <<v>> \o values, NEW d \in Class, \A N : Is(v, d, N),
         \A g \in Stack, c \in Class :
           Below(Returns[Head(todo).do], c) => Leads(body, Append(g, d), Append(g, c))
  PROVE  todo' \in Seq(Op) /\ Building'
<1>1. ASSUME NEW N, Shaped(N)
      PROVE  \E M : N \subseteq M /\ Shaped(M) /\
               \A g \in Stack, c \in Class : Below(Returns[Head(todo).do], c) =>
                 \E e \in Class : Is(v, e, M) /\ Leads(body, Append(g, e), Append(g, c))
  BY <1>1
<1> QED
  BY <1>1, Delivers, Zenon

(* A method that returns a node without children.                          *)
LEMMA DeliversLeaf ==
  ASSUME PInv, todo # <<>>, Head(todo).do \in DOMAIN Returns, Run(<<>>),
         NEW v, values' = <<v>> \o values,
         \A N : Tree(N)!ParsedShape(v) /\ (v \in N => Is(v, Returns[Head(todo).do], N))
  PROVE  todo' \in Seq(Op) /\ Building'
<1> DEFINE d == Returns[Head(todo).do]
<1>1. d \in Class
  BY DEF Returns, Class
<1>2. ASSUME NEW N, Shaped(N)
      PROVE  \E M : N \subseteq M /\ Shaped(M) /\
               \A g \in Stack, c \in Class : Below(Returns[Head(todo).do], c) =>
                 \E e \in Class : Is(v, e, M) /\ Leads(<<>>, Append(g, e), Append(g, c))
  <2> DEFINE M == N \cup {v}
  <2>1. N \subseteq M /\ Shaped(M) /\ v \in M
    BY <1>2, ShapedGrows
  <2> HIDE DEF M
  <2>2. Is(v, d, M)
    BY <2>1
  <2>3. ASSUME NEW g \in Stack, NEW c \in Class, Below(d, c)
        PROVE  Is(v, c, M) /\ Leads(<<>>, Append(g, c), Append(g, c))
    BY <1>1, <2>2, <2>3, IsBelow, LeadsNowhere, Appended
  <2> QED
    BY <2>1, <2>3
<1>3. <<>> \in Seq(Op)
  OBVIOUS
<1> QED
  BY <1>2, <1>3, Delivers, Zenon

LEMMA NoItems == \A N : Is(<<>>, "Items", N)
BY DEF Is

LEMMA NoExpr == \A N : Is(Nil, "MaybeExpr", N) /\ Is(Nil, "MaybeStmt", N)
BY DEF Is

LEMMA ParseBlockKeeps ==
  ASSUME PInv, ParseBlock
  PROVE  todo' \in Seq(Op) /\ Building'
<1> DEFINE body == <<Consume("OPEN_BRACE"), Call("items")>>
<1>1. Consume("OPEN_BRACE") \in Op /\ Call("items") \in Op
  BY OpsTyped DEF Plain
<1>2. ASSUME NEW g \in Stack, NEW c \in Class, Below("Body", c)
      PROVE  Leads(body, Append(g, "Items"), Append(g, c))
  <2>1. Append(g, "Items") \in Stack /\ Append(g, "Body") \in Stack /\ c = "Body"
    BY <1>2, Appended, Classes
  <2>2. Step(Call("items"), Append(g, "Items"), Append(g, "Body"))
    BY StepItems
  <2> QED
    BY <1>1, <2>1, <2>2, StepConsume, Leads2
<1>3. body \in Seq(Op)
  BY <1>1, Tuple2
<1>4. /\ todo # <<>> /\ Head(todo).do = "block" /\ Run(body) /\ values' = <<<<>>>> \o values
      /\ "block" \in DOMAIN Returns /\ Returns["block"] = "Body" /\ "Items" \in Class
  BY DEF ParseBlock, Push, Doing, Returns, Class
<1> HIDE DEF body
<1> QED
  BY <1>2, <1>3, <1>4, NoItems, DeliversConstant

LEMMA InitializerEnds ==
  ASSUME PInv, ParseInitializer, type # "ASSIGNMENT", Head(todo).id \in Ident
  PROVE  todo' \in Seq(Op) /\ Building'
<1> DEFINE body == <<Consume("SEMICOLON"), MakeOver("DeclarationVariable", Head(todo).id)>>
<1>1. Consume("SEMICOLON") \in Op /\ MakeOver("DeclarationVariable", Head(todo).id) \in Op
  BY OpsTyped DEF Plain
<1>2. ASSUME NEW g \in Stack, NEW c \in Class, Below("Item", c)
      PROVE  Leads(body, Append(g, "MaybeExpr"), Append(g, c))
  <2>1. Append(g, "MaybeExpr") \in Stack /\ Append(g, c) \in Stack
    BY Appended, Classes
  <2>2. Step(MakeOver("DeclarationVariable", Head(todo).id), Append(g, "MaybeExpr"), Append(g, c))
    BY <1>2, StepMake1 DEF MakeOver, Takes1, Makes
  <2> QED
    BY <1>1, <2>1, <2>2, StepConsume, Leads2
<1>3. body \in Seq(Op)
  BY <1>1, Tuple2
<1>4. /\ todo # <<>> /\ Head(todo).do = "initializer" /\ Run(body)
      /\ values' = <<Nil>> \o values
      /\ "initializer" \in DOMAIN Returns /\ Returns["initializer"] = "Item"
      /\ "MaybeExpr" \in Class
  BY DEF ParseInitializer, Push, Doing, Returns, Class
<1> HIDE DEF body
<1> QED
  BY <1>2, <1>3, <1>4, NoExpr, DeliversConstant

LEMMA ReturnValueEnds ==
  ASSUME PInv, ReturnValue, type = "SEMICOLON"
  PROVE  todo' \in Seq(Op) /\ Building'
<1> DEFINE body == <<Consume("SEMICOLON"), Make("ReturnStmt")>>
<1>1. Consume("SEMICOLON") \in Op /\ Make("ReturnStmt") \in Op
  BY OpsTyped DEF Plain
<1>2. ASSUME NEW g \in Stack, NEW c \in Class, Below("Stmt", c)
      PROVE  Leads(body, Append(g, "MaybeExpr"), Append(g, c))
  <2>1. Append(g, "MaybeExpr") \in Stack /\ Append(g, c) \in Stack
    BY Appended, Classes
  <2>2. Step(Make("ReturnStmt"), Append(g, "MaybeExpr"), Append(g, c))
    BY <1>2, StepMake1 DEF Make, Takes1, Makes
  <2> QED
    BY <1>1, <2>1, <2>2, StepConsume, Leads2
<1>3. body \in Seq(Op)
  BY <1>1, Tuple2
<1>4. /\ todo # <<>> /\ Head(todo).do = "return" /\ Run(body) /\ values' = <<Nil>> \o values
      /\ "return" \in DOMAIN Returns /\ Returns["return"] = "Stmt" /\ "MaybeExpr" \in Class
  BY DEF ReturnValue, Push, Doing, Returns, Class
<1> HIDE DEF body
<1> QED
  BY <1>2, <1>3, <1>4, NoExpr, DeliversConstant

LEMMA ParseNullKeeps ==
  ASSUME PInv, ParseNull
  PROVE  todo' \in Seq(Op) /\ Building'
<1>1. /\ todo # <<>> /\ Head(todo).do = "statement" /\ Run(<<>>)
      /\ values' = <<NullStmt>> \o values
      /\ "statement" \in DOMAIN Returns /\ Returns["statement"] = "Stmt"
  BY DEF ParseNull, Statement, Push, Doing, Returns
<1>2. \A N : Tree(N)!ParsedShape(NullStmt) /\ (NullStmt \in N => Is(NullStmt, "Stmt", N))
  BY DEF Tree!ParsedShape, NullStmt, Is, Tree!Stmt, Tree!StmtKind
<1> QED
  BY <1>1, <1>2, DeliversLeaf

LEMMA FactorVarKeeps ==
  ASSUME PInv, FactorVar, peek.text \in Ident
  PROVE  todo' \in Seq(Op) /\ Building'
<1>1. /\ todo # <<>> /\ Head(todo).do = "factor" /\ Run(<<>>)
      /\ values' = <<Var(peek.text)>> \o values
      /\ "factor" \in DOMAIN Returns /\ Returns["factor"] = "MaybeExpr"
  BY DEF FactorVar, Leaf, Push, Doing, Returns
<1>2. \A N : /\ Tree(N)!ParsedShape(Var(peek.text))
             /\ Var(peek.text) \in N => Is(Var(peek.text), "MaybeExpr", N)
  BY DEF Tree!ParsedShape, Var, Is, Tree!Expr, Tree!ExprKind
<1> QED
  BY <1>1, <1>2, DeliversLeaf

LEMMA FactorConstantKeeps ==
  ASSUME PInv, FactorConstant, peek.text \in Nat
  PROVE  todo' \in Seq(Op) /\ Building'
<1>1. PICK i \in Int : Leaf(Constant(i))
  BY InputAssumption DEF FactorConstant
<1>2. /\ todo # <<>> /\ Head(todo).do = "factor" /\ Run(<<>>)
      /\ values' = <<Constant(i)>> \o values
      /\ "factor" \in DOMAIN Returns /\ Returns["factor"] = "MaybeExpr"
  BY <1>1 DEF FactorConstant, Leaf, Push, Doing, Returns
<1>3. \A N : /\ Tree(N)!ParsedShape(Constant(i))
             /\ Constant(i) \in N => Is(Constant(i), "MaybeExpr", N)
  BY DEF Tree!ParsedShape, Constant, Is, Tree!Expr, Tree!ExprKind
<1> QED
  BY <1>2, <1>3, DeliversLeaf

LEMMA FactorNoneKeeps ==
  ASSUME PInv, FactorNone
  PROVE  todo' \in Seq(Op) /\ Building'
<1>1. ASSUME NEW g \in Stack, NEW c \in Class, Below("MaybeExpr", c)
      PROVE  Leads(<<>>, Append(g, "MaybeExpr"), Append(g, c))
  <2>1. c = "MaybeExpr" /\ Append(g, "MaybeExpr") \in Stack
    BY <1>1, Classes, Appended
  <2> QED
    BY <2>1, LeadsNowhere
<1>2. /\ todo # <<>> /\ Head(todo).do = "factor" /\ Run(<<>>) /\ values' = <<Nil>> \o values
      /\ "factor" \in DOMAIN Returns /\ Returns["factor"] = "MaybeExpr"
      /\ "MaybeExpr" \in Class /\ <<>> \in Seq(Op)
  BY DEF FactorNone, Push, Doing, Returns, Class
<1> QED
  BY <1>1, <1>2, NoExpr, DeliversConstant

(* A method that goes on with what is there.                               *)
LEMMA HeadTakes ==
  ASSUME PInv, todo # <<>>, Head(todo).do # "consume"
  PROVE  \E N, h, r, c, d :
           /\ Shaped(N) /\ Contracts(todo, h) /\ Matches(values, h[1], N)
           /\ h[1] \in Stack /\ r \in Stack /\ c \in Class /\ d \in Class
           /\ Consumes(Head(todo), h[1], r, d) /\ Below(d, c) /\ h[2] = Append(r, c)
<1>1. PICK N, h : /\ Shaped(N) /\ Contracts(todo, h) /\ Matches(values, h[1], N)
                  /\ h[1] \in Stack /\ h[2] \in Stack /\ Step(Head(todo), h[1], h[2])
  BY HeadOfAgenda
<1>2. PICK r \in Stack, c \in Class, d \in Class :
        Consumes(Head(todo), h[1], r, d) /\ Below(d, c) /\ h[2] = Append(r, c)
  BY <1>1 DEF Step
<1> QED
  BY <1>1, <1>2

LEMMA HeadItems ==
  ASSUME PInv, todo # <<>>, Head(todo).do = "items"
  PROVE  \E N, h, r :
           /\ Shaped(N) /\ Contracts(todo, h) /\ Matches(values, h[1], N) /\ r \in Stack
           /\ h[1] = Append(r, "Items") /\ h[1] \in Stack /\ h[2] = Append(r, "Body")
<1>1. PICK N, h, r, c, d :
           /\ Shaped(N) /\ Contracts(todo, h) /\ Matches(values, h[1], N)
           /\ h[1] \in Stack /\ r \in Stack /\ c \in Class /\ d \in Class
           /\ Consumes(Head(todo), h[1], r, d) /\ Below(d, c) /\ h[2] = Append(r, c)
  BY HeadTakes
<1>2. h[1] = Append(r, "Items") /\ d = "Body"
  BY <1>1 DEF Consumes, Returns
<1>3. c = "Body"
  BY <1>1, <1>2, Classes
<1> QED
  BY <1>1, <1>2, <1>3

LEMMA HeadElse ==
  ASSUME PInv, todo # <<>>, Head(todo).do = "else"
  PROVE  \E N, h, r, c :
           /\ Shaped(N) /\ Contracts(todo, h) /\ Matches(values, h[1], N)
           /\ r \in Stack /\ c \in Class /\ Below("Stmt", c)
           /\ h[1] = Append(Append(r, "Expr"), "Stmt") /\ h[1] \in Stack /\ h[2] = Append(r, c)
<1>1. PICK N, h, r, c, d :
           /\ Shaped(N) /\ Contracts(todo, h) /\ Matches(values, h[1], N)
           /\ h[1] \in Stack /\ r \in Stack /\ c \in Class /\ d \in Class
           /\ Consumes(Head(todo), h[1], r, d) /\ Below(d, c) /\ h[2] = Append(r, c)
  BY HeadTakes
<1>2. h[1] = Append(Append(r, "Expr"), "Stmt") /\ d = "Stmt"
  BY <1>1 DEF Consumes, Returns
<1> QED
  BY <1>1, <1>2

LEMMA HeadClimb ==
  ASSUME PInv, todo # <<>>, Head(todo).do = "climb"
  PROVE  \E N, h, r :
           /\ Shaped(N) /\ Contracts(todo, h) /\ Matches(values, h[1], N) /\ r \in Stack
           /\ h[1] = Append(r, "MaybeExpr") /\ h[1] \in Stack /\ h[2] = h[1]
<1>1. PICK N, h, r, c, d :
           /\ Shaped(N) /\ Contracts(todo, h) /\ Matches(values, h[1], N)
           /\ h[1] \in Stack /\ r \in Stack /\ c \in Class /\ d \in Class
           /\ Consumes(Head(todo), h[1], r, d) /\ Below(d, c) /\ h[2] = Append(r, c)
  BY HeadTakes
<1>2. h[1] = Append(r, "MaybeExpr") /\ d = "MaybeExpr"
  BY <1>1 DEF Consumes, Returns
<1>3. c = "MaybeExpr"
  BY <1>1, <1>2, Classes
<1> QED
  BY <1>1, <1>2, <1>3

LEMMA ItemsEnd ==
  ASSUME PInv, ParseItems, type = "CLOSE_BRACE"
  PROVE  todo' \in Seq(Op) /\ Building'
<1> DEFINE body == <<Consume("CLOSE_BRACE"), Make("Block")>>
<1>1. todo # <<>> /\ Head(todo).do = "items" /\ Run(body) /\ values' = values
  BY DEF ParseItems, Descend, Doing
<1>2. PICK N, h, r :
           /\ Shaped(N) /\ Contracts(todo, h) /\ Matches(values, h[1], N) /\ r \in Stack
           /\ h[1] = Append(r, "Items") /\ h[1] \in Stack /\ h[2] = Append(r, "Body")
  BY <1>1, HeadItems
<1>3. Append(r, "Body") \in Stack /\ Consume("CLOSE_BRACE") \in Op /\ Make("Block") \in Op
  BY <1>2, Appended, Classes, OpsTyped DEF Plain
<1>4. Step(Make("Block"), Append(r, "Items"), Append(r, "Body"))
  BY <1>2, Classes, StepMake1 DEF Make, Takes1, Makes
<1>5. body \in Seq(Op) /\ Leads(body, h[1], h[2])
  BY <1>2, <1>3, <1>4, StepConsume, Leads2
<1> HIDE DEF body
<1> QED
  BY <1>1, <1>2, <1>5, Proceeds DEF PInv

LEMMA ItemsGoOn ==
  ASSUME PInv, ParseItems, type # "CLOSE_BRACE"
  PROVE  todo' \in Seq(Op) /\ Building'
<1> DEFINE body == <<Call("item"), Call("push_back"), Call("items")>>
<1>1. todo # <<>> /\ Head(todo).do = "items" /\ Run(body) /\ values' = values
  BY DEF ParseItems, Descend, Doing
<1>2. PICK N, h, r :
           /\ Shaped(N) /\ Contracts(todo, h) /\ Matches(values, h[1], N) /\ r \in Stack
           /\ h[1] = Append(r, "Items") /\ h[1] \in Stack /\ h[2] = Append(r, "Body")
  BY <1>1, HeadItems
<1>3. /\ Append(r, "Body") \in Stack /\ Append(Append(r, "Items"), "Item") \in Stack
      /\ Call("item") \in Op /\ Call("push_back") \in Op /\ Call("items") \in Op
  BY <1>2, Appended, Classes, OpsTyped
<1>4. Step(Call("item"), Append(r, "Items"), Append(Append(r, "Items"), "Item"))
  BY <1>2, StepCall DEF Returns
<1>5. body \in Seq(Op) /\ Leads(body, h[1], h[2])
  BY <1>2, <1>3, <1>4, StepItems, Leads3
<1> HIDE DEF body
<1> QED
  BY <1>1, <1>2, <1>5, Proceeds DEF PInv

LEMMA ElseParses ==
  ASSUME PInv, ParseElse, type = "ELSE_KEYWORD"
  PROVE  todo' \in Seq(Op) /\ Building'
<1> DEFINE body == <<Call("statement"), Required, Make("IfStatement")>>
<1>1. todo # <<>> /\ Head(todo).do = "else" /\ Run(body) /\ values' = values
  BY DEF ParseElse, Take, Doing
<1>2. PICK N, h, r, c :
           /\ Shaped(N) /\ Contracts(todo, h) /\ Matches(values, h[1], N)
           /\ r \in Stack /\ c \in Class /\ Below("Stmt", c)
           /\ h[1] = Append(Append(r, "Expr"), "Stmt") /\ h[1] \in Stack /\ h[2] = Append(r, c)
  BY <1>1, HeadElse
<1>3. /\ Append(r, c) \in Stack /\ Append(Append(r, "Expr"), "Stmt") \in Stack
      /\ Append(Append(Append(r, "Expr"), "Stmt"), "Stmt") \in Stack
      /\ Append(Append(Append(r, "Expr"), "Stmt"), "MaybeStmt") \in Stack
      /\ Call("statement") \in Op /\ Required \in Op /\ Make("IfStatement") \in Op
  BY <1>2, Appended, Classes, OpsTyped
<1>4. Step(Call("statement"), Append(Append(r, "Expr"), "Stmt"),
           Append(Append(Append(r, "Expr"), "Stmt"), "Stmt"))
  BY <1>3, StepCall DEF Returns
<1>5. Step(Required, Append(Append(Append(r, "Expr"), "Stmt"), "Stmt"),
           Append(Append(Append(r, "Expr"), "Stmt"), "MaybeStmt"))
  BY <1>3, StepRequiredStmt
<1>6. Step(Make("IfStatement"), Append(Append(Append(r, "Expr"), "Stmt"), "MaybeStmt"), Append(r, c))
  BY <1>2, StepMakeIf
<1>7. body \in Seq(Op) /\ Leads(body, h[1], h[2])
  BY <1>2, <1>3, <1>4, <1>5, <1>6, Leads3
<1> HIDE DEF body
<1> QED
  BY <1>1, <1>2, <1>7, Proceeds DEF PInv

LEMMA ElseMissing ==
  ASSUME PInv, ParseElse, type # "ELSE_KEYWORD"
  PROVE  todo' \in Seq(Op) /\ Building'
<1> DEFINE body == <<Make("IfStatement")>>
<1>1. todo # <<>> /\ Head(todo).do = "else" /\ Run(body) /\ values' = <<Nil>> \o values
  BY DEF ParseElse, Push, Doing
<1>2. PICK N, h, r, c :
           /\ Shaped(N) /\ Contracts(todo, h) /\ Matches(values, h[1], N)
           /\ r \in Stack /\ c \in Class /\ Below("Stmt", c)
           /\ h[1] = Append(Append(r, "Expr"), "Stmt") /\ h[1] \in Stack /\ h[2] = Append(r, c)
  BY <1>1, HeadElse
<1> DEFINE g == Append(h[1], "MaybeStmt")
<1>3. /\ Append(r, c) \in Stack /\ g \in Stack /\ Make("IfStatement") \in Op
      /\ "MaybeStmt" \in Class
  BY <1>2, Appended, Classes, OpsTyped
<1>4. Step(Make("IfStatement"), g, Append(r, c))
  BY <1>2, StepMakeIf
<1>5. Matches(values', g, N)
  BY <1>1, <1>2, <1>3, NoExpr, Pushing
<1> HIDE DEF g
<1>6. body \in Seq(Op) /\ Leads(body, g, h[2])
  BY <1>2, <1>3, <1>4, Leads1
<1> HIDE DEF body
<1> QED
  BY <1>1, <1>2, <1>3, <1>5, <1>6, Proceeds DEF PInv

LEMMA EndClimbKeeps ==
  ASSUME PInv, EndClimb
  PROVE  todo' \in Seq(Op) /\ Building'
<1>1. todo # <<>> /\ Head(todo).do = "climb" /\ Run(<<>>) /\ values' = values
  BY DEF EndClimb, Descend, Doing
<1>2. PICK N, h, r :
           /\ Shaped(N) /\ Contracts(todo, h) /\ Matches(values, h[1], N) /\ r \in Stack
           /\ h[1] = Append(r, "MaybeExpr") /\ h[1] \in Stack /\ h[2] = h[1]
  BY <1>1, HeadClimb
<1>3. <<>> \in Seq(Op) /\ Leads(<<>>, h[1], h[2])
  BY <1>2, LeadsNowhere
<1> QED
  BY <1>1, <1>2, <1>3, Proceeds DEF PInv

(* The last value is also of another class.                                *)
LEMMA Reclass ==
  ASSUME NEW N, NEW r \in Stack, NEW c \in Class, NEW d \in Class,
         Matches(values, Append(r, c), N), Is(values[1], d, N)
  PROVE  Matches(values, Append(r, d), N)
<1> DEFINE g == Append(r, c)
           h == Append(r, d)
<1>1. /\ Len(g) = Len(r) + 1 /\ Len(h) = Len(r) + 1 /\ Len(r) \in Nat
      /\ \A i \in 1..Len(r) : g[i] = r[i] /\ h[i] = r[i]
      /\ h[Len(r) + 1] = d
  BY Appended
<1>2. Matches(values, g, N)
  OBVIOUS
<1> HIDE DEF g, h
<1>3. ASSUME NEW i \in 1..Len(h)
      PROVE  Is(values[Len(h) + 1 - i], h[i], N)
  <2>1. CASE i = Len(r) + 1
    <3>1. Len(h) + 1 - i = 1 /\ h[i] = d
      BY <2>1, <1>1
    <3> QED
      BY <3>1
  <2>2. CASE i # Len(r) + 1
    <3>1. i \in 1..Len(r) /\ i \in 1..Len(g) /\ Len(h) + 1 - i = Len(g) + 1 - i /\ h[i] = g[i]
      BY <2>2, <1>1
    <3>2. Is(values[Len(g) + 1 - i], g[i], N)
      BY <3>1, <1>2 DEF Matches
    <3> QED
      BY <3>1, <3>2
  <2> QED
    BY <2>1, <2>2
<1>4. Matches(values, h, N)
  BY <1>1, <1>2, <1>3 DEF Matches
<1> QED
  BY <1>4 DEF h

(* The left operand is there.                                              *)
LEMMA LeftOperand ==
  ASSUME NEW N, NEW r \in Stack, Matches(values, Append(r, "MaybeExpr"), N),
         Head(values) # Nil
  PROVE  Matches(values, Append(r, "Expr"), N)
<1>1. Is(values[1], "MaybeExpr", N) /\ Head(values) = values[1]
  BY PopOne, Classes
<1>2. Is(values[1], "Expr", N)
  BY <1>1 DEF Is
<1> QED
  BY <1>2, Reclass, Classes

(* The loop of parse_expr goes round once more.                            *)
LEMMA ClimbsOn ==
  ASSUME PInv, todo # <<>>, Head(todo).do = "climb", Head(values) # Nil,
         NEW body \in Seq(Op), Run(body), values' = values,
         \A r \in Stack : Leads(body, Append(r, "Expr"), Append(r, "MaybeExpr"))
  PROVE  todo' \in Seq(Op) /\ Building'
<1>1. PICK N, h, r :
           /\ Shaped(N) /\ Contracts(todo, h) /\ Matches(values, h[1], N) /\ r \in Stack
           /\ h[1] = Append(r, "MaybeExpr") /\ h[1] \in Stack /\ h[2] = h[1]
  BY HeadClimb
<1>2. Matches(values', Append(r, "Expr"), N) /\ Append(r, "Expr") \in Stack
  BY <1>1, LeftOperand, Appended, Classes
<1>3. Leads(body, Append(r, "Expr"), h[2])
  BY <1>1
<1> QED
  BY <1>1, <1>2, <1>3, Proceeds DEF PInv

(* A climb on the agenda is one that the agenda may have.                  *)
LEMMA RightOperand ==
  ASSUME NEW r \in Stack, NEW p \in Int, NEW o \in Op, o.do = "make",
         o.class \in {"BinaryOperator", "Assignment"}, NEW climb \in Op, climb.do = "climb"
  PROVE  LET body == <<parse_expr(p), Required, o, climb>>
         IN  body \in Seq(Op) /\ Leads(body, Append(r, "Expr"), Append(r, "MaybeExpr"))
<1>1. /\ Append(r, "Expr") \in Stack /\ Append(r, "MaybeExpr") \in Stack
      /\ Append(Append(r, "Expr"), "MaybeExpr") \in Stack
      /\ Append(Append(r, "Expr"), "Expr") \in Stack
      /\ parse_expr(p) \in Op /\ Required \in Op
  BY Appended, Classes, OpsTyped
<1>2. Step(parse_expr(p), Append(r, "Expr"), Append(Append(r, "Expr"), "MaybeExpr"))
  BY <1>1, StepExpr
<1>3. Step(Required, Append(Append(r, "Expr"), "MaybeExpr"), Append(Append(r, "Expr"), "Expr"))
  BY <1>1, StepRequired
<1>4. Step(o, Append(Append(r, "Expr"), "Expr"), Append(r, "MaybeExpr"))
  BY StepMake2
<1>5. Step(climb, Append(r, "MaybeExpr"), Append(r, "MaybeExpr"))
  BY StepClimb
<1> QED
  BY <1>1, <1>2, <1>3, <1>4, <1>5, Leads4

LEMMA Precedences == \A t : get_precedence(t) \in Int
BY DEF get_precedence

LEMMA ClimbAssignmentKeeps ==
  ASSUME PInv, ClimbAssignment
  PROVE  todo' \in Seq(Op) /\ Building'
<1> DEFINE body == <<parse_expr(get_precedence("ASSIGNMENT")), Required,
                     Make("Assignment"), Head(todo)>>
<1>1. /\ todo # <<>> /\ Head(todo).do = "climb" /\ Head(values) # Nil /\ Run(body)
      /\ values' = values
  BY DEF ClimbAssignment, Climbing, Take, Doing
<1>2. Head(todo) \in Op /\ Make("Assignment") \in Op /\ get_precedence("ASSIGNMENT") \in Int
  BY <1>1, HeadOfAgenda, OpsTyped, Precedences
<1>3. \A r \in Stack : Leads(body, Append(r, "Expr"), Append(r, "MaybeExpr"))
  BY <1>1, <1>2, RightOperand DEF Make
<1>4. body \in Seq(Op)
  BY <1>2, OpsTyped, Tuple4
<1> HIDE DEF body
<1> QED
  BY <1>1, <1>3, <1>4, ClimbsOn

LEMMA BinaryOperators == \A t \in DOMAIN binary_op : binary_op[t] \in Tree({})!BinaryOpType
BY DEF binary_op, Tree!BinaryOpType, Tree!ArithmeticOpType, Tree!RelationalOpType

LEMMA ClimbBinaryKeeps ==
  ASSUME PInv, ClimbBinary
  PROVE  todo' \in Seq(Op) /\ Building'
<1>1. PICK t \in DOMAIN binary_op :
        /\ Climbing(t)
        /\ Take(<<parse_expr(get_precedence(t) + 1), Required,
                   MakeOver("BinaryOperator", binary_op[t]), Head(todo)>>)
  BY DEF ClimbBinary
<1> DEFINE body == <<parse_expr(get_precedence(t) + 1), Required,
                     MakeOver("BinaryOperator", binary_op[t]), Head(todo)>>
<1>2. /\ todo # <<>> /\ Head(todo).do = "climb" /\ Head(values) # Nil /\ Run(body)
      /\ values' = values
  BY <1>1 DEF Climbing, Take, Doing
<1>3. /\ Head(todo) \in Op /\ MakeOver("BinaryOperator", binary_op[t]) \in Op
      /\ get_precedence(t) + 1 \in Int
  BY <1>2, HeadOfAgenda, OpsTyped, Precedences, BinaryOperators
<1>4. \A r \in Stack : Leads(body, Append(r, "Expr"), Append(r, "MaybeExpr"))
  BY <1>2, <1>3, RightOperand DEF MakeOver
<1>5. body \in Seq(Op)
  BY <1>3, OpsTyped, Tuple4
<1> HIDE DEF body
<1> QED
  BY <1>2, <1>4, <1>5, ClimbsOn

LEMMA ClimbConditionalKeeps ==
  ASSUME PInv, ClimbConditional
  PROVE  todo' \in Seq(Op) /\ Building'
<1> DEFINE p == get_precedence("QUESTION_MARK_DELIMITER")
           body == <<parse_expr(0), Consume("COLON_DELIMITER"), parse_expr(p),
                     Make("Conditional"), Head(todo)>>
<1>1. /\ todo # <<>> /\ Head(todo).do = "climb" /\ Head(values) # Nil /\ Run(body)
      /\ values' = values
  BY DEF ClimbConditional, Climbing, Take, Doing
<1>2. p \in Int
  BY Precedences
<1> HIDE DEF p
<1>3. /\ Head(todo) \in Op /\ Make("Conditional") \in Op /\ parse_expr(0) \in Op
      /\ parse_expr(p) \in Op /\ Consume("COLON_DELIMITER") \in Op
  BY <1>1, <1>2, HeadOfAgenda, OpsTyped DEF Plain
<1>4. ASSUME NEW r \in Stack
      PROVE  Leads(body, Append(r, "Expr"), Append(r, "MaybeExpr"))
  <2>1. /\ Append(r, "Expr") \in Stack /\ Append(r, "MaybeExpr") \in Stack
        /\ Append(Append(r, "Expr"), "MaybeExpr") \in Stack
        /\ Append(Append(Append(r, "Expr"), "MaybeExpr"), "MaybeExpr") \in Stack
    BY Appended, Classes
  <2>2. Step(parse_expr(0), Append(r, "Expr"), Append(Append(r, "Expr"), "MaybeExpr"))
    BY <2>1, StepExpr
  <2>3. Step(parse_expr(p), Append(Append(r, "Expr"), "MaybeExpr"),
             Append(Append(Append(r, "Expr"), "MaybeExpr"), "MaybeExpr"))
    BY <2>1, StepExpr
  <2>4. Step(Make("Conditional"), Append(Append(Append(r, "Expr"), "MaybeExpr"), "MaybeExpr"),
             Append(r, "MaybeExpr"))
    BY StepMakeConditional
  <2>5. Step(Head(todo), Append(r, "MaybeExpr"), Append(r, "MaybeExpr"))
    BY <1>1, StepClimb
  <2> QED
    BY <1>3, <2>1, <2>2, <2>3, <2>4, <2>5, StepConsume, Leads5
<1>5. body \in Seq(Op)
  BY <1>3, Tuple5
<1> HIDE DEF body
<1> QED
  BY <1>1, <1>4, <1>5, ClimbsOn

LEMMA ExpectedKeeps ==
  ASSUME PInv, Expected
  PROVE  todo' \in Seq(Op) /\ Building'
<1>1. todo # <<>> /\ Head(todo).do = "consume" /\ Run(<<>>) /\ values' = values
  BY DEF Expected, Take, Doing
<1>2. PICK N, h : /\ Shaped(N) /\ Contracts(todo, h) /\ Matches(values, h[1], N)
                  /\ h[1] \in Stack /\ h[2] \in Stack /\ Step(Head(todo), h[1], h[2])
  BY <1>1, HeadOfAgenda
<1>3. h[2] = h[1]
  BY <1>1, <1>2 DEF Step
<1>4. <<>> \in Seq(Op) /\ Leads(<<>>, h[1], h[2])
  BY <1>2, <1>3, LeadsNowhere
<1> QED
  BY <1>1, <1>2, <1>4, Proceeds DEF PInv

LEMMA GivenKeeps ==
  ASSUME PInv, Given
  PROVE  todo' \in Seq(Op) /\ Building'
<1>1. /\ todo # <<>> /\ Head(todo).do = "required" /\ Run(<<>>) /\ values' = values
      /\ Head(values) # Nil
  BY DEF Given, Descend, Doing
<1>2. PICK N, h, r, c, d :
           /\ Shaped(N) /\ Contracts(todo, h) /\ Matches(values, h[1], N)
           /\ h[1] \in Stack /\ r \in Stack /\ c \in Class /\ d \in Class
           /\ Consumes(Head(todo), h[1], r, d) /\ Below(d, c) /\ h[2] = Append(r, c)
  BY <1>1, HeadTakes
<1>3. \/ h[1] = Append(r, "MaybeExpr") /\ d = "Expr"
      \/ h[1] = Append(r, "Stmt") /\ d = "Stmt"
  BY <1>1, <1>2 DEF Consumes, Returns
<1>4. Matches(values, Append(r, d), N)
  BY <1>1, <1>2, <1>3, LeftOperand
<1>5. Is(values[1], c, N)
  BY <1>2, <1>4, PopOne, IsBelow
<1>6. Matches(values', Append(r, c), N) /\ Append(r, c) \in Stack
  BY <1>1, <1>2, <1>4, <1>5, Reclass, Appended
<1>7. <<>> \in Seq(Op) /\ Leads(<<>>, Append(r, c), h[2])
  BY <1>2, <1>6, LeadsNowhere
<1> QED
  BY <1>1, <1>2, <1>6, <1>7, Proceeds DEF PInv

LEMMA PushBackKeeps ==
  ASSUME PInv, PushBack
  PROVE  todo' \in Seq(Op) /\ Building'
<1> DEFINE v == Append(values[2], values[1])
           rest == SubSeq(values, 3, Len(values))
<1>1. todo # <<>> /\ Head(todo).do = "push_back" /\ Run(<<>>) /\ values' = <<v>> \o rest
  BY DEF PushBack, Doing
<1>2. PICK N, h, r, c, d :
           /\ Shaped(N) /\ Contracts(todo, h) /\ Matches(values, h[1], N)
           /\ h[1] \in Stack /\ r \in Stack /\ c \in Class /\ d \in Class
           /\ Consumes(Head(todo), h[1], r, d) /\ Below(d, c) /\ h[2] = Append(r, c)
  BY <1>1, HeadTakes
<1>3. h[1] = Append(Append(r, "Items"), "Item") /\ d = "Items"
  BY <1>1, <1>2 DEF Consumes, Returns
<1>4. c = "Items"
  BY <1>2, <1>3, Classes
<1>5. Is(values[1], "Item", N) /\ Is(values[2], "Items", N) /\ Matches(rest, r, N)
  BY <1>2, <1>3, PopTwo, Classes
<1>6. Is(v, "Items", N)
  <2>1. values[1] \in Tree(N)!Item /\ values[2] \in Seq(Tree(N)!Item)
    BY <1>5 DEF Is
  <2>2. v \in Seq(Tree(N)!Item)
    BY <2>1
  <2> HIDE DEF v
  <2> QED
    BY <2>2 DEF Is
<1> HIDE DEF v, rest
<1>7. Matches(values', Append(r, "Items"), N) /\ Append(r, "Items") \in Stack
  BY <1>1, <1>2, <1>5, <1>6, Pushing, Appended, Classes
<1>8. <<>> \in Seq(Op) /\ Leads(<<>>, Append(r, "Items"), h[2])
  BY <1>2, <1>4, <1>7, LeadsNowhere
<1> QED
  BY <1>1, <1>2, <1>7, <1>8, Proceeds DEF PInv

-----------------------------------------------------------------------------
(* Nodes are made.                                                         *)

(* A node in place of the operands that it owns.                           *)
LEMMA Builds ==
  ASSUME PInv, todo # <<>>, Run(<<>>), NEW N, NEW h, Shaped(N), Contracts(todo, h),
         NEW r \in Stack, NEW c \in Class, NEW d \in Class, Below(d, c),
         h[2] = Append(r, c),
         NEW rest, Matches(rest, r, N), NEW v, Tree(N)!ParsedShape(v),
         \A M : v \in M => Is(v, d, M), values' = <<v>> \o rest
  PROVE  todo' \in Seq(Op) /\ Building'
<1> DEFINE M == N \cup {v}
<1>1. N \subseteq M /\ v \in M /\ Shaped(M)
  BY ShapedGrows
<1> HIDE DEF M
<1>2. Is(v, c, M)
  BY <1>1, IsBelow
<1>3. Matches(rest, r, M)
  BY <1>1, MatchesGrow
<1>4. Matches(values', Append(r, c), M) /\ Append(r, c) \in Stack
  BY <1>2, <1>3, Pushing, Appended
<1>5. <<>> \in Seq(Op) /\ Leads(<<>>, Append(r, c), h[2])
  BY <1>4, LeadsNowhere
<1> QED
  BY <1>1, <1>4, <1>5, Proceeds DEF PInv

(* The operands of the nodes that can be on the agenda.                    *)
LEMMA Makers ==
  ASSUME NEW o \in Op, o.do = "make"
  PROVE  /\ o.class \in DOMAIN Makes
         /\ o.class = "DeclarationVariable" => o.op \in Ident
         /\ o.class = "UnaryOperator" => o.op \in Tree({})!UnaryOpType
         /\ o.class = "BinaryOperator" => o.op \in Tree({})!BinaryOpType
BY DEF Op, Makes, Returns

(* The shape of a node made of operands of these classes.                  *)
LEMMA FunctionShape ==
  ASSUME NEW N, NEW a, Is(a, "Body", N)
  PROVE  /\ Tree(N)!ParsedShape(Function(a))
         /\ \A M : Function(a) \in M => Is(Function(a), "Function", M)
<1>1. Tree(N)!ParsedShape(Function(a))
  BY DEF Is, Function, Tree!ParsedShape, Nil, Tree!Nil, Tree!UnaryOpType, Tree!BinaryOpType,
         Tree!ArithmeticOpType, Tree!RelationalOpType
<1>2. \A M : Function(a) \in M => Is(Function(a), "Function", M)
  BY DEF Is, Function, Tree!Program
<1> QED
  BY <1>1, <1>2

LEMMA BlockShape ==
  ASSUME NEW N, NEW a, Is(a, "Items", N)
  PROVE  /\ Tree(N)!ParsedShape(Block(a))
         /\ \A M : Block(a) \in M => Is(Block(a), "Body", M)
<1>1. Tree(N)!ParsedShape(Block(a))
  BY DEF Is, Block, Tree!ParsedShape, Nil, Tree!Nil, Tree!UnaryOpType, Tree!BinaryOpType,
         Tree!ArithmeticOpType, Tree!RelationalOpType
<1>2. \A M : Block(a) \in M => Is(Block(a), "Body", M)
  BY DEF Is, Block, Tree!Body
<1> QED
  BY <1>1, <1>2

LEMMA ReturnStmtShape ==
  ASSUME NEW N, NEW a, Is(a, "MaybeExpr", N)
  PROVE  /\ Tree(N)!ParsedShape(ReturnStmt(a))
         /\ \A M : ReturnStmt(a) \in M => Is(ReturnStmt(a), "Stmt", M)
<1>1. Tree(N)!ParsedShape(ReturnStmt(a))
  BY DEF Is, ReturnStmt, Tree!ParsedShape, Nil, Tree!Nil, Tree!UnaryOpType,
         Tree!BinaryOpType,
         Tree!ArithmeticOpType, Tree!RelationalOpType
<1>2. \A M : ReturnStmt(a) \in M => Is(ReturnStmt(a), "Stmt", M)
  BY DEF Is, ReturnStmt, Tree!Stmt, Tree!StmtKind
<1> QED
  BY <1>1, <1>2

LEMMA CompoundStmtShape ==
  ASSUME NEW N, NEW a, Is(a, "Body", N)
  PROVE  /\ Tree(N)!ParsedShape(CompoundStmt(a))
         /\ \A M : CompoundStmt(a) \in M => Is(CompoundStmt(a), "Stmt", M)
<1>1. Tree(N)!ParsedShape(CompoundStmt(a))
  BY DEF Is, CompoundStmt, Tree!ParsedShape, Nil, Tree!Nil, Tree!UnaryOpType,
         Tree!BinaryOpType,
         Tree!ArithmeticOpType, Tree!RelationalOpType
<1>2. \A M : CompoundStmt(a) \in M => Is(CompoundStmt(a), "Stmt", M)
  BY DEF Is, CompoundStmt, Tree!Stmt, Tree!StmtKind
<1> QED
  BY <1>1, <1>2

LEMMA ExpressionStmtShape ==
  ASSUME NEW N, NEW a, Is(a, "Expr", N)
  PROVE  /\ Tree(N)!ParsedShape(ExpressionStmt(a))
         /\ \A M : ExpressionStmt(a) \in M => Is(ExpressionStmt(a), "Stmt", M)
<1>1. Tree(N)!ParsedShape(ExpressionStmt(a))
  BY DEF Is, ExpressionStmt, Tree!ParsedShape, Nil, Tree!Nil, Tree!UnaryOpType,
         Tree!BinaryOpType,
         Tree!ArithmeticOpType, Tree!RelationalOpType
<1>2. \A M : ExpressionStmt(a) \in M => Is(ExpressionStmt(a), "Stmt", M)
  BY DEF Is, ExpressionStmt, Tree!Stmt, Tree!StmtKind
<1> QED
  BY <1>1, <1>2

LEMMA DeclarationVariableShape ==
  ASSUME NEW N, NEW x, x \in Ident, NEW a, Is(a, "MaybeExpr", N)
  PROVE  /\ Tree(N)!ParsedShape(DeclarationVariable(x, a))
         /\ \A M : DeclarationVariable(x, a) \in M => Is(DeclarationVariable(x, a), "Item", M)
<1>1. Tree(N)!ParsedShape(DeclarationVariable(x, a))
  BY DEF Is, DeclarationVariable, Tree!ParsedShape, Nil, Tree!Nil, Tree!UnaryOpType,
         Tree!BinaryOpType,
         Tree!ArithmeticOpType, Tree!RelationalOpType
<1>2. \A M : DeclarationVariable(x, a) \in M => Is(DeclarationVariable(x, a), "Item", M)
  BY DEF Is, DeclarationVariable, Tree!Item
<1> QED
  BY <1>1, <1>2

LEMMA UnaryOperatorShape ==
  ASSUME NEW N, NEW x, x \in Tree({})!UnaryOpType, NEW a, Is(a, "Expr", N)
  PROVE  /\ Tree(N)!ParsedShape(UnaryOperator(x, a))
         /\ \A M : UnaryOperator(x, a) \in M => Is(UnaryOperator(x, a), "MaybeExpr", M)
<1>1. Tree(N)!ParsedShape(UnaryOperator(x, a))
  BY DEF Is, UnaryOperator, Tree!ParsedShape, Nil, Tree!Nil, Tree!UnaryOpType,
         Tree!BinaryOpType,
         Tree!ArithmeticOpType, Tree!RelationalOpType
<1>2. \A M : UnaryOperator(x, a) \in M => Is(UnaryOperator(x, a), "MaybeExpr", M)
  BY DEF Is, UnaryOperator, Tree!Expr, Tree!ExprKind
<1> QED
  BY <1>1, <1>2

LEMMA BinaryOperatorShape ==
  ASSUME NEW N, NEW x, x \in Tree({})!BinaryOpType, NEW a, NEW b, Is(a, "Expr", N),
         Is(b, "Expr", N)
  PROVE  /\ Tree(N)!ParsedShape(BinaryOperator(x, a, b))
         /\ \A M : BinaryOperator(x, a, b) \in M => Is(BinaryOperator(x, a, b), "MaybeExpr", M)
<1>1. Tree(N)!ParsedShape(BinaryOperator(x, a, b))
  BY DEF Is, BinaryOperator, Tree!ParsedShape, Nil, Tree!Nil, Tree!UnaryOpType,
         Tree!BinaryOpType,
         Tree!ArithmeticOpType, Tree!RelationalOpType
<1>2. \A M : BinaryOperator(x, a, b) \in M => Is(BinaryOperator(x, a, b), "MaybeExpr", M)
  BY DEF Is, BinaryOperator, Tree!Expr, Tree!ExprKind
<1> QED
  BY <1>1, <1>2

LEMMA AssignmentShape ==
  ASSUME NEW N, NEW a, NEW b, Is(a, "Expr", N), Is(b, "Expr", N)
  PROVE  /\ Tree(N)!ParsedShape(Assignment(a, b))
         /\ \A M : Assignment(a, b) \in M => Is(Assignment(a, b), "MaybeExpr", M)
<1>1. Tree(N)!ParsedShape(Assignment(a, b))
  BY DEF Is, Assignment, Tree!ParsedShape, Nil, Tree!Nil, Tree!UnaryOpType,
         Tree!BinaryOpType,
         Tree!ArithmeticOpType, Tree!RelationalOpType
<1>2. \A M : Assignment(a, b) \in M => Is(Assignment(a, b), "MaybeExpr", M)
  BY DEF Is, Assignment, Tree!Expr, Tree!ExprKind
<1> QED
  BY <1>1, <1>2

LEMMA IfStatementShape ==
  ASSUME NEW N, NEW a, NEW b, NEW c, Is(a, "Expr", N), Is(b, "Stmt", N),
         Is(c, "MaybeStmt", N)
  PROVE  /\ Tree(N)!ParsedShape(IfStatement(a, b, c))
         /\ \A M : IfStatement(a, b, c) \in M => Is(IfStatement(a, b, c), "Stmt", M)
<1>1. Tree(N)!ParsedShape(IfStatement(a, b, c))
  BY DEF Is, IfStatement, Tree!ParsedShape, Nil, Tree!Nil, Tree!UnaryOpType,
         Tree!BinaryOpType,
         Tree!ArithmeticOpType, Tree!RelationalOpType
<1>2. \A M : IfStatement(a, b, c) \in M => Is(IfStatement(a, b, c), "Stmt", M)
  BY DEF Is, IfStatement, Tree!Stmt, Tree!StmtKind
<1> QED
  BY <1>1, <1>2

LEMMA ConditionalShape ==
  ASSUME NEW N, NEW a, NEW b, NEW c, Is(a, "Expr", N), Is(b, "MaybeExpr", N),
         Is(c, "MaybeExpr", N)
  PROVE  /\ Tree(N)!ParsedShape(Conditional(a, b, c))
         /\ \A M : Conditional(a, b, c) \in M => Is(Conditional(a, b, c), "MaybeExpr", M)
<1>1. Tree(N)!ParsedShape(Conditional(a, b, c))
  BY DEF Is, Conditional, Tree!ParsedShape, Nil, Tree!Nil, Tree!UnaryOpType,
         Tree!BinaryOpType,
         Tree!ArithmeticOpType, Tree!RelationalOpType
<1>2. \A M : Conditional(a, b, c) \in M => Is(Conditional(a, b, c), "MaybeExpr", M)
  BY DEF Is, Conditional, Tree!Expr, Tree!ExprKind
<1> QED
  BY <1>1, <1>2

(* Which node MakeNode makes, and of how many values.                      *)
LEMMA MakesFunction ==
  ASSUME Head(todo).class = "Function"
  PROVE  Operands = 1 /\ Made = Function(values[1])
<1>1. Operands = 1
  BY DEF Operands
<1> QED
  BY <1>1 DEF Made

LEMMA MakesBlock ==
  ASSUME Head(todo).class = "Block"
  PROVE  Operands = 1 /\ Made = Block(values[1])
<1>1. Operands = 1
  BY DEF Operands
<1> QED
  BY <1>1 DEF Made

LEMMA MakesReturnStmt ==
  ASSUME Head(todo).class = "ReturnStmt"
  PROVE  Operands = 1 /\ Made = ReturnStmt(values[1])
<1>1. Operands = 1
  BY DEF Operands
<1> QED
  BY <1>1 DEF Made

LEMMA MakesCompoundStmt ==
  ASSUME Head(todo).class = "CompoundStmt"
  PROVE  Operands = 1 /\ Made = CompoundStmt(values[1])
<1>1. Operands = 1
  BY DEF Operands
<1> QED
  BY <1>1 DEF Made

LEMMA MakesExpressionStmt ==
  ASSUME Head(todo).class = "ExpressionStmt"
  PROVE  Operands = 1 /\ Made = ExpressionStmt(values[1])
<1>1. Operands = 1
  BY DEF Operands
<1> QED
  BY <1>1 DEF Made

LEMMA MakesDeclarationVariable ==
  ASSUME Head(todo).class = "DeclarationVariable"
  PROVE  Operands = 1 /\ Made = DeclarationVariable(Head(todo).op, values[1])
<1>1. Operands = 1
  BY DEF Operands
<1> QED
  BY <1>1 DEF Made

LEMMA MakesUnaryOperator ==
  ASSUME Head(todo).class = "UnaryOperator"
  PROVE  Operands = 1 /\ Made = UnaryOperator(Head(todo).op, values[1])
<1>1. Operands = 1
  BY DEF Operands
<1> QED
  BY <1>1 DEF Made

LEMMA MakesBinaryOperator ==
  ASSUME Head(todo).class = "BinaryOperator"
  PROVE  Operands = 2 /\ Made = BinaryOperator(Head(todo).op, values[2], values[1])
<1>1. Operands = 2
  BY DEF Operands
<1> QED
  BY <1>1 DEF Made

LEMMA MakesAssignment ==
  ASSUME Head(todo).class = "Assignment"
  PROVE  Operands = 2 /\ Made = Assignment(values[2], values[1])
<1>1. Operands = 2
  BY DEF Operands
<1> QED
  BY <1>1 DEF Made

LEMMA MakesIfStatement ==
  ASSUME Head(todo).class = "IfStatement"
  PROVE  Operands = 3 /\ Made = IfStatement(values[3], values[2], values[1])
<1>1. Operands = 3
  BY DEF Operands
<1> QED
  BY <1>1 DEF Made

LEMMA MakesConditional ==
  ASSUME Head(todo).class = "Conditional"
  PROVE  Operands = 3 /\ Made = Conditional(values[3], values[2], values[1])
<1>1. Operands = 3
  BY DEF Operands
<1> QED
  BY <1>1 DEF Made

LEMMA MakesOne ==
  ASSUME Head(todo) \in Op, Head(todo).do = "make", Head(todo).class \in DOMAIN Takes1,
         NEW N, Is(values[1], Takes1[Head(todo).class], N)
  PROVE  /\ Operands = 1 /\ Tree(N)!ParsedShape(Made)
         /\ \A M : Made \in M => Is(Made, Makes[Head(todo).class], M)
<1>1. CASE Head(todo).class = "Function"
  <2>1. Is(values[1], Takes1["Function"], N) /\ Made = Function(values[1]) /\ Operands = 1
    BY <1>1, MakesFunction
  <2> QED
    BY <1>1, <2>1, FunctionShape DEF Takes1, Makes
<1>2. CASE Head(todo).class = "Block"
  <2>1. Is(values[1], Takes1["Block"], N) /\ Made = Block(values[1]) /\ Operands = 1
    BY <1>2, MakesBlock
  <2> QED
    BY <1>2, <2>1, BlockShape DEF Takes1, Makes
<1>3. CASE Head(todo).class = "ReturnStmt"
  <2>1. Is(values[1], Takes1["ReturnStmt"], N) /\ Made = ReturnStmt(values[1]) /\ Operands = 1
    BY <1>3, MakesReturnStmt
  <2> QED
    BY <1>3, <2>1, ReturnStmtShape DEF Takes1, Makes
<1>4. CASE Head(todo).class = "CompoundStmt"
  <2>1. Is(values[1], Takes1["CompoundStmt"], N) /\ Made = CompoundStmt(values[1]) /\ Operands = 1
    BY <1>4, MakesCompoundStmt
  <2> QED
    BY <1>4, <2>1, CompoundStmtShape DEF Takes1, Makes
<1>5. CASE Head(todo).class = "ExpressionStmt"
  <2>1. Is(values[1], Takes1["ExpressionStmt"], N) /\ Made = ExpressionStmt(values[1]) /\ Operands = 1
    BY <1>5, MakesExpressionStmt
  <2> QED
    BY <1>5, <2>1, ExpressionStmtShape DEF Takes1, Makes
<1>6. CASE Head(todo).class = "DeclarationVariable"
  <2>1. Is(values[1], Takes1["DeclarationVariable"], N) /\ Made = DeclarationVariable(Head(todo).op, values[1]) /\ Operands = 1
    BY <1>6, MakesDeclarationVariable
  <2> QED
    BY <1>6, <2>1, DeclarationVariableShape, Makers DEF Takes1, Makes
<1>7. CASE Head(todo).class = "UnaryOperator"
  <2>1. Is(values[1], Takes1["UnaryOperator"], N) /\ Made = UnaryOperator(Head(todo).op, values[1]) /\ Operands = 1
    BY <1>7, MakesUnaryOperator
  <2> QED
    BY <1>7, <2>1, UnaryOperatorShape, Makers DEF Takes1, Makes
<1> QED
  BY <1>1, <1>2, <1>3, <1>4, <1>5, <1>6, <1>7 DEF Takes1

LEMMA MakesTwo ==
  ASSUME Head(todo) \in Op, Head(todo).do = "make",
         Head(todo).class \in {"BinaryOperator", "Assignment"},
         NEW N, Is(values[1], "Expr", N), Is(values[2], "Expr", N)
  PROVE  /\ Operands = 2 /\ Tree(N)!ParsedShape(Made)
         /\ \A M : Made \in M => Is(Made, Makes[Head(todo).class], M)
<1>1. CASE Head(todo).class = "BinaryOperator"
  <2>1. Made = BinaryOperator(Head(todo).op, values[2], values[1]) /\ Operands = 2
    BY <1>1, MakesBinaryOperator
  <2> QED
    BY <1>1, <2>1, BinaryOperatorShape, Makers DEF Makes
<1>2. CASE Head(todo).class = "Assignment"
  <2>1. Made = Assignment(values[2], values[1]) /\ Operands = 2
    BY <1>2, MakesAssignment
  <2> QED
    BY <1>2, <2>1, AssignmentShape DEF Makes
<1> QED
  BY <1>1, <1>2

LEMMA MakesThree ==
  ASSUME Head(todo) \in Op, Head(todo).do = "make", Head(todo).class \in DOMAIN Takes3,
         NEW N, Is(values[1], Takes3[Head(todo).class][3], N),
         Is(values[2], Takes3[Head(todo).class][2], N),
         Is(values[3], Takes3[Head(todo).class][1], N)
  PROVE  /\ Operands = 3 /\ Tree(N)!ParsedShape(Made)
         /\ \A M : Made \in M => Is(Made, Makes[Head(todo).class], M)
<1>1. CASE Head(todo).class = "IfStatement"
  <2>1. /\ Is(values[3], Takes3["IfStatement"][1], N) /\ Is(values[2], Takes3["IfStatement"][2], N)
        /\ Is(values[1], Takes3["IfStatement"][3], N) /\ Made = IfStatement(values[3], values[2], values[1])
        /\ Operands = 3
    BY <1>1, MakesIfStatement
  <2> QED
    BY <1>1, <2>1, IfStatementShape DEF Takes3, Makes
<1>2. CASE Head(todo).class = "Conditional"
  <2>1. /\ Is(values[3], Takes3["Conditional"][1], N) /\ Is(values[2], Takes3["Conditional"][2], N)
        /\ Is(values[1], Takes3["Conditional"][3], N) /\ Made = Conditional(values[3], values[2], values[1])
        /\ Operands = 3
    BY <1>2, MakesConditional
  <2> QED
    BY <1>2, <2>1, ConditionalShape DEF Takes3, Makes
<1> QED
  BY <1>1, <1>2 DEF Takes3

LEMMA MakeNodeKeeps ==
  ASSUME PInv, MakeNode
  PROVE  todo' \in Seq(Op) /\ Building'
<1>1. /\ todo # <<>> /\ Head(todo).do = "make" /\ Run(<<>>)
      /\ values' = <<Made>> \o SubSeq(values, Operands + 1, Len(values))
  BY DEF MakeNode, Doing
<1>2. Head(todo) \in Op
  BY <1>1, HeadOfAgenda
<1>3. PICK N, h, r, c, d :
           /\ Shaped(N) /\ Contracts(todo, h) /\ Matches(values, h[1], N)
           /\ h[1] \in Stack /\ r \in Stack /\ c \in Class /\ d \in Class
           /\ Consumes(Head(todo), h[1], r, d) /\ Below(d, c) /\ h[2] = Append(r, c)
  BY <1>1, HeadTakes
<1> DEFINE k == Head(todo).class
<1>4. \/ k \in DOMAIN Takes1 /\ h[1] = Append(r, Takes1[k]) /\ d = Makes[k]
      \/ /\ k \in {"BinaryOperator", "Assignment"} /\ d = Makes[k]
         /\ h[1] = Append(Append(r, "Expr"), "Expr")
      \/ /\ k \in DOMAIN Takes3 /\ d = Makes[k]
         /\ h[1] = Append(Append(Append(r, Takes3[k][1]), Takes3[k][2]), Takes3[k][3])
  BY <1>1, <1>3 DEF Consumes, Returns
<1>5. CASE k \in DOMAIN Takes1 /\ h[1] = Append(r, Takes1[k]) /\ d = Makes[k]
  <2>1. Takes1[k] \in Class
    BY <1>5 DEF Takes1, Class
  <2>2. Is(values[1], Takes1[k], N) /\ Matches(SubSeq(values, 2, Len(values)), r, N)
    BY <1>3, <1>5, <2>1, PopOne
  <2>3. /\ Operands = 1 /\ Tree(N)!ParsedShape(Made)
        /\ \A M : Made \in M => Is(Made, d, M)
    BY <1>1, <1>2, <1>5, <2>2, MakesOne
  <2>4. values' = <<Made>> \o SubSeq(values, 2, Len(values))
    BY <1>1, <2>3
  <2> QED
    BY <1>1, <1>3, <2>2, <2>3, <2>4, Builds
<1>6. CASE /\ k \in {"BinaryOperator", "Assignment"} /\ d = Makes[k]
           /\ h[1] = Append(Append(r, "Expr"), "Expr")
  <2>1. /\ Is(values[1], "Expr", N) /\ Is(values[2], "Expr", N)
        /\ Matches(SubSeq(values, 3, Len(values)), r, N)
    BY <1>3, <1>6, Classes, PopTwo
  <2>2. /\ Operands = 2 /\ Tree(N)!ParsedShape(Made)
        /\ \A M : Made \in M => Is(Made, d, M)
    BY <1>1, <1>2, <1>6, <2>1, MakesTwo
  <2>3. values' = <<Made>> \o SubSeq(values, 3, Len(values))
    BY <1>1, <2>2
  <2> QED
    BY <1>1, <1>3, <2>1, <2>2, <2>3, Builds
<1>7. CASE /\ k \in DOMAIN Takes3 /\ d = Makes[k]
           /\ h[1] = Append(Append(Append(r, Takes3[k][1]), Takes3[k][2]), Takes3[k][3])
  <2>1. Takes3[k][1] \in Class /\ Takes3[k][2] \in Class /\ Takes3[k][3] \in Class
    BY <1>7 DEF Takes3, Class
  <2>2. /\ Is(values[1], Takes3[k][3], N) /\ Is(values[2], Takes3[k][2], N)
        /\ Is(values[3], Takes3[k][1], N) /\ Matches(SubSeq(values, 4, Len(values)), r, N)
    BY <1>3, <1>7, <2>1, PopThree
  <2>3. /\ Operands = 3 /\ Tree(N)!ParsedShape(Made)
        /\ \A M : Made \in M => Is(Made, d, M)
    BY <1>1, <1>2, <1>7, <2>2, MakesThree
  <2>4. values' = <<Made>> \o SubSeq(values, 4, Len(values))
    BY <1>1, <2>3
  <2> QED
    BY <1>1, <1>3, <2>2, <2>3, <2>4, Builds
<1> QED
  BY <1>4, <1>5, <1>6, <1>7

-----------------------------------------------------------------------------
(* The tokens. *)

LEMMA TokenAtHand ==
  ASSUME Reading
  PROVE  /\ peek \in Token \cup {EndOfFile} /\ Len(tokens) \in Nat
         /\ tokens[Len(tokens)] = EndOfFile
         /\ peek = EndOfFile <=> cur = Len(tokens)
<1>1. /\ tokens \in Seq(Token \cup {EndOfFile}) /\ cur \in 1..Len(tokens)
      /\ \A k \in 1..Len(tokens) : tokens[k] = EndOfFile <=> k = Len(tokens)
  BY InputAssumption DEF Reading
<1>2. Len(tokens) \in 1..Len(tokens) /\ Len(tokens) \in Nat
  BY <1>1
<1> QED
  BY <1>1, <1>2, ElementOfSeq DEF peek

(* What a token carries.                                                   *)
LEMMA TokenText ==
  ASSUME Reading
  PROVE  /\ type = "IDENTIFIER" => peek.text \in Ident
         /\ type = "CONSTANT" => peek.text \in Nat
         /\ type = "ENDOFFILE" <=> cur = Len(tokens)
<1>1. /\ peek \in Token \cup {EndOfFile}
      /\ peek = EndOfFile <=> cur = Len(tokens)
  BY TokenAtHand
<1> HIDE DEF peek
<1>2. EndOfFile.token = "ENDOFFILE"
  BY DEF EndOfFile, Tok
<1>3. ASSUME NEW t \in Token
      PROVE  /\ t.token # "ENDOFFILE"
             /\ t.token = "IDENTIFIER" => t.text \in Ident
             /\ t.token = "CONSTANT" => t.text \in Nat
  BY DEF Token, Plain
<1> QED
  BY <1>1, <1>2, <1>3 DEF type

(* No method reads past the end of the file.                               *)
LEMMA StaysInside ==
  ASSUME Reading, UNCHANGED tokens, advance \/ UNCHANGED cur
  PROVE  Reading'
<1>1. type = "ENDOFFILE" <=> cur = Len(tokens)
  BY TokenText
<1>2. Len(tokens) \in Nat
  BY TokenAtHand
<1>3. cur' \in 1..Len(tokens)
  BY <1>1, <1>2 DEF Reading, advance
<1> QED
  BY <1>3 DEF Reading

-----------------------------------------------------------------------------
(* The invariant is inductive. *)

LEMMA PInit ==
  ASSUME Init
  PROVE  PInv
<1> DEFINE h == [k \in 1..3 |-> IF k = 1 THEN <<>> ELSE <<"Function">>]
<1>1. /\ <<>> \in Stack /\ <<"Function">> \in Stack
      /\ Append(<<>>, "Function") = <<"Function">>
  BY DEF Stack, Class
<1>2. Call("function") \in Op /\ Consume("ENDOFFILE") \in Op
  BY OpsTyped
<1>3. /\ todo \in Seq(Op) /\ Len(todo) = 2 /\ todo[1] = Call("function")
      /\ todo[2] = Consume("ENDOFFILE")
  BY <1>2 DEF Init
<1>4. Step(Call("function"), <<>>, <<"Function">>)
  <2>1. Step(Call("function"), <<>>, Append(<<>>, Returns["function"]))
    BY <1>1, StepCall DEF Returns
  <2> QED
    BY <1>1, <2>1 DEF Returns
<1>5. Step(Consume("ENDOFFILE"), <<"Function">>, <<"Function">>)
  BY StepConsume
<1>6. h \in [1..3 -> Stack] /\ h[1] = <<>> /\ h[2] = <<"Function">> /\ h[3] = <<"Function">>
  BY <1>1
<1> HIDE DEF h
<1>7. \A k \in 1..2 : Step(todo[k], h[k], h[k + 1])
  BY <1>3, <1>4, <1>5, <1>6
<1>8. Contracts(todo, h)
  BY <1>3, <1>6, <1>7 DEF Contracts
<1>9. Matches(values, h[1], {})
  BY <1>6 DEF Matches, Init
<1>10. Shaped({})
  BY DEF Shaped
<1>11. Building
  BY <1>8, <1>9, <1>10 DEF Building
<1>12. Reading
  <2>1. /\ tokens \in Inputs /\ cur = 1 /\ tokens \in Seq(Token \cup {EndOfFile}) /\ tokens # <<>>
    BY InputAssumption DEF Init
  <2> QED
    BY <2>1 DEF Reading
<1> QED
  BY <1>3, <1>11, <1>12 DEF PInv, Init

(* What is on the agenda carries.                                          *)
LEMMA Carries ==
  ASSUME PInv, todo # <<>>
  PROVE  /\ Head(todo).do = "initializer" => Head(todo).id \in Ident
         /\ Head(todo).do = "parse_expr" => Head(todo).min_prec \in Int
<1>1. Head(todo) \in Op
  BY HeadOfAgenda
<1> DEFINE o == Head(todo)
<1> HIDE DEF o
<1>2. o \in Op
  BY <1>1 DEF o
<1>3. o.do = "initializer" => o.id \in Ident
  BY <1>2 DEF Op, Returns, Makes
<1>4. o.do = "parse_expr" => o.min_prec \in Int
  BY <1>2 DEF Op, Returns, Makes
<1> QED
  BY <1>3, <1>4 DEF o

(* A step that goes on parsing. *)
LEMMA Goes ==
  ASSUME PInv, todo' \in Seq(Op) /\ Building', advance \/ UNCHANGED cur,
         UNCHANGED tokens, verdict = "parsing", UNCHANGED verdict
  PROVE  PInv'
<1>1. Reading'
  BY StaysInside DEF PInv
<1> QED
  BY <1>1 DEF PInv

LEMMA PNext ==
  ASSUME PInv, [Next]_vars
  PROVE  PInv'
<1>1. CASE Expected
  <2>1. todo' \in Seq(Op) /\ Building'
    BY <1>1, ExpectedKeeps
  <2>2. /\ advance \/ UNCHANGED cur
        /\ UNCHANGED tokens /\ verdict = "parsing" /\ UNCHANGED verdict
    BY <1>1 DEF Expected, Keep, Doing, Take
  <2> QED
    BY <2>1, <2>2, Goes
<1>2. CASE Given
  <2>1. todo' \in Seq(Op) /\ Building'
    BY <1>2, GivenKeeps
  <2>2. /\ advance \/ UNCHANGED cur
        /\ UNCHANGED tokens /\ verdict = "parsing" /\ UNCHANGED verdict
    BY <1>2 DEF Given, Keep, Doing, Descend
  <2> QED
    BY <2>1, <2>2, Goes
<1>3. CASE MakeNode
  <2>1. todo' \in Seq(Op) /\ Building'
    BY <1>3, MakeNodeKeeps
  <2>2. /\ advance \/ UNCHANGED cur
        /\ UNCHANGED tokens /\ verdict = "parsing" /\ UNCHANGED verdict
    BY <1>3 DEF MakeNode, Keep, Doing
  <2> QED
    BY <2>1, <2>2, Goes
<1>4. CASE ParseFunction
  <2>1. todo' \in Seq(Op) /\ Building'
    BY <1>4, ParseFunctionKeeps
  <2>2. /\ advance \/ UNCHANGED cur
        /\ UNCHANGED tokens /\ verdict = "parsing" /\ UNCHANGED verdict
    BY <1>4 DEF ParseFunction, Keep, Doing, Descend
  <2> QED
    BY <2>1, <2>2, Goes
<1>5. CASE ParseBlock
  <2>1. todo' \in Seq(Op) /\ Building'
    BY <1>5, ParseBlockKeeps
  <2>2. /\ advance \/ UNCHANGED cur
        /\ UNCHANGED tokens /\ verdict = "parsing" /\ UNCHANGED verdict
    BY <1>5 DEF ParseBlock, Keep, Doing
  <2> QED
    BY <2>1, <2>2, Goes
<1>6. CASE ParseItems
  <2>1. todo' \in Seq(Op) /\ Building'
    BY <1>6, ItemsEnd, ItemsGoOn
  <2>2. /\ advance \/ UNCHANGED cur
        /\ UNCHANGED tokens /\ verdict = "parsing" /\ UNCHANGED verdict
    BY <1>6 DEF ParseItems, Keep, Doing, Descend
  <2> QED
    BY <2>1, <2>2, Goes
<1>7. CASE PushBack
  <2>1. todo' \in Seq(Op) /\ Building'
    BY <1>7, PushBackKeeps
  <2>2. /\ advance \/ UNCHANGED cur
        /\ UNCHANGED tokens /\ verdict = "parsing" /\ UNCHANGED verdict
    BY <1>7 DEF PushBack, Keep, Doing
  <2> QED
    BY <2>1, <2>2, Goes
<1>8. CASE ParseItem
  <2>1. todo' \in Seq(Op) /\ Building'
    BY <1>8, ParseItemDeclares, ParseItemStates
  <2>2. /\ advance \/ UNCHANGED cur
        /\ UNCHANGED tokens /\ verdict = "parsing" /\ UNCHANGED verdict
    BY <1>8 DEF ParseItem, Keep, Doing, Descend, Take
  <2> QED
    BY <2>1, <2>2, Goes
<1>9. CASE ParseReturn
  <2>1. todo' \in Seq(Op) /\ Building'
    BY <1>9, ParseReturnKeeps
  <2>2. /\ advance \/ UNCHANGED cur
        /\ UNCHANGED tokens /\ verdict = "parsing" /\ UNCHANGED verdict
    BY <1>9 DEF ParseReturn, Keep, Doing, Statement, Take
  <2> QED
    BY <2>1, <2>2, Goes
<1>10. CASE ReturnValue
  <2>1. todo' \in Seq(Op) /\ Building'
    BY <1>10, ReturnValueParses, ReturnValueEnds
  <2>2. /\ advance \/ UNCHANGED cur
        /\ UNCHANGED tokens /\ verdict = "parsing" /\ UNCHANGED verdict
    BY <1>10 DEF ReturnValue, Keep, Doing, Descend
  <2> QED
    BY <2>1, <2>2, Goes
<1>11. CASE ParseNull
  <2>1. todo' \in Seq(Op) /\ Building'
    BY <1>11, ParseNullKeeps
  <2>2. /\ advance \/ UNCHANGED cur
        /\ UNCHANGED tokens /\ verdict = "parsing" /\ UNCHANGED verdict
    BY <1>11 DEF ParseNull, Keep, Doing, Statement
  <2> QED
    BY <2>1, <2>2, Goes
<1>12. CASE ParseCompound
  <2>1. todo' \in Seq(Op) /\ Building'
    BY <1>12, ParseCompoundKeeps
  <2>2. /\ advance \/ UNCHANGED cur
        /\ UNCHANGED tokens /\ verdict = "parsing" /\ UNCHANGED verdict
    BY <1>12 DEF ParseCompound, Keep, Doing, Statement, Descend
  <2> QED
    BY <2>1, <2>2, Goes
<1>13. CASE ParseIf
  <2>1. todo' \in Seq(Op) /\ Building'
    BY <1>13, ParseIfKeeps
  <2>2. /\ advance \/ UNCHANGED cur
        /\ UNCHANGED tokens /\ verdict = "parsing" /\ UNCHANGED verdict
    BY <1>13 DEF ParseIf, Keep, Doing, Statement, Take
  <2> QED
    BY <2>1, <2>2, Goes
<1>14. CASE ParseElse
  <2>1. todo' \in Seq(Op) /\ Building'
    BY <1>14, ElseParses, ElseMissing
  <2>2. /\ advance \/ UNCHANGED cur
        /\ UNCHANGED tokens /\ verdict = "parsing" /\ UNCHANGED verdict
    BY <1>14 DEF ParseElse, Keep, Doing, Take
  <2> QED
    BY <2>1, <2>2, Goes
<1>15. CASE ParseExpression
  <2>1. todo' \in Seq(Op) /\ Building'
    BY <1>15, ParseExpressionKeeps
  <2>2. /\ advance \/ UNCHANGED cur
        /\ UNCHANGED tokens /\ verdict = "parsing" /\ UNCHANGED verdict
    BY <1>15 DEF ParseExpression, Keep, Doing, Descend
  <2> QED
    BY <2>1, <2>2, Goes
<1>16. CASE FactorUnary
  <2>1. todo' \in Seq(Op) /\ Building'
    BY <1>16, FactorUnaryKeeps
  <2>2. /\ advance \/ UNCHANGED cur
        /\ UNCHANGED tokens /\ verdict = "parsing" /\ UNCHANGED verdict
    BY <1>16 DEF FactorUnary, Keep, Doing, Take
  <2> QED
    BY <2>1, <2>2, Goes
<1>17. CASE FactorParenthesis
  <2>1. todo' \in Seq(Op) /\ Building'
    BY <1>17, FactorParenthesisKeeps
  <2>2. /\ advance \/ UNCHANGED cur
        /\ UNCHANGED tokens /\ verdict = "parsing" /\ UNCHANGED verdict
    BY <1>17 DEF FactorParenthesis, Keep, Doing, Take
  <2> QED
    BY <2>1, <2>2, Goes
<1>18. CASE FactorNone
  <2>1. todo' \in Seq(Op) /\ Building'
    BY <1>18, FactorNoneKeeps
  <2>2. /\ advance \/ UNCHANGED cur
        /\ UNCHANGED tokens /\ verdict = "parsing" /\ UNCHANGED verdict
    BY <1>18 DEF FactorNone, Keep, Doing
  <2> QED
    BY <2>1, <2>2, Goes
<1>19. CASE EndClimb
  <2>1. todo' \in Seq(Op) /\ Building'
    BY <1>19, EndClimbKeeps
  <2>2. /\ advance \/ UNCHANGED cur
        /\ UNCHANGED tokens /\ verdict = "parsing" /\ UNCHANGED verdict
    BY <1>19 DEF EndClimb, Keep, Doing, Descend
  <2> QED
    BY <2>1, <2>2, Goes
<1>20. CASE ClimbAssignment
  <2>1. todo' \in Seq(Op) /\ Building'
    BY <1>20, ClimbAssignmentKeeps
  <2>2. /\ advance \/ UNCHANGED cur
        /\ UNCHANGED tokens /\ verdict = "parsing" /\ UNCHANGED verdict
    BY <1>20 DEF ClimbAssignment, Keep, Doing, Climbing, Take
  <2> QED
    BY <2>1, <2>2, Goes
<1>21. CASE ClimbConditional
  <2>1. todo' \in Seq(Op) /\ Building'
    BY <1>21, ClimbConditionalKeeps
  <2>2. /\ advance \/ UNCHANGED cur
        /\ UNCHANGED tokens /\ verdict = "parsing" /\ UNCHANGED verdict
    BY <1>21 DEF ClimbConditional, Keep, Doing, Climbing, Take
  <2> QED
    BY <2>1, <2>2, Goes
<1>22. CASE ClimbBinary
  <2>1. todo' \in Seq(Op) /\ Building'
    BY <1>22, ClimbBinaryKeeps
  <2>2. /\ advance \/ UNCHANGED cur
        /\ UNCHANGED tokens /\ verdict = "parsing" /\ UNCHANGED verdict
    BY <1>22 DEF ClimbBinary, Keep, Doing, Climbing, Take
  <2> QED
    BY <2>1, <2>2, Goes
<1>23. CASE Declarator /\ type = "IDENTIFIER"
  <2>1. todo' \in Seq(Op) /\ Building'
    BY <1>23, TokenText, DeclaratorKeeps DEF PInv
  <2>2. /\ advance \/ UNCHANGED cur
        /\ UNCHANGED tokens /\ verdict = "parsing" /\ UNCHANGED verdict
    BY <1>23 DEF Declarator, Take, Keep, Doing
  <2> QED
    BY <2>1, <2>2, Goes
<1>24. CASE ParseInitializer
  <2>1. Head(todo).id \in Ident
    BY <1>24, Carries DEF ParseInitializer, Doing
  <2>2. todo' \in Seq(Op) /\ Building'
    BY <1>24, <2>1, InitializerParses, InitializerEnds
  <2>3. /\ advance \/ UNCHANGED cur
        /\ UNCHANGED tokens /\ verdict = "parsing" /\ UNCHANGED verdict
    BY <1>24 DEF ParseInitializer, Take, Keep, Doing
  <2> QED
    BY <2>2, <2>3, Goes
<1>25. CASE StartExpr
  <2>1. Head(todo).min_prec \in Int
    BY <1>25, Carries DEF StartExpr, Doing
  <2>2. todo' \in Seq(Op) /\ Building'
    BY <1>25, <2>1, StartExprKeeps
  <2>3. /\ advance \/ UNCHANGED cur
        /\ UNCHANGED tokens /\ verdict = "parsing" /\ UNCHANGED verdict
    BY <1>25 DEF StartExpr, Descend, Keep, Doing
  <2> QED
    BY <2>2, <2>3, Goes
<1>26. CASE FactorConstant
  <2>1. todo' \in Seq(Op) /\ Building'
    BY <1>26, TokenText, FactorConstantKeeps DEF PInv, FactorConstant
  <2>2. /\ advance \/ UNCHANGED cur
        /\ UNCHANGED tokens /\ verdict = "parsing" /\ UNCHANGED verdict
    BY <1>26 DEF FactorConstant, Leaf, Keep, Doing
  <2> QED
    BY <2>1, <2>2, Goes
<1>27. CASE FactorVar
  <2>1. todo' \in Seq(Op) /\ Building'
    BY <1>27, TokenText, FactorVarKeeps DEF PInv, FactorVar
  <2>2. /\ advance \/ UNCHANGED cur
        /\ UNCHANGED tokens /\ verdict = "parsing" /\ UNCHANGED verdict
    BY <1>27 DEF FactorVar, Leaf, Keep, Doing
  <2> QED
    BY <2>1, <2>2, Goes
<1>28. CASE Unexpected \/ Missing \/ (Declarator /\ type # "IDENTIFIER")
  <2>1. UNCHANGED <<tokens, cur, todo, values>> /\ verdict' = "syntax error"
    BY <1>28 DEF Unexpected, Missing, Declarator, Throw
  <2>2. Building' /\ Reading'
    BY <2>1 DEF PInv, Building, Reading
  <2> QED
    BY <2>1, <2>2 DEF PInv
<1>29. CASE Accept
  <2>1. UNCHANGED <<tokens, cur, todo, values>> /\ todo = <<>> /\ verdict' = "accepted"
    BY <1>29 DEF Accept
  <2>2. Building' /\ Reading'
    BY <2>1 DEF PInv, Building, Reading
  <2> QED
    BY <2>1, <2>2 DEF PInv
<1>30. CASE UNCHANGED vars
  <2>1. UNCHANGED <<tokens, cur, todo, values>> /\ UNCHANGED verdict
    BY <1>30 DEF vars
  <2>2. Building' /\ Reading'
    BY <2>1 DEF PInv, Building, Reading
  <2> QED
    BY <2>1, <2>2 DEF PInv
<1>31. CASE Next
  BY <1>1, <1>2, <1>3, <1>4, <1>5, <1>6, <1>7, <1>8, <1>9, <1>10, <1>11, <1>12, <1>13,
     <1>14, <1>15, <1>16, <1>17, <1>18, <1>19, <1>20, <1>21, <1>22, <1>23, <1>24, <1>25,
     <1>26, <1>27, <1>28, <1>29, <1>31
  DEF Next
<1> QED
  BY <1>30, <1>31

(* From every input, what the open methods still have to do fits the       *)
(* values that are there.                                                  *)
THEOREM Inductive == Spec => []PInv
<1>1. Init => PInv
  BY PInit
<1>2. PInv /\ [Next]_vars => PInv'
  BY PNext
<1> QED
  BY <1>1, <1>2, PTL DEF Spec

(* Of a parser that has accepted, one value is left, and it is a function. *)
LEMMA Accepted ==
  ASSUME PInv, verdict = "accepted"
  PROVE  Len(values) = 1 /\ \E N : Shaped(N) /\ Head(values) \in Tree(N)!Program
<1>1. PICK N, h : Shaped(N) /\ Contracts(todo, h) /\ Matches(values, h[1], N)
  BY DEF PInv, Building
<1>2. todo = <<>>
  BY DEF PInv
<1>3. h[1] = <<"Function">>
  BY <1>1, <1>2 DEF Contracts
<1>4. <<"Function">> = Append(<<>>, "Function") /\ <<>> \in Stack /\ "Function" \in Class
      /\ Len(<<"Function">>) = 1
  BY DEF Stack, Class
<1>5. Is(values[1], "Function", N) /\ Head(values) = values[1]
  <2>1. Matches(values, Append(<<>>, "Function"), N)
    BY <1>1, <1>3, <1>4, Zenon
  <2> QED
    BY <1>4, <2>1, PopOne
<1>6. Head(values) \in Tree(N)!Program
  BY <1>5 DEF Is
<1>7. Len(values) = 1
  BY <1>1, <1>3, <1>4 DEF Matches
<1> QED
  BY <1>1, <1>6, <1>7

(* No method reads past the last token, whatever the tokens are, and the   *)
(* parser that accepts is left with the one value that parse returns.      *)
THEOREM TypesHold == Spec => []TypeOK
<1>1. PInv => TypeOK
  <2> SUFFICES ASSUME PInv PROVE TypeOK
    OBVIOUS
  <2>1. /\ tokens[Len(tokens)] = EndOfFile /\ tokens \in Seq(Token \cup {EndOfFile})
        /\ cur \in 1..Len(tokens)
    BY TokenAtHand, InputAssumption DEF PInv, Reading
  <2>2. cur \in DOMAIN tokens
    BY <2>1
  <2>3. verdict = "accepted" => Len(values) = 1
    BY Accepted
  <2> QED
    BY <2>1, <2>2, <2>3 DEF TypeOK, PInv
<1> QED
  BY <1>1, Inductive, PTL

(* What the parser returns is a function over nodes of the shape that the  *)
(* analyser, and the phases behind it, assume of theirs: no operand of an  *)
(* operator is missing, no statement is without its parts, and a           *)
(* declaration is nowhere but in a block.                                  *)
TreeHasShape ==
  verdict = "accepted" => \E N : Shaped(N) /\ Head(values) \in Tree(N)!Program

THEOREM ShapesHold == Spec => []TreeHasShape
<1>1. PInv => TreeHasShape
  BY Accepted DEF TreeHasShape
<1> QED
  BY <1>1, Inductive, PTL

=============================================================================
