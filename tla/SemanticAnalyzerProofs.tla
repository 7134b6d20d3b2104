----------------------- MODULE SemanticAnalyzerProofs -----------------------
(***************************************************************************)
(* Theorems about SemanticAnalyzer, for every set of nodes that the parser *)
(* can build.                                                              *)
(***************************************************************************)
EXTENDS SemanticAnalyzer, SequenceTheorems, FiniteSetTheorems, TLAPS

-----------------------------------------------------------------------------
(* The inductive invariant. *)

Closing(agenda) == {i \in DOMAIN agenda : agenda[i].do = "close"}

(* Each open scope will be closed, the one of the program at the very end. *)
Balanced ==
  /\ Len(scopes) = Cardinality(Closing(todo))
  /\ todo # <<>> => todo[Len(todo)] = Close

(* A unique name has a number that has been counted. *)
Counted == \A i \in DOMAIN scopes : \A x \in Ident : scopes[i][x] < counter

(* The nodes that a visit of n resolves.  One may be a null pointer. *)
Children(n) ==
  CASE n.k \in {"UnaryOperator", "ReturnStmt", "ExpressionStmt"} -> {n.expr}
    [] n.k \in {"BinaryOperator", "Assignment"} -> {n.left, n.right}
    [] n.k = "Conditional"                      -> {n.cond, n.true, n.false}
    [] n.k = "IfStatement"                      -> {n.cond, n.then} \cup ({n.else} \ {Nil})
    [] n.k \in {"CompoundStmt", "Function"}     -> {n.block}
    [] n.k = "DeclarationVariable"              -> {n.init} \ {Nil}
    [] n.k = "Block"                            -> {n.items[i] : i \in DOMAIN n.items}
    [] OTHER                                    -> {}

Pending == {todo[i].node : i \in {j \in DOMAIN todo : todo[j].do = "resolve"}}

LeftIsVar(n) == n.k = "Assignment" => n.left.k = "Var"

(* No node is forgotten: those that have been visited have their children  *)
(* among them or on the agenda.                                            *)
Covers(visited) ==
  /\ ast \in visited \cup Pending
  /\ \A n \in visited : LeftIsVar(n) /\ Children(n) \subseteq visited \cup Pending

IInv ==
  /\ TypeOK
  /\ Balanced
  /\ Counted
  /\ UniqueNames
  /\ \E visited \in SUBSET Node : Covers(visited)
  /\ verdict = "accepted" => todo = <<>>

-----------------------------------------------------------------------------
(* The agenda. *)

LEMMA FunctionIsSeq ==
  ASSUME NEW S, NEW n \in Nat, NEW f \in [1..n -> S]
  PROVE  f \in Seq(S) /\ Len(f) = n
BY SeqDef

LEMMA ShortSeq ==
  ASSUME NEW S, NEW a \in S, NEW b \in S, NEW c \in S
  PROVE  /\ <<>> \in Seq(S)
         /\ <<a>> \in Seq(S) /\ DOMAIN <<a>> = 1..1 /\ <<a>>[1] = a
         /\ <<a, b>> \in Seq(S) /\ DOMAIN <<a, b>> = 1..2
         /\ <<a, b>>[1] = a /\ <<a, b>>[2] = b
         /\ <<a, b, c>> \in Seq(S) /\ DOMAIN <<a, b, c>> = 1..3
         /\ <<a, b, c>>[1] = a /\ <<a, b, c>>[2] = b /\ <<a, b, c>>[3] = c
OBVIOUS

LEMMA ThreeBodies ==
  ASSUME NEW S, NEW a \in S, NEW b \in S, NEW c \in S
  PROVE  <<a, b>> \o <<c>> = <<a, b, c>>
<1>1. <<a, b>> \in Seq(S) /\ <<c>> \in Seq(S) /\ <<a, b, c>> \in Seq(S)
  OBVIOUS
<1>2. Len(<<a, b>>) = 2 /\ Len(<<c>>) = 1 /\ Len(<<a, b, c>>) = 3
  OBVIOUS
<1>3. /\ <<a, b>> \o <<c>> \in Seq(S) /\ Len(<<a, b>> \o <<c>>) = 3
      /\ \A i \in 1..3 : (<<a, b>> \o <<c>>)[i] = IF i <= 2 THEN <<a, b>>[i] ELSE <<c>>[i - 2]
  BY <1>1, <1>2, ConcatProperties
<1>4. \A i \in 1..3 : (<<a, b>> \o <<c>>)[i] = <<a, b, c>>[i]
  BY <1>3
<1> QED
  BY <1>1, <1>2, <1>3, <1>4, SeqEqual

(* Two agendas, one after the other, close as many scopes as both. *)
LEMMA ClosingFinite ==
  ASSUME NEW s \in Seq(Op)
  PROVE  /\ Closing(s) \subseteq 1..Len(s) /\ Len(s) \in Nat
         /\ IsFiniteSet(Closing(s)) /\ Cardinality(Closing(s)) \in Nat
<1>1. Closing(s) \subseteq 1..Len(s) /\ Len(s) \in Nat
  BY LenProperties DEF Closing
<1>2. IsFiniteSet(1..Len(s))
  BY <1>1, FS_Interval
<1> QED
  BY <1>1, <1>2, FS_Subset, FS_CardinalityType

LEMMA ClosingConcat ==
  ASSUME NEW s \in Seq(Op), NEW t \in Seq(Op)
  PROVE  Cardinality(Closing(s \o t)) = Cardinality(Closing(s)) + Cardinality(Closing(t))
<1> DEFINE moved == {i + Len(s) : i \in Closing(t)}
           shift == [i \in Closing(t) |-> i + Len(s)]
<1>1. /\ Closing(s) \subseteq 1..Len(s) /\ Len(s) \in Nat
      /\ IsFiniteSet(Closing(s)) /\ Cardinality(Closing(s)) \in Nat
      /\ Closing(t) \subseteq 1..Len(t) /\ Len(t) \in Nat
      /\ IsFiniteSet(Closing(t)) /\ Cardinality(Closing(t)) \in Nat
  BY ClosingFinite
<1>2. /\ DOMAIN (s \o t) = 1..(Len(s) + Len(t))
      /\ \A i \in 1..(Len(s) + Len(t)) :
           (s \o t)[i] = IF i <= Len(s) THEN s[i] ELSE t[i - Len(s)]
  BY ConcatProperties, LenProperties
<1>3. DOMAIN s = 1..Len(s) /\ DOMAIN t = 1..Len(t)
  BY LenProperties
<1>4. Closing(s \o t) = Closing(s) \cup moved
  <2>1. ASSUME NEW i \in Closing(s \o t) PROVE i \in Closing(s) \cup moved
    <3>1. i \in 1..(Len(s) + Len(t)) /\ (s \o t)[i].do = "close"
      BY <1>2, <2>1 DEF Closing
    <3>2. CASE i <= Len(s)
      BY <1>1, <1>2, <1>3, <3>1, <3>2 DEF Closing
    <3>3. CASE ~(i <= Len(s))
      <4>1. i - Len(s) \in 1..Len(t) /\ i = (i - Len(s)) + Len(s)
        BY <1>1, <3>1, <3>3
      <4>2. i - Len(s) \in Closing(t)
        BY <1>2, <1>3, <3>1, <3>3, <4>1 DEF Closing
      <4> QED
        BY <4>1, <4>2
    <3> QED
      BY <3>2, <3>3
  <2>2. ASSUME NEW i \in Closing(s) PROVE i \in Closing(s \o t)
    <3>1. i \in 1..Len(s) /\ s[i].do = "close"
      BY <1>3 DEF Closing
    <3>2. i \in 1..(Len(s) + Len(t)) /\ i <= Len(s)
      BY <1>1, <3>1
    <3> QED
      BY <1>2, <3>1, <3>2 DEF Closing
  <2>3. ASSUME NEW i \in Closing(t) PROVE i + Len(s) \in Closing(s \o t)
    <3>1. i \in 1..Len(t) /\ t[i].do = "close"
      BY <1>3 DEF Closing
    <3>2. /\ i + Len(s) \in 1..(Len(s) + Len(t)) /\ ~(i + Len(s) <= Len(s))
          /\ i + Len(s) - Len(s) = i
      BY <1>1, <3>1
    <3> QED
      BY <1>2, <3>1, <3>2 DEF Closing
  <2> QED
    BY <2>1, <2>2, <2>3
<1>5. Closing(s) \cap moved = {}
  BY <1>1
<1>6. shift \in Bijection(Closing(t), moved)
  <2>1. shift \in [Closing(t) -> moved]
    OBVIOUS
  <2>2. \A i, j \in Closing(t) : i + Len(s) = j + Len(s) => i = j
    BY <1>1
  <2> QED
    BY <2>1, <2>2 DEF Bijection, Injection, Surjection, IsInjective
<1>7. IsFiniteSet(moved) /\ Cardinality(moved) = Cardinality(Closing(t))
  <2>1. ExistsBijection(Closing(t), moved)
    BY <1>6 DEF ExistsBijection
  <2> HIDE DEF moved, shift
  <2> QED
    BY <1>1, <2>1, FS_Bijection
<1> HIDE DEF moved, shift
<1>8. Cardinality(Closing(s) \cup moved)
        = Cardinality(Closing(s)) + Cardinality(moved) - Cardinality({})
  BY <1>1, <1>5, <1>7, FS_Union
<1>9. Cardinality({}) = 0
  BY FS_EmptySet
<1> QED
  BY <1>1, <1>4, <1>7, <1>8, <1>9

Resolves == {o \in Op : o.do = "resolve"}

LEMMA ResolvesCloseNothing ==
  ASSUME NEW s \in Seq(Resolves)
  PROVE  s \in Seq(Op) /\ Closing(s) = {} /\ Cardinality(Closing(s)) = 0
<1>1. s \in Seq(Op)
  BY SeqMonotonic DEF Resolves
<1>2. \A i \in DOMAIN s : s[i].do = "resolve"
  BY ElementOfSeq, LenProperties DEF Resolves
<1>3. Closing(s) = {}
  BY <1>2 DEF Closing
<1> QED
  BY <1>1, <1>3, FS_EmptySet

LEMMA CloseCloses ==
  /\ Close \in Op /\ Close.do = "close" /\ <<Close>> \in Seq(Op)
  /\ Cardinality(Closing(<<Close>>)) = 1
<1>1. Close \in Op /\ Close.do = "close"
  BY DEF Close, Op
<1>2. <<Close>> \in Seq(Op) /\ DOMAIN <<Close>> = 1..1 /\ <<Close>>[1] = Close
  BY <1>1, ShortSeq
<1>3. Closing(<<Close>>) = {1}
  BY <1>1, <1>2 DEF Closing
<1> QED
  BY <1>1, <1>2, <1>3, FS_Singleton

(* A body takes the place of the first entry of the agenda. *)
LEMMA RunAgenda ==
  ASSUME NEW agenda \in Seq(Op), agenda # <<>>, NEW body \in Seq(Op)
  PROVE  LET new == body \o Tail(agenda)
         IN  /\ new \in Seq(Op) /\ Len(new) \in Nat
             /\ Head(agenda) \in Op /\ Head(agenda) = agenda[1]
             /\ DOMAIN new = 1..Len(new) /\ DOMAIN agenda = 1..Len(agenda)
             /\ \A i \in 1..Len(body) : i \in 1..Len(new) /\ new[i] = body[i]
             /\ \A i \in 2..Len(agenda) : \E k \in 1..Len(new) : new[k] = agenda[i]
             /\ agenda[Len(agenda)] = Close /\ new # <<>> =>
                  \/ new[Len(new)] = Close
                  \/ Len(agenda) = 1 /\ body # <<>> /\ new[Len(new)] = body[Len(body)]
             /\ Cardinality(Closing(new)) =
                  Cardinality(Closing(body)) + Cardinality(Closing(agenda))
                  - (IF Head(agenda).do = "close" THEN 1 ELSE 0)
<1> DEFINE rest == Tail(agenda)
           new  == body \o rest
<1>1. /\ rest \in Seq(Op) /\ Len(rest) = Len(agenda) - 1
      /\ \A i \in 1..Len(rest) : rest[i] = agenda[i + 1]
      /\ Head(agenda) \in Op
  BY HeadTailProperties
<1>2. Len(agenda) \in Nat \ {0} /\ Len(body) \in Nat /\ Len(rest) \in Nat
  BY <1>1, EmptySeq, LenProperties
<1>3. /\ new \in Seq(Op) /\ Len(new) = Len(body) + Len(rest)
      /\ \A i \in 1..(Len(body) + Len(rest)) :
           new[i] = IF i <= Len(body) THEN body[i] ELSE rest[i - Len(body)]
  BY <1>1, ConcatProperties
<1>4. DOMAIN new = 1..Len(new) /\ DOMAIN agenda = 1..Len(agenda)
  BY <1>3, LenProperties
<1>5. \A i \in 1..Len(body) : i \in 1..Len(new) /\ new[i] = body[i]
  BY <1>2, <1>3
<1>6. ASSUME NEW i \in 2..Len(agenda)
      PROVE  \E k \in 1..Len(new) : new[k] = agenda[i]
  <2>1. /\ i - 1 \in 1..Len(rest) /\ i - 1 + 1 = i
        /\ Len(body) + (i - 1) \in 1..Len(new) /\ ~(Len(body) + (i - 1) <= Len(body))
        /\ Len(body) + (i - 1) - Len(body) = i - 1
    BY <1>1, <1>2, <1>3
  <2>2. new[Len(body) + (i - 1)] = rest[i - 1] /\ rest[i - 1] = agenda[i]
    BY <1>1, <1>3, <2>1
  <2> QED
    BY <2>1, <2>2
<1>7. ASSUME agenda[Len(agenda)] = Close, new # <<>>
      PROVE  \/ new[Len(new)] = Close
             \/ Len(agenda) = 1 /\ body # <<>> /\ new[Len(new)] = body[Len(body)]
  <2>0. Len(new) \in Nat \ {0}
    BY <1>3, <1>7, EmptySeq
  <2> HIDE DEF new, rest
  <2>1. CASE Len(agenda) = 1
    <3>1. Len(new) = Len(body)
      BY <1>1, <1>2, <1>3, <2>1
    <3>2. Len(body) \in 1..Len(body)
      BY <2>0, <3>1
    <3>3. body # <<>>
      BY <2>0, <3>1
    <3> QED
      BY <1>5, <2>1, <3>1, <3>2, <3>3
  <2>2. CASE Len(agenda) # 1
    <3>1. /\ Len(rest) \in 1..Len(rest) /\ Len(rest) + 1 = Len(agenda)
          /\ Len(new) \in 1..(Len(body) + Len(rest)) /\ ~(Len(new) <= Len(body))
          /\ Len(new) - Len(body) = Len(rest)
      BY <1>1, <1>2, <1>3, <2>2
    <3> QED
      BY <1>1, <1>3, <1>7, <3>1
  <2> QED
    BY <2>1, <2>2
<1>8. Head(agenda) = agenda[1]
  OBVIOUS
<1>9. Cardinality(Closing(new)) =
        Cardinality(Closing(body)) + Cardinality(Closing(agenda))
        - (IF Head(agenda).do = "close" THEN 1 ELSE 0)
  <2>1. agenda = <<Head(agenda)>> \o rest /\ <<Head(agenda)>> \in Seq(Op)
    BY <1>1
  <2> DEFINE first == <<Head(agenda)>>
  <2>2. Cardinality(Closing(agenda)) = Cardinality(Closing(first)) + Cardinality(Closing(rest))
    BY <1>1, <2>1, ClosingConcat
  <2>3. DOMAIN first = 1..1 /\ first[1] = Head(agenda)
    OBVIOUS
  <2>4. Closing(first) = IF Head(agenda).do = "close" THEN {1} ELSE {}
    BY <2>3 DEF Closing
  <2>5. Cardinality(Closing(first)) = IF Head(agenda).do = "close" THEN 1 ELSE 0
    BY <2>4, FS_EmptySet, FS_Singleton
  <2>6. Cardinality(Closing(new)) = Cardinality(Closing(body)) + Cardinality(Closing(rest))
    BY <1>1, ClosingConcat
  <2>7. Cardinality(Closing(body)) \in Nat /\ Cardinality(Closing(rest)) \in Nat
    BY <1>1, ClosingFinite
  <2> HIDE DEF new, rest, first
  <2> QED
    BY <2>2, <2>5, <2>6, <2>7
<1> QED
  BY <1>1, <1>3, <1>4, <1>5, <1>6, <1>7, <1>8, <1>9, LenProperties
-----------------------------------------------------------------------------
(* Visits. *)

(* A child pointer may be null, and points to a node otherwise. *)
LEMMA ChildrenResolve ==
  ASSUME NEW n \in Node
  PROVE  /\ \A c \in Children(n) : Resolve(c) \in Resolves
         /\ n.k = "Block" => n.items \in Seq(Item)
         /\ n.k = "DeclarationVariable" => n.id \in Ident
<1>1. ParsedShape(n)
  BY NodeAssumption
<1>2. /\ \A c \in Expr \cup Item \cup Body \cup Program \cup {Nil} : Resolve(c) \in Resolves
      /\ Stmt \subseteq Item
  BY DEF Resolve, Resolves, Op, Item
<1>3. n.k = "Block" => n.items \in Seq(Item)
  BY <1>1 DEF ParsedShape
<1>4. n.k = "Block" => \A i \in DOMAIN n.items : n.items[i] \in Item
  BY <1>3, LenProperties
<1>5. \A c \in Children(n) : c \in Expr \cup Item \cup Body \cup {Nil}
  <2>1. CASE n.k \in {"UnaryOperator", "ReturnStmt", "ExpressionStmt"}
    BY <1>1, <2>1 DEF ParsedShape, Children
  <2>2. CASE n.k \in {"BinaryOperator", "Assignment", "Conditional"}
    BY <1>1, <2>2 DEF ParsedShape, Children
  <2>3. CASE n.k \in {"IfStatement", "CompoundStmt", "Function"}
    BY <1>1, <1>2, <2>3 DEF ParsedShape, Children
  <2>4. CASE n.k \in {"DeclarationVariable", "Constant", "Var", "NullStmt"}
    BY <1>1, <2>4 DEF ParsedShape, Children
  <2>5. CASE n.k = "Block"
    BY <1>4, <2>5 DEF Children
  <2> QED
    BY <1>1, <2>1, <2>2, <2>3, <2>4, <2>5 DEF ParsedShape
<1> QED
  BY <1>2, <1>3, <1>5, <1>1 DEF ParsedShape

(* A visit of the first node of the agenda puts its children there. *)
Visit(body) ==
  /\ todo # <<>>
  /\ Head(todo).do = "resolve"
  /\ Head(todo).node \in Node
  /\ LeftIsVar(Head(todo).node)
  /\ body \in Seq(Resolves)
  /\ \A c \in Children(Head(todo).node) : \E i \in DOMAIN body : body[i] = Resolve(c)

Ends ==
  /\ UNCHANGED <<ast, todo, scopes, counter>>
  /\ verdict' \in Verdict \ {"running"}
  /\ verdict' = "accepted" => todo = <<>>

VisitOnly == \E body \in Seq(Resolves) : Visit(body) /\ Continue(body)

Declares1(x) ==
  /\ Head(todo).node.k = "DeclarationVariable"
  /\ ~Declares(Head(scopes), x)
  /\ scopes' = [scopes EXCEPT ![1][x] = counter]
  /\ counter' = counter + 1

VisitDeclares ==
  /\ \E body \in Seq(Resolves) : Visit(body) /\ Run(body)
  /\ \E x \in Ident : Declares1(x)
  /\ UNCHANGED <<ast, verdict>>

VisitOpens ==
  /\ \E body \in Seq(Resolves) : Visit(body) /\ Run(body \o <<Close>>)
  /\ scopes' = <<EmptyScope>> \o scopes
  /\ UNCHANGED <<ast, counter, verdict>>

(* Every step is of one of five kinds. *)
LEMMA HeadIsNode ==
  ASSUME TypeOK, NEW kind \in ExprKind \cup StmtKind \cup {"DeclarationVariable", "Block", "Function"},
         Visiting(kind)
  PROVE  /\ todo # <<>> /\ Head(todo).do = "resolve"
         /\ Head(todo).node \in Node /\ Head(todo).node.k = kind
<1>1. todo # <<>> /\ Head(todo).do = "resolve" /\ Head(todo).node.k = kind
  BY DEF Visiting, Working
<1>2. Head(todo) \in Op
  BY <1>1, HeadTailProperties DEF TypeOK
<1>3. Head(todo).node \in Expr \cup Item \cup Body \cup Program \cup {Nil}
  BY <1>1, <1>2 DEF Op
<1>4. kind # "Nil"
  BY DEF ExprKind, StmtKind
<1> QED
  BY <1>1, <1>3, <1>4 DEF Nil, Expr, Item, Stmt, Body, Program

LEMMA Steps ==
  ASSUME TypeOK, Next
  PROVE  Ends \/ VisitOnly \/ VisitDeclares \/ VisitOpens \/ CloseScope
<1> DEFINE n == Head(todo).node
<1>1. ASSUME NEW v \in Verdict \ {"running", "accepted"}, Throw(v)
      PROVE  Ends
  BY <1>1 DEF Throw, Ends
<1>2. {"null dereference", "Undeclared variable", "Invalid lvalue", "Variable already declared"}
        \subseteq Verdict \ {"running", "accepted"}
  BY DEF Verdict
<1>3. CASE ResolveNull
  BY <1>1, <1>2, <1>3 DEF ResolveNull
<1>4. CASE VisitConstant \/ VisitNullStmt
  <2>1. /\ todo # <<>> /\ Head(todo).do = "resolve" /\ n \in Node
        /\ n.k \in {"Constant", "NullStmt"} /\ Continue(<<>>)
    BY <1>4, HeadIsNode DEF VisitConstant, VisitNullStmt, ExprKind, StmtKind
  <2>2. Children(n) = {} /\ LeftIsVar(n)
    BY <2>1 DEF Children, LeftIsVar
  <2>3. <<>> \in Seq(Resolves)
    BY EmptySeq
  <2>4. Visit(<<>>)
    BY <2>1, <2>2, <2>3 DEF Visit
  <2> QED
    BY <2>1, <2>3, <2>4 DEF VisitOnly
<1>5. CASE VisitVar
  <2>1. /\ todo # <<>> /\ Head(todo).do = "resolve" /\ n \in Node /\ n.k = "Var"
        /\ Continue(<<>>) \/ Throw("Undeclared variable")
    BY <1>5, HeadIsNode DEF VisitVar, ExprKind
  <2>2. Children(n) = {} /\ LeftIsVar(n)
    BY <2>1 DEF Children, LeftIsVar
  <2>3. <<>> \in Seq(Resolves)
    BY EmptySeq
  <2>4. Visit(<<>>)
    BY <2>1, <2>2, <2>3 DEF Visit
  <2> QED
    BY <1>1, <1>2, <2>1, <2>3, <2>4 DEF VisitOnly
<1>6. CASE VisitUnaryOperator \/ VisitReturnOrExpressionStmt
  <2>1. /\ todo # <<>> /\ Head(todo).do = "resolve" /\ n \in Node
        /\ n.k \in {"UnaryOperator", "ReturnStmt", "ExpressionStmt"}
        /\ Continue(<<Resolve(n.expr)>>)
    BY <1>6, HeadIsNode DEF VisitUnaryOperator, VisitReturnOrExpressionStmt, ExprKind, StmtKind
  <2>2. Children(n) = {n.expr} /\ LeftIsVar(n)
    BY <2>1 DEF Children, LeftIsVar
  <2>3. Resolve(n.expr) \in Resolves
    BY <2>1, <2>2, ChildrenResolve
  <2>4. <<Resolve(n.expr)>> \in Seq(Resolves) /\ Visit(<<Resolve(n.expr)>>)
    BY <2>1, <2>2, <2>3, ShortSeq DEF Visit
  <2> QED
    BY <2>1, <2>4 DEF VisitOnly
<1>7. CASE VisitBinaryOperator \/ VisitAssignment
  <2> DEFINE l == Resolve(n.left)
             r == Resolve(n.right)
  <2>1. /\ todo # <<>> /\ Head(todo).do = "resolve" /\ n \in Node
        /\ n.k \in {"BinaryOperator", "Assignment"}
    BY <1>7, HeadIsNode DEF VisitBinaryOperator, VisitAssignment, ExprKind
  <2>2. \/ LeftIsVar(n) /\ (Continue(<<l, r>>) \/ Continue(<<r, l>>))
        \/ Throw("Invalid lvalue")
    BY <1>7, <2>1 DEF VisitBinaryOperator, VisitAssignment, LeftIsVar, Visiting
  <2>3. Children(n) = {n.left, n.right}
    BY <2>1 DEF Children
  <2>4. l \in Resolves /\ r \in Resolves
    BY <2>1, <2>3, ChildrenResolve
  <2>5. ASSUME LeftIsVar(n)
        PROVE  /\ <<l, r>> \in Seq(Resolves) /\ Visit(<<l, r>>)
               /\ <<r, l>> \in Seq(Resolves) /\ Visit(<<r, l>>)
    BY <2>1, <2>3, <2>4, <2>5, ShortSeq DEF Visit
  <2> HIDE DEF l, r
  <2> QED
    BY <1>1, <1>2, <2>2, <2>5 DEF VisitOnly
<1>8. CASE VisitConditional
  <2> DEFINE operands == <<Resolve(n.cond), Resolve(n.true), Resolve(n.false)>>
             orders == {<<1, 2, 3>>, <<1, 3, 2>>, <<2, 1, 3>>,
                        <<2, 3, 1>>, <<3, 1, 2>>, <<3, 2, 1>>}
  <2>1. /\ todo # <<>> /\ Head(todo).do = "resolve" /\ n \in Node /\ n.k = "Conditional"
    BY <1>8, HeadIsNode DEF VisitConditional, ExprKind
  <2>2. PICK order \in orders : Continue([i \in 1..3 |-> operands[order[i]]])
    BY <1>8 DEF VisitConditional
  <2> DEFINE body == [i \in 1..3 |-> operands[order[i]]]
  <2>3. Children(n) = {n.cond, n.true, n.false} /\ LeftIsVar(n)
    BY <2>1 DEF Children, LeftIsVar
  <2>4. Resolve(n.cond) \in Resolves /\ Resolve(n.true) \in Resolves /\ Resolve(n.false) \in Resolves
    BY <2>1, <2>3, ChildrenResolve
  <2>5. /\ operands[1] = Resolve(n.cond) /\ operands[2] = Resolve(n.true)
        /\ operands[3] = Resolve(n.false)
    OBVIOUS
  <2>6. /\ \A i \in 1..3 : order[i] \in 1..3
        /\ \A k \in 1..3 : \E i \in 1..3 : order[i] = k
    <3>1. \/ order = <<1, 2, 3>> \/ order = <<1, 3, 2>> \/ order = <<2, 1, 3>>
          \/ order = <<2, 3, 1>> \/ order = <<3, 1, 2>> \/ order = <<3, 2, 1>>
      BY <2>2
    <3>2. {order[1], order[2], order[3]} = 1..3
      BY <3>1
    <3> QED
      BY <3>2
  <2> HIDE DEF operands, orders
  <2>7. \A k \in 1..3 : operands[k] \in Resolves
    BY <2>4, <2>5
  <2>8. body \in [1..3 -> Resolves]
    BY <2>6, <2>7
  <2>9. body \in Seq(Resolves) /\ DOMAIN body = 1..3
    BY <2>8, FunctionIsSeq
  <2>10. \A k \in 1..3 : \E i \in 1..3 : body[i] = operands[k]
    BY <2>6
  <2> HIDE DEF body
  <2>11. Visit(body)
    BY <2>1, <2>3, <2>5, <2>9, <2>10 DEF Visit
  <2> QED
    BY <2>2, <2>9, <2>11 DEF VisitOnly, body
<1>9. CASE VisitDeclarationVariable
  <2> DEFINE body == IF n.init = Nil THEN <<>> ELSE <<Resolve(n.init)>>
  <2>1. /\ todo # <<>> /\ Head(todo).do = "resolve" /\ n \in Node
        /\ n.k = "DeclarationVariable"
    BY <1>9, HeadIsNode DEF VisitDeclarationVariable
  <2>2. Children(n) = {n.init} \ {Nil} /\ LeftIsVar(n)
    BY <2>1 DEF Children, LeftIsVar
  <2>3. n.id \in Ident /\ (n.init # Nil => Resolve(n.init) \in Resolves)
    BY <2>1, <2>2, ChildrenResolve
  <2>4. CASE n.init = Nil
    BY <1>1, <1>2, <1>9, <2>1, <2>2, <2>3, <2>4, EmptySeq
    DEF VisitDeclarationVariable, VisitDeclares, Visit, Declares1
  <2>5. CASE n.init # Nil
    <3>1. body \in Seq(Resolves) /\ Visit(body)
      BY <2>1, <2>2, <2>3, <2>5, ShortSeq DEF Visit
    <3> QED
      BY <1>1, <1>2, <1>9, <2>1, <2>3, <3>1
      DEF VisitDeclarationVariable, VisitDeclares, Declares1
  <2> QED
    BY <2>4, <2>5
<1>10. CASE VisitCompoundStmt \/ VisitFunction
  <2>1. /\ todo # <<>> /\ Head(todo).do = "resolve" /\ n \in Node
        /\ n.k \in {"CompoundStmt", "Function"} /\ Continue(<<Resolve(n.block)>>)
    BY <1>10, HeadIsNode DEF VisitCompoundStmt, VisitFunction, StmtKind
  <2>2. Children(n) = {n.block} /\ LeftIsVar(n)
    BY <2>1 DEF Children, LeftIsVar
  <2>3. Resolve(n.block) \in Resolves
    BY <2>1, <2>2, ChildrenResolve
  <2>4. <<Resolve(n.block)>> \in Seq(Resolves) /\ Visit(<<Resolve(n.block)>>)
    BY <2>1, <2>2, <2>3, ShortSeq DEF Visit
  <2> QED
    BY <2>1, <2>4 DEF VisitOnly
<1>11. CASE VisitIfStatement
  <2> DEFINE c == Resolve(n.cond)
             t == Resolve(n.then)
             e == Resolve(n.else)
  <2>1. /\ todo # <<>> /\ Head(todo).do = "resolve" /\ n \in Node /\ n.k = "IfStatement"
    BY <1>11, HeadIsNode DEF VisitIfStatement, StmtKind
  <2>2. Children(n) = {n.cond, n.then} \cup ({n.else} \ {Nil}) /\ LeftIsVar(n)
    BY <2>1 DEF Children, LeftIsVar
  <2>3. c \in Resolves /\ t \in Resolves /\ (n.else # Nil => e \in Resolves)
    BY <2>1, <2>2, ChildrenResolve
  <2>4. Continue(<<c, t>> \o (IF n.else = Nil THEN <<>> ELSE <<e>>))
    BY <1>11 DEF VisitIfStatement
  <2>5. CASE n.else = Nil
    <3>1. <<c, t>> \in Seq(Resolves) /\ Visit(<<c, t>>)
      BY <2>1, <2>2, <2>3, <2>5, ShortSeq DEF Visit
    <3>2. Continue(<<c, t>>)
      <4>1. <<c, t>> \o <<>> = <<c, t>>
        BY <3>1, ConcatEmptySeq
      <4> QED
        BY <2>4, <2>5, <4>1
    <3> QED
      BY <3>1, <3>2 DEF VisitOnly
  <2>6. CASE n.else # Nil
    <3>1. <<c, t, e>> \in Seq(Resolves) /\ Visit(<<c, t, e>>)
      BY <2>1, <2>2, <2>3, <2>6, ShortSeq DEF Visit
    <3>2. <<c, t>> \o <<e>> = <<c, t, e>>
      BY <2>3, <2>6, ThreeBodies
    <3>3. Continue(<<c, t, e>>)
      BY <2>4, <2>6, <3>2
    <3> QED
      BY <3>1, <3>3 DEF VisitOnly
  <2> QED
    BY <2>5, <2>6
<1>12. CASE VisitBlock
  <2> DEFINE body == [i \in 1..Len(n.items) |-> Resolve(n.items[i])]
  <2>1. /\ todo # <<>> /\ Head(todo).do = "resolve" /\ n \in Node /\ n.k = "Block"
    BY <1>12, HeadIsNode DEF VisitBlock
  <2>2. Children(n) = {n.items[i] : i \in DOMAIN n.items} /\ LeftIsVar(n)
    BY <2>1 DEF Children, LeftIsVar
  <2>3. n.items \in Seq(Item)
    BY <2>1, ChildrenResolve
  <2>4. Len(n.items) \in Nat /\ DOMAIN n.items = 1..Len(n.items)
    BY <2>3, LenProperties
  <2>5. \A i \in 1..Len(n.items) : Resolve(n.items[i]) \in Resolves
    BY <2>1, <2>2, <2>4, ChildrenResolve
  <2>6. body \in Seq(Resolves) /\ DOMAIN body = 1..Len(n.items)
    BY <2>4, <2>5, FunctionIsSeq
  <2>7. Visit(body)
    BY <2>1, <2>2, <2>4, <2>6 DEF Visit
  <2> QED
    BY <1>12, <2>6, <2>7 DEF VisitBlock, VisitOpens
<1>13. CASE Accept
  BY <1>13 DEF Accept, Ends, Verdict
<1> QED
  BY <1>3, <1>4, <1>5, <1>6, <1>7, <1>8, <1>9, <1>10, <1>11, <1>12, <1>13 DEF Next
-----------------------------------------------------------------------------
(* Types, and the balance of the scopes. *)

Scope == [Ident -> Nat \cup {NotDeclared}]

(* A scope is open as long as there is work. *)
LEMMA ScopeOpen ==
  ASSUME TypeOK, Balanced, todo # <<>>
  PROVE  scopes # <<>> /\ Len(scopes) \in Nat \ {0}
<1>1. Len(todo) \in Closing(todo)
  <2>1. Len(todo) \in 1..Len(todo) /\ DOMAIN todo = 1..Len(todo)
    BY EmptySeq, LenProperties DEF TypeOK
  <2> QED
    BY <2>1, CloseCloses DEF Balanced, Closing
<1>2. Cardinality(Closing(todo)) # 0
  BY <1>1, ClosingFinite, FS_EmptySet DEF TypeOK
<1>3. Len(scopes) # 0
  BY <1>2 DEF Balanced
<1> QED
  BY <1>3, EmptySeq DEF TypeOK

(* What a step does to the agenda. *)
LEMMA AgendaStep ==
  ASSUME TypeOK, Balanced, NEW body \in Seq(Op), todo # <<>>, Run(body),
         Head(todo).do = "close" => body = <<>>
  PROVE  /\ todo' \in Seq(Op)
         /\ Cardinality(Closing(todo)') = Cardinality(Closing(body)) + Cardinality(Closing(todo))
                                          - (IF Head(todo).do = "close" THEN 1 ELSE 0)
         /\ todo' # <<>> => todo'[Len(todo')] = Close
<1>1. todo \in Seq(Op) /\ todo' = body \o Tail(todo)
  BY DEF TypeOK, Run
<1>2. /\ todo' \in Seq(Op)
      /\ Head(todo) = todo[1]
      /\ todo[Len(todo)] = Close /\ todo' # <<>> =>
           \/ todo'[Len(todo')] = Close
           \/ Len(todo) = 1 /\ body # <<>> /\ todo'[Len(todo')] = body[Len(body)]
      /\ Cardinality(Closing(todo')) =
           Cardinality(Closing(body)) + Cardinality(Closing(todo))
           - (IF Head(todo).do = "close" THEN 1 ELSE 0)
  BY <1>1, RunAgenda
<1>3. ASSUME todo' # <<>>, Len(todo) = 1, body # <<>> PROVE FALSE
  BY <1>2, <1>3, CloseCloses DEF Balanced
<1> QED
  BY <1>2, <1>3 DEF Balanced, Closing

LEMMA VisitIsRun ==
  ASSUME NEW body \in Seq(Resolves), Visit(body)
  PROVE  /\ todo # <<>> /\ Head(todo).do = "resolve" /\ Head(todo).do # "close"
         /\ body \in Seq(Op) /\ Cardinality(Closing(body)) = 0
         /\ body \o <<Close>> \in Seq(Op)
         /\ Cardinality(Closing(body \o <<Close>>)) = 1
<1>1. todo # <<>> /\ Head(todo).do = "resolve"
  BY DEF Visit
<1>2. body \in Seq(Op) /\ Cardinality(Closing(body)) = 0
  BY ResolvesCloseNothing
<1>3. body \o <<Close>> \in Seq(Op)
  BY <1>2, CloseCloses, ConcatProperties
<1>4. Cardinality(Closing(body \o <<Close>>)) = 0 + 1
  BY <1>2, CloseCloses, ClosingConcat
<1> QED
  BY <1>1, <1>2, <1>3, <1>4

(* The types of the agenda and the scopes, and their balance. *)
Shaped == todo \in Seq(Op) /\ scopes \in Seq(Scope) /\ counter \in Nat /\ Balanced

LEMMA EmptyScopeTyped == EmptyScope \in Scope /\ <<EmptyScope>> \in Seq(Scope) /\ Len(<<EmptyScope>>) = 1
<1>1. EmptyScope \in Scope
  BY DEF EmptyScope, Scope
<1> QED
  BY <1>1, ShortSeq

LEMMA ShapedStep ==
  ASSUME TypeOK, Balanced, Ends \/ VisitOnly \/ VisitDeclares \/ VisitOpens \/ CloseScope
  PROVE  Shaped'
<1>1. /\ todo \in Seq(Op) /\ scopes \in Seq(Scope) /\ counter \in Nat
      /\ Cardinality(Closing(todo)) \in Nat /\ Len(scopes) \in Nat
      /\ Len(scopes) = Cardinality(Closing(todo))
  BY ClosingFinite, LenProperties DEF TypeOK, Scope, Balanced
<1>2. CASE Ends
  BY <1>1, <1>2 DEF Ends, Shaped, Balanced, Closing
<1>3. CASE VisitOnly
  <2>1. PICK body \in Seq(Resolves) : Visit(body) /\ Continue(body)
    BY <1>3 DEF VisitOnly
  <2>2. /\ todo' \in Seq(Op) /\ Cardinality(Closing(todo)') = 0 + Cardinality(Closing(todo)) - 0
        /\ todo' # <<>> => todo'[Len(todo')] = Close
    BY <2>1, VisitIsRun, AgendaStep DEF Continue
  <2>3. scopes' = scopes /\ counter' = counter
    BY <2>1 DEF Continue
  <2> QED
    BY <1>1, <2>2, <2>3 DEF Shaped, Balanced
<1>4. CASE VisitDeclares
  <2>1. PICK body \in Seq(Resolves) : Visit(body) /\ Run(body)
    BY <1>4 DEF VisitDeclares
  <2>2. PICK x \in Ident : Declares1(x)
    BY <1>4 DEF VisitDeclares
  <2>3. /\ todo' \in Seq(Op) /\ Cardinality(Closing(todo)') = 0 + Cardinality(Closing(todo)) - 0
        /\ todo' # <<>> => todo'[Len(todo')] = Close
    BY <2>1, VisitIsRun, AgendaStep
  <2>4. Len(scopes) \in Nat \ {0}
    BY <2>1, VisitIsRun, ScopeOpen
  <2>5. 1 \in 1..Len(scopes) /\ scopes[1] \in Scope
    BY <1>1, <2>4, ElementOfSeq
  <2>6. [scopes[1] EXCEPT ![x] = counter] \in Scope
    BY <1>1, <2>5 DEF Scope
  <2>7. scopes' = [scopes EXCEPT ![1] = [scopes[1] EXCEPT ![x] = counter]] /\ counter' = counter + 1
    BY <2>2 DEF Declares1
  <2>8. scopes' \in Seq(Scope) /\ Len(scopes') = Len(scopes)
    BY <1>1, <2>5, <2>6, <2>7, ExceptSeq
  <2>9. counter' \in Nat
    BY <1>1, <2>7
  <2> QED
    BY <1>1, <2>3, <2>8, <2>9 DEF Shaped, Balanced
<1>5. CASE VisitOpens
  <2>1. PICK body \in Seq(Resolves) : Visit(body) /\ Run(body \o <<Close>>)
    BY <1>5 DEF VisitOpens
  <2>2. /\ todo' \in Seq(Op) /\ Cardinality(Closing(todo)') = 1 + Cardinality(Closing(todo)) - 0
        /\ todo' # <<>> => todo'[Len(todo')] = Close
    BY <2>1, VisitIsRun, AgendaStep
  <2>3. scopes' = <<EmptyScope>> \o scopes /\ counter' = counter
    BY <1>5 DEF VisitOpens
  <2>4. scopes' \in Seq(Scope) /\ Len(scopes') = 1 + Len(scopes)
    BY <1>1, <2>3, EmptyScopeTyped, ConcatProperties
  <2> QED
    BY <1>1, <2>2, <2>3, <2>4 DEF Shaped, Balanced
<1>6. CASE CloseScope
  <2>1. /\ todo # <<>> /\ Head(todo).do = "close" /\ Run(<<>>)
        /\ scopes' = Tail(scopes) /\ counter' = counter
    BY <1>6 DEF CloseScope, Working
  <2>2. <<>> \in Seq(Op) /\ <<>> \in Seq(Resolves)
    BY EmptySeq
  <2>3. Cardinality(Closing(<<>>)) = 0
    BY <2>2, ResolvesCloseNothing
  <2>4. /\ todo' \in Seq(Op) /\ Cardinality(Closing(todo)') = 0 + Cardinality(Closing(todo)) - 1
        /\ todo' # <<>> => todo'[Len(todo')] = Close
    BY <2>1, <2>2, <2>3, AgendaStep
  <2>5. scopes # <<>> /\ Len(scopes) \in Nat \ {0}
    BY <2>1, ScopeOpen
  <2>6. scopes' \in Seq(Scope) /\ Len(scopes') = Len(scopes) - 1
    BY <1>1, <2>1, <2>5, HeadTailProperties
  <2> QED
    BY <1>1, <2>1, <2>4, <2>6 DEF Shaped, Balanced
<1> QED
  BY <1>2, <1>3, <1>4, <1>5, <1>6

-----------------------------------------------------------------------------
(* The unique names. *)

Numbered == Counted /\ UniqueNames

LEMMA NumberedStep ==
  ASSUME TypeOK, Balanced, Numbered,
         Ends \/ VisitOnly \/ VisitDeclares \/ VisitOpens \/ CloseScope
  PROVE  Numbered'
<1>1. /\ scopes \in Seq(Scope) /\ counter \in Nat /\ Len(scopes) \in Nat
      /\ DOMAIN scopes = 1..Len(scopes)
      /\ \A i \in 1..Len(scopes) : scopes[i] \in Scope
  BY LenProperties, ElementOfSeq DEF TypeOK, Scope
<1>2. \A i \in 1..Len(scopes) : \A x \in Ident :
        scopes[i][x] \in Nat \cup {NotDeclared} /\ scopes[i][x] < counter
  BY <1>1 DEF Scope, Numbered, Counted
<1>3. CASE Ends \/ VisitOnly
  BY <1>3 DEF Ends, VisitOnly, Continue, Numbered, Counted, UniqueNames, Declares
<1>4. CASE VisitDeclares
  <2>1. PICK x \in Ident : Declares1(x)
    BY <1>4 DEF VisitDeclares
  <2>2. todo # <<>>
    BY <1>4 DEF VisitDeclares, Visit
  <2>3. 1 \in 1..Len(scopes) /\ Head(scopes) = scopes[1]
    BY <1>1, <2>2, ScopeOpen
  <2>4. /\ DOMAIN scopes' = 1..Len(scopes) /\ counter' = counter + 1
        /\ \A i \in 1..Len(scopes) : \A y \in Ident :
             scopes'[i][y] = IF i = 1 /\ y = x THEN counter ELSE scopes[i][y]
    BY <1>1, <2>1, <2>3 DEF Declares1, Scope
  <2>5. \A i \in 1..Len(scopes) : \A y \in Ident : scopes'[i][y] < counter + 1
    BY <1>1, <1>2, <2>4 DEF NotDeclared
  <2>6. \A m, n \in Nat \cup {NotDeclared} : m < counter => m # counter
    BY <1>1 DEF NotDeclared
  <2>7. counter # NotDeclared
    BY <1>1 DEF NotDeclared
  <2>8. UniqueNames'
    <3> SUFFICES ASSUME NEW i \in 1..Len(scopes), NEW j \in 1..Len(scopes),
                        NEW y \in Ident, NEW z \in Ident,
                        scopes'[i][y] # NotDeclared, scopes'[i][y] = scopes'[j][z]
                 PROVE  i = j /\ y = z
      BY <2>4 DEF UniqueNames, Declares
    <3>1. CASE i = 1 /\ y = x
      BY <1>2, <2>4, <2>6, <3>1
    <3>2. CASE j = 1 /\ z = x
      BY <1>2, <2>4, <2>6, <3>2
    <3>3. CASE ~(i = 1 /\ y = x) /\ ~(j = 1 /\ z = x)
      BY <1>1, <2>4, <3>3 DEF Numbered, UniqueNames, Declares
    <3> QED
      BY <3>1, <3>2, <3>3
  <2> QED
    BY <2>4, <2>5, <2>8 DEF Numbered, Counted
<1>5. CASE VisitOpens
  <2>1. scopes' = <<EmptyScope>> \o scopes /\ counter' = counter
    BY <1>5 DEF VisitOpens
  <2>2. /\ DOMAIN scopes' = 1..(Len(scopes) + 1)
        /\ \A i \in 1..(Len(scopes) + 1) : scopes'[i] = IF i = 1 THEN EmptyScope ELSE scopes[i - 1]
        /\ \A i \in 1..(Len(scopes) + 1) : i # 1 => i - 1 \in 1..Len(scopes)
    <3>1. /\ scopes' \in Seq(Scope) /\ Len(scopes') = 1 + Len(scopes)
          /\ \A i \in 1..(1 + Len(scopes)) :
               scopes'[i] = IF i <= 1 THEN <<EmptyScope>>[i] ELSE scopes[i - 1]
      BY <1>1, <2>1, EmptyScopeTyped, ConcatProperties
    <3>2. DOMAIN scopes' = 1..(1 + Len(scopes))
      BY <3>1, LenProperties
    <3> QED
      BY <1>1, <3>1, <3>2
  <2>3. \A x \in Ident : EmptyScope[x] = NotDeclared
    BY DEF EmptyScope
  <2>4. NotDeclared < counter
    BY <1>1 DEF NotDeclared
  <2>5. Counted'
    <3> SUFFICES ASSUME NEW i \in 1..(Len(scopes) + 1), NEW x \in Ident
                 PROVE  scopes'[i][x] < counter
      BY <2>1, <2>2 DEF Counted
    <3>1. CASE i = 1
      BY <2>2, <2>3, <2>4, <3>1
    <3>2. CASE i # 1
      BY <1>2, <2>2, <3>2
    <3> QED
      BY <3>1, <3>2
  <2>6. UniqueNames'
    <3> SUFFICES ASSUME NEW i \in 1..(Len(scopes) + 1), NEW j \in 1..(Len(scopes) + 1),
                        NEW y \in Ident, NEW z \in Ident,
                        scopes'[i][y] # NotDeclared, scopes'[i][y] = scopes'[j][z]
                 PROVE  i = j /\ y = z
      BY <2>2 DEF UniqueNames, Declares
    <3>1. i # 1 /\ j # 1
      BY <2>2, <2>3
    <3>2. i - 1 \in DOMAIN scopes /\ j - 1 \in DOMAIN scopes
      BY <1>1, <2>2, <3>1
    <3>3. scopes[i - 1][y] # NotDeclared /\ scopes[i - 1][y] = scopes[j - 1][z]
      BY <2>2, <3>1
    <3>4. i - 1 = j - 1 /\ y = z
      BY <3>2, <3>3 DEF Numbered, UniqueNames, Declares
    <3> QED
      BY <1>1, <3>4
  <2> QED
    BY <2>5, <2>6 DEF Numbered
<1>6. CASE CloseScope
  <2>1. todo # <<>> /\ scopes' = Tail(scopes) /\ counter' = counter
    BY <1>6 DEF CloseScope, Working
  <2>2. scopes # <<>> /\ Len(scopes) \in Nat \ {0}
    BY <2>1, ScopeOpen
  <2>3. /\ DOMAIN scopes' = 1..(Len(scopes) - 1)
        /\ \A i \in 1..(Len(scopes) - 1) : scopes'[i] = scopes[i + 1] /\ i + 1 \in 1..Len(scopes)
    <3>1. /\ scopes' \in Seq(Scope) /\ Len(scopes') = Len(scopes) - 1
          /\ \A i \in 1..Len(scopes') : scopes'[i] = scopes[i + 1]
      BY <1>1, <2>1, <2>2, HeadTailProperties
    <3>2. DOMAIN scopes' = 1..Len(scopes')
      BY <3>1, LenProperties
    <3> QED
      BY <2>2, <3>1, <3>2
  <2>4. Counted'
    BY <1>2, <2>1, <2>3 DEF Counted
  <2>5. UniqueNames'
    <3> SUFFICES ASSUME NEW i \in 1..(Len(scopes) - 1), NEW j \in 1..(Len(scopes) - 1),
                        NEW y \in Ident, NEW z \in Ident,
                        scopes'[i][y] # NotDeclared, scopes'[i][y] = scopes'[j][z]
                 PROVE  i = j /\ y = z
      BY <2>3 DEF UniqueNames, Declares
    <3>1. i + 1 \in DOMAIN scopes /\ j + 1 \in DOMAIN scopes
      BY <1>1, <2>3
    <3>2. i + 1 = j + 1 /\ y = z
      BY <2>3, <3>1 DEF Numbered, UniqueNames, Declares
    <3> QED
      BY <3>2
  <2> QED
    BY <2>4, <2>5 DEF Numbered
<1> QED
  BY <1>3, <1>4, <1>5, <1>6
-----------------------------------------------------------------------------
(* No node is forgotten. *)

LEMMA PendingRun ==
  ASSUME todo \in Seq(Op), todo # <<>>, NEW body \in Seq(Op), Run(body)
  PROVE  /\ \A c : (\E i \in DOMAIN body : body[i] = Resolve(c)) => c \in Pending'
         /\ \A c \in Pending :
              c \in Pending' \/ (Head(todo).do = "resolve" /\ c = Head(todo).node)
<1>1. todo' = body \o Tail(todo)
  BY DEF Run
<1>2. /\ DOMAIN todo' = 1..Len(todo') /\ DOMAIN todo = 1..Len(todo) /\ Head(todo) = todo[1]
      /\ \A i \in 1..Len(body) : i \in 1..Len(todo') /\ todo'[i] = body[i]
      /\ \A i \in 2..Len(todo) : \E k \in 1..Len(todo') : todo'[k] = todo[i]
  BY <1>1, RunAgenda
<1>3. DOMAIN body = 1..Len(body) /\ Len(todo) \in Nat
  BY LenProperties
<1>4. Pending' = {todo'[i].node : i \in {j \in DOMAIN todo' : todo'[j].do = "resolve"}}
  BY DEF Pending
<1>5. ASSUME NEW c, NEW i \in DOMAIN body, body[i] = Resolve(c)
      PROVE  c \in Pending'
  <2>1. Resolve(c).do = "resolve" /\ Resolve(c).node = c
    BY DEF Resolve
  <2>2. i \in DOMAIN todo' /\ todo'[i] = Resolve(c)
    BY <1>2, <1>3, <1>5
  <2> QED
    BY <1>4, <2>1, <2>2
<1>6. ASSUME NEW i \in DOMAIN todo, todo[i].do = "resolve"
      PROVE  \/ todo[i].node \in Pending'
             \/ Head(todo).do = "resolve" /\ todo[i].node = Head(todo).node
  <2>1. CASE i = 1
    BY <1>2, <1>6, <2>1
  <2>2. CASE i # 1
    <3>1. i \in 2..Len(todo)
      BY <1>2, <1>3, <2>2
    <3>2. PICK k \in DOMAIN todo' : todo'[k] = todo[i]
      BY <1>2, <3>1
    <3> QED
      BY <1>4, <1>6, <3>2
  <2> QED
    BY <2>1, <2>2
<1>7. ASSUME NEW c \in Pending
      PROVE  c \in Pending' \/ (Head(todo).do = "resolve" /\ c = Head(todo).node)
  <2>1. PICK i \in DOMAIN todo : todo[i].do = "resolve" /\ c = todo[i].node
    BY <1>7 DEF Pending
  <2> QED
    BY <1>6, <2>1
<1>8. \A c : (\E i \in DOMAIN body : body[i] = Resolve(c)) => c \in Pending'
  BY <1>5
<1>9. \A c \in Pending : c \in Pending' \/ (Head(todo).do = "resolve" /\ c = Head(todo).node)
  BY <1>7
<1> QED
  BY <1>8, <1>9

LEMMA CoverStep ==
  ASSUME TypeOK, NEW visited \in SUBSET Node, Covers(visited),
         Ends \/ VisitOnly \/ VisitDeclares \/ VisitOpens \/ CloseScope
  PROVE  \E now \in SUBSET Node : Covers(now)'
<1>1. todo \in Seq(Op)
  BY DEF TypeOK
<1>2. CASE Ends
  <2>1. Pending' = Pending /\ ast' = ast
    BY <1>2 DEF Ends, Pending
  <2>2. Covers(visited)'
    BY <2>1 DEF Covers
  <2> QED
    BY <2>2
<1>3. ASSUME NEW body \in Seq(Resolves), Visit(body), ast' = ast,
             Run(body) \/ Run(body \o <<Close>>),
             NEW n, n = Head(todo).node
      PROVE  Covers(visited \cup {n})'
  <2>1. /\ todo # <<>> /\ LeftIsVar(n)
        /\ \A c \in Children(n) : \E i \in DOMAIN body : body[i] = Resolve(c)
    BY <1>3 DEF Visit
  <2> HIDE DEF Run
  <2>2. /\ \A c : (\E i \in DOMAIN body : body[i] = Resolve(c)) => c \in Pending'
        /\ \A c \in Pending : c \in Pending' \/ c = n
    <3>1. CASE Run(body)
      BY <1>1, <1>3, <2>1, <3>1, PendingRun, VisitIsRun
    <3>2. CASE Run(body \o <<Close>>)
      <4> DEFINE all == body \o <<Close>>
      <4>1. all \in Seq(Op) /\ body \in Seq(Op)
        BY <1>3, VisitIsRun
      <4>2. \A i \in DOMAIN body : i \in DOMAIN all /\ all[i] = body[i]
        <5>1. /\ Len(all) = Len(body) + 1 /\ Len(body) \in Nat
              /\ \A i \in 1..(Len(body) + 1) : i <= Len(body) => all[i] = body[i]
          BY <4>1, CloseCloses, ConcatProperties, LenProperties
        <5>2. DOMAIN body = 1..Len(body) /\ DOMAIN all = 1..Len(all)
          BY <4>1, LenProperties
        <5> HIDE DEF all
        <5> QED
          BY <5>1, <5>2
      <4> HIDE DEF all
      <4>3. /\ \A c : (\E i \in DOMAIN all : all[i] = Resolve(c)) => c \in Pending'
            /\ \A c \in Pending : c \in Pending' \/ c = n
        BY <1>1, <1>3, <2>1, <3>2, <4>1, PendingRun DEF all
      <4> QED
        BY <4>2, <4>3
    <3> QED
      BY <1>3, <3>1, <3>2
  <2>3. Children(n) \subseteq Pending' /\ Pending \subseteq Pending' \cup {n}
    BY <2>1, <2>2
  <2>4. ast' \in visited \cup {n} \cup Pending'
    BY <1>3, <2>3 DEF Covers
  <2>5. \A m \in visited \cup {n} :
          LeftIsVar(m) /\ Children(m) \subseteq visited \cup {n} \cup Pending'
    BY <2>1, <2>3 DEF Covers
  <2> QED
    BY <2>4, <2>5 DEF Covers
<1>4. CASE VisitOnly \/ VisitDeclares \/ VisitOpens
  <2>1. PICK body \in Seq(Resolves) :
          Visit(body) /\ ast' = ast /\ (Run(body) \/ Run(body \o <<Close>>))
    BY <1>4 DEF VisitOnly, VisitDeclares, VisitOpens, Continue
  <2>2. PICK n \in Node : n = Head(todo).node
    BY <2>1 DEF Visit
  <2>3. Covers(visited \cup {n})'
    BY <1>3, <2>1, <2>2
  <2>4. visited \cup {n} \in SUBSET Node
    BY <2>2
  <2> QED
    BY <2>3, <2>4
<1>5. CASE CloseScope
  <2>1. todo # <<>> /\ Head(todo).do = "close" /\ Run(<<>>) /\ ast' = ast
    BY <1>5 DEF CloseScope, Working
  <2>2. <<>> \in Seq(Op)
    BY EmptySeq
  <2>3. Pending \subseteq Pending'
    BY <1>1, <2>1, <2>2, PendingRun
  <2>4. Covers(visited)'
    BY <2>1, <2>3 DEF Covers
  <2> QED
    BY <2>4
<1> QED
  BY <1>2, <1>4, <1>5

-----------------------------------------------------------------------------
LEMMA InitEstablishes == Init => IInv
<1> SUFFICES ASSUME Init PROVE IInv
  OBVIOUS
<1> USE DEF Init
<1>1. ast \in Node /\ Resolve(ast) \in Resolves
  BY DEF Program, Resolve, Resolves, Op
<1>2. Resolve(ast) \in Op /\ Close \in Op
  BY <1>1, CloseCloses DEF Resolves
<1>3. /\ todo \in Seq(Op) /\ DOMAIN todo = 1..2 /\ Len(todo) = 2
      /\ todo[1] = Resolve(ast) /\ todo[2] = Close
  BY <1>2, ShortSeq
<1>4. TypeOK
  <2>1. scopes \in Seq(Scope)
    BY EmptyScopeTyped
  <2> QED
    BY <1>3, <2>1 DEF TypeOK, Scope, Verdict
<1>5. Balanced
  <2>1. Closing(todo) = {2}
    BY <1>3 DEF Closing, Resolve, Close
  <2> QED
    BY <1>3, <2>1, EmptyScopeTyped, FS_Singleton DEF Balanced
<1>6. Counted /\ UniqueNames
  <2>1. DOMAIN scopes = 1..1 /\ \A x \in Ident : scopes[1][x] = NotDeclared
    BY DEF EmptyScope
  <2>2. NotDeclared < 0
    BY DEF NotDeclared
  <2> QED
    BY <2>1, <2>2 DEF Counted, UniqueNames, Declares
<1>7. Covers({})
  BY <1>3 DEF Covers, Pending, Resolve
<1> QED
  BY <1>4, <1>5, <1>6, <1>7 DEF IInv

LEMMA NextPreserves == IInv /\ [Next]_vars => IInv'
<1> SUFFICES ASSUME IInv, [Next]_vars PROVE IInv'
  OBVIOUS
<1>1. CASE Next
  <2>1. TypeOK /\ Balanced /\ Numbered
    BY DEF IInv, Numbered
  <2>2. Ends \/ VisitOnly \/ VisitDeclares \/ VisitOpens \/ CloseScope
    BY <1>1, <2>1, Steps
  <2>3. Shaped' /\ Numbered'
    BY <2>1, <2>2, ShapedStep, NumberedStep
  <2>4. ast' = ast /\ verdict' \in Verdict /\ (verdict' = "accepted" => todo' = <<>>)
    <3>1. CASE Ends
      BY <3>1 DEF Ends
    <3>2. CASE VisitOnly \/ VisitDeclares \/ VisitOpens \/ CloseScope
      <4>1. verdict = "running"
        BY <1>1 DEF Next, ResolveNull, VisitConstant, VisitVar, VisitUnaryOperator,
          VisitBinaryOperator, VisitConditional, VisitAssignment, VisitDeclarationVariable,
          VisitReturnOrExpressionStmt, VisitNullStmt, VisitCompoundStmt, VisitIfStatement,
          VisitFunction, VisitBlock, CloseScope, Accept, Visiting, Working
      <4> QED
        BY <3>2, <4>1
        DEF VisitOnly, VisitDeclares, VisitOpens, CloseScope, Continue, Verdict
    <3> QED
      BY <2>2, <3>1, <3>2
  <2>5. TypeOK'
    BY <2>1, <2>3, <2>4 DEF TypeOK, Shaped, Scope
  <2>6. PICK visited \in SUBSET Node : Covers(visited)
    BY DEF IInv
  <2>7. \E now \in SUBSET Node : Covers(now)'
    BY <2>1, <2>2, <2>6, CoverStep
  <2> QED
    BY <2>3, <2>4, <2>5, <2>7 DEF IInv, Shaped, Numbered
<1>2. CASE UNCHANGED vars
  <2> USE <1>2 DEF vars
  <2>1. TypeOK' /\ Balanced' /\ (verdict' = "accepted" => todo' = <<>>)
    BY DEF IInv, TypeOK, Balanced, Closing
  <2>2. Counted' /\ UniqueNames'
    BY DEF IInv, Counted, UniqueNames, Declares
  <2>3. PICK visited \in SUBSET Node : Covers(visited)
    BY DEF IInv
  <2>4. Pending' = Pending
    BY DEF Pending
  <2>5. Covers(visited)'
    BY <2>3, <2>4 DEF Covers
  <2> QED
    BY <2>1, <2>2, <2>5 DEF IInv
<1> QED
  BY <1>1, <1>2

(* The inductive invariant holds of every reachable state, for every tree  *)
(* that the parser can build.                                              *)
THEOREM Inductive == Spec => []IInv
BY InitEstablishes, NextPreserves, PTL DEF Spec

(* The variables have their types: every entry of the agenda is a node     *)
(* that the parser can build or a null pointer, and a scope is a function  *)
(* on the names of the program.                                            *)
THEOREM TypesHold == Spec => []TypeOK
<1>1. IInv => TypeOK
  BY DEF IInv
<1> QED
  BY <1>1, Inductive, PTL

(* In every state there are as many scopes as blocks (and the program)     *)
(* that have not been left, so that back() finds one when a variable is    *)
(* declared, and pop_back() never meets an empty stack.                    *)
THEOREM ScopesHold == Spec => []ScopesBalanced
<1>1. IInv => ScopesBalanced
  <2> SUFFICES ASSUME IInv PROVE ScopesBalanced
    OBVIOUS
  <2>1. Len(scopes) = Cardinality({i \in DOMAIN todo : todo[i].do = "close"})
    BY DEF IInv, Balanced, Closing
  <2>2. todo # <<>> => scopes # <<>>
    BY ScopeOpen DEF IInv
  <2> QED
    BY <2>1, <2>2 DEF ScopesBalanced, Visiting, Working
<1> QED
  BY <1>1, Inductive, PTL

(* No two visible declarations are given one unique name, whether they are *)
(* in one scope or one hides the other.                                    *)
THEOREM NamesHold == Spec => []UniqueNames
<1>1. IInv => UniqueNames
  BY DEF IInv
<1> QED
  BY <1>1, Inductive, PTL

(* What a tree promises that has been accepted: a set of nodes, closed     *)
(* under the children, with no null pointer where the TACKY generator      *)
(* follows one and only variables on the left of assignments.  These are   *)
(* the nodes that the assumptions of TackyGen ask for.                     *)
AcceptedIsChecked ==
  verdict = "accepted" =>
    \E nodes \in SUBSET Node :
      ast \in nodes /\ \A n \in nodes : CheckedShape(n) /\ Children(n) \subseteq nodes

LEMMA AcceptedFollows == IInv => AcceptedIsChecked
<1> SUFFICES ASSUME IInv, verdict = "accepted"
             PROVE  \E nodes \in SUBSET Node :
                      /\ ast \in nodes
                      /\ \A n \in nodes : CheckedShape(n) /\ Children(n) \subseteq nodes
  BY DEF AcceptedIsChecked
<1>1. PICK nodes \in SUBSET Node : Covers(nodes)
  BY DEF IInv
<1>2. Pending = {}
  BY DEF IInv, Pending
<1>3. ast \in nodes /\ \A n \in nodes : LeftIsVar(n) /\ Children(n) \subseteq nodes
  BY <1>1, <1>2 DEF Covers
<1>4. Nil \notin Node
  BY NodeAssumption DEF ParsedShape, Nil
<1>5. \A n \in nodes : CheckedShape(n)
  BY <1>3, <1>4 DEF CheckedShape, LeftIsVar, Children
<1> QED
  BY <1>3, <1>5

(* The analyser accepts only what TackyGen relies on without a test.       *)
THEOREM AcceptedHolds == Spec => []AcceptedIsChecked
BY AcceptedFollows, Inductive, PTL
=============================================================================
