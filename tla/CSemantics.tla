----------------------------- MODULE CSemantics -----------------------------
(***************************************************************************)
(* What a program of the accepted subset of C means: the reference that    *)
(* the compiler is compared with.  A meaning is a value, or that the       *)
(* behaviour is undefined: an overflow, a division by zero, the value of   *)
(* an uninitialised variable, or an object that one operand of an operator *)
(* writes and the other one reads or writes.                               *)
(***************************************************************************)
EXTENDS Ast, Words

(* What a scope holds for a name besides a word. *)
Absent == MaxInt + 1  (* the scope does not declare the name   *)
Unset  == MaxInt + 2  (* declared, and no value was stored yet *)

(* The variables: a stack of scopes, innermost first. *)
Unbound == [x \in Ident |-> Absent]
Level(s, x) == CHOOSE i \in DOMAIN s : s[i][x] # Absent /\ \A j \in 1..i-1 : s[j][x] = Absent
Lookup(s, x) == s[Level(s, x)][x]
Store(s, x, v) == [s EXCEPT ![Level(s, x)][x] = v]
Declare(s, x)  == [s EXCEPT ![1][x] = Unset]

(* An evaluation: the value, the variables after it, whether it has        *)
(* undefined behaviour, and the names it read and wrote.                   *)
Evaluation(v, s, ub, r, w) ==
  [val |-> IF v \in Word THEN v ELSE 0, vars |-> s, undef |-> ub \/ v \notin Word,
   reads |-> r, writes |-> w]

Conflict(l, r) == \/ l.writes \cap (r.reads \cup r.writes) # {}
                  \/ r.writes \cap l.reads # {}

(* What e1 and then e2 do, with the value of e2. *)
Then(l, r) == [r EXCEPT !.undef = @ \/ l.undef, !.reads = @ \cup l.reads,
                        !.writes = @ \cup l.writes]
Truth(e, b) == [e EXCEPT !.val = Bool(b)]

(* The value of an operator, outside Word when it is undefined. *)
ApplyUnary(op, x) ==
  CASE op = "Complement" -> -x - 1
    [] op = "Negate"     -> -x
    [] op = "Not"        -> Bool(x = 0)

ApplyBinary(op, x, y) ==
  CASE op = "Add"            -> x + y
    [] op = "Sub"            -> x - y
    [] op = "Mul"            -> x * y
    [] op = "Div"            -> IF y = 0 THEN Modulus ELSE Quotient(x, y)
    [] op = "Rem"            -> IF y = 0 \/ Quotient(x, y) \notin Word
                                THEN Modulus ELSE Remainder(x, y)
    [] op = "Equal"          -> Bool(x = y)
    [] op = "NotEqual"       -> Bool(x # y)
    [] op = "LessThan"       -> Bool(x < y)
    [] op = "LessOrEqual"    -> Bool(x <= y)
    [] op = "GreaterThan"    -> Bool(x > y)
    [] op = "GreaterOrEqual" -> Bool(x >= y)

RECURSIVE Eval(_, _)
Eval(e, s) ==
  CASE e.k = "Constant" -> Evaluation(e.value, s, FALSE, {}, {})
    [] e.k = "Var" ->
         LET v == Lookup(s, e.id)
         IN  Evaluation(IF v = Unset THEN 0 ELSE v, s, v = Unset, {e.id}, {})
    [] e.k = "UnaryOperator" ->
         LET x == Eval(e.expr, s)
         IN  Evaluation(ApplyUnary(e.op, x.val), x.vars, x.undef, x.reads, x.writes)
    [] e.k = "Assignment" ->
         LET x == Eval(e.right, s)
         IN  Evaluation(x.val, Store(x.vars, e.left.id, x.val), x.undef, x.reads,
                        x.writes \cup {e.left.id})
    [] e.k = "Conditional" ->
         LET c == Eval(e.cond, s)
         IN  Then(c, Eval(IF c.val # 0 THEN e.true ELSE e.false, c.vars))
    [] e.k = "BinaryOperator" ->
         LET l == Eval(e.left, s)
             r == Eval(e.right, l.vars)
             both == Then(l, r)
         IN  IF e.op = "And"
             THEN IF l.val = 0 THEN Truth(l, FALSE) ELSE Truth(both, r.val # 0)
             ELSE IF e.op = "Or"
             THEN IF l.val # 0 THEN Truth(l, TRUE) ELSE Truth(both, r.val # 0)
             ELSE Evaluation(ApplyBinary(e.op, l.val, r.val), r.vars,
                             both.undef \/ Conflict(l, r), both.reads, both.writes)

(* The state of an execution: the variables, whether a return was reached, *)
(* its value, and whether the behaviour is undefined.                      *)
Going(s)   == [vars |-> s, done |-> FALSE, val |-> 0, undef |-> FALSE]
After(e)   == [vars |-> e.vars, done |-> e.undef, val |-> 0, undef |-> e.undef]
Result(e)  == [vars |-> e.vars, done |-> TRUE, val |-> e.val, undef |-> e.undef]

RECURSIVE Exec(_, _), ExecItems(_, _)
Exec(n, s) ==
  CASE n.k = "ReturnStmt" -> Result(Eval(n.expr, s))
    [] n.k = "ExpressionStmt" -> After(Eval(n.expr, s))
    [] n.k = "NullStmt" -> Going(s)
    [] n.k = "DeclarationVariable" ->
         IF n.init = Nil
         THEN Going(Declare(s, n.id))
         ELSE LET e == Eval(n.init, Declare(s, n.id))
              IN  After([e EXCEPT !.vars = Store(@, n.id, e.val)])
    [] n.k = "IfStatement" ->
         LET c == Eval(n.cond, s)
         IN  IF c.undef THEN After(c)
             ELSE IF c.val # 0 THEN Exec(n.then, c.vars)
             ELSE IF n.else # Nil THEN Exec(n.else, c.vars) ELSE Going(c.vars)
    [] n.k = "CompoundStmt" -> Exec(n.block, s)
    [] n.k = "Block" ->
         LET x == ExecItems(n.items, <<Unbound>> \o s)
         IN  [x EXCEPT !.vars = Tail(@)]

ExecItems(items, s) ==
  IF items = <<>> THEN Going(s)
  ELSE LET x == Exec(Head(items), s)
       IN  IF x.done THEN x ELSE ExecItems(Tail(items), x.vars)

(* A function that reaches its closing brace returns 0, as main does. *)
Meaning(f) == LET x == Exec(f.block, <<>>) IN [undef |-> x.undef, val |-> x.val]

(* Some declaration is in the scope of another one of the same name. *)
RECURSIVE HidesAny(_, _)
HidesAny(n, outer) ==
  LET own(items) == {items[i].id : i \in {j \in DOMAIN items :
                                            items[j].k = "DeclarationVariable"}}
  IN  CASE n.k = "Block" ->
             \/ own(n.items) \cap outer # {}
             \/ \E i \in DOMAIN n.items :
                  HidesAny(n.items[i], outer \cup own(SubSeq(n.items, 1, i)))
        [] n.k = "CompoundStmt" -> HidesAny(n.block, outer)
        [] n.k = "IfStatement" ->
             HidesAny(n.then, outer) \/ (n.else # Nil /\ HidesAny(n.else, outer))
        [] OTHER -> FALSE

Hides(f) == HidesAny(f.block, {})
=============================================================================
