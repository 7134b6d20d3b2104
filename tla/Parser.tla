------------------------------- MODULE Parser -------------------------------
(***************************************************************************)
(* dcc::Parser (parser.cpp, parser.hpp): recursive descent over statements *)
(* and precedence climbing over expressions.                               *)
(*                                                                         *)
(* todo is the C++ call stack, as in TackyGen: what the open methods have  *)
(* still to do, next first.  What methods return is on the stack values,   *)
(* last first, until the node that owns it is made.  An action that tests  *)
(* a token consumes it, as the code does in the branch that it takes.      *)
(***************************************************************************)
EXTENDS Integers, Sequences

CONSTANTS
  Ident,
  Inputs,   (* the token sequences that the lexer may deliver               *)
  IntMax,   (* the largest int                                              *)
  Garbage   (* what an uninitialised int may hold                           *)

INSTANCE Ast WITH Node <- {}

Plain == {"INT_KEYWORD", "VOID_KEYWORD", "RETURN_KEYWORD", "IF_KEYWORD", "ELSE_KEYWORD",
          "OPEN_PARENTHESIS", "CLOSE_PARENTHESIS", "OPEN_BRACE", "CLOSE_BRACE", "SEMICOLON",
          "ASSIGNMENT", "ADDITION", "MINUS", "MULTIPLICATION", "DIVISION", "REMAINDER",
          "COMPLEMENT", "NOT", "AND", "OR", "EQUALITY", "NOT_EQUALITY", "LESSER",
          "LESSER_EQUAL", "GREATER", "GREATER_EQUAL", "INCREMENT", "DECREMENT",
          "ADDITION_EQUALS", "SUBTRACTION_EQUALS", "QUESTION_MARK_DELIMITER",
          "COLON_DELIMITER"}

Tok(type)     == [token |-> type]
Identifier(x) == [token |-> "IDENTIFIER", text |-> x]
Number(i)     == [token |-> "CONSTANT", text |-> i]
EndOfFile     == Tok("ENDOFFILE")

Token ==
  [token : Plain] \cup [token : {"IDENTIFIER"}, text : Ident]
  \cup [token : {"CONSTANT"}, text : Nat]

(* The loop in main ends after ENDOFFILE, and lists it only once. *)
ASSUME InputAssumption ==
  /\ Garbage \subseteq Int /\ Garbage # {}
  /\ \A w \in Inputs : /\ w \in Seq(Token \cup {EndOfFile}) /\ w # <<>>
                       /\ \A k \in 1..Len(w) : w[k] = EndOfFile <=> k = Len(w)

VARIABLES tokens, cur, todo, values, verdict

vars == <<tokens, cur, todo, values, verdict>>

unary_op == [COMPLEMENT |-> "Complement", MINUS |-> "Negate", NOT |-> "Not"]

binary_op ==
  [ADDITION |-> "Add", MINUS |-> "Sub", MULTIPLICATION |-> "Mul", DIVISION |-> "Div",
   REMAINDER |-> "Rem", AND |-> "And", OR |-> "Or", EQUALITY |-> "Equal",
   NOT_EQUALITY |-> "NotEqual", LESSER |-> "LessThan", LESSER_EQUAL |-> "LessOrEqual",
   GREATER |-> "GreaterThan", GREATER_EQUAL |-> "GreaterOrEqual"]

get_precedence(type) ==
  CASE type \in {"MULTIPLICATION", "DIVISION", "REMAINDER"}                -> 50
    [] type \in {"ADDITION", "MINUS"}                                      -> 45
    [] type \in {"LESSER", "LESSER_EQUAL", "GREATER", "GREATER_EQUAL"}     -> 35
    [] type \in {"EQUALITY", "NOT_EQUALITY"}                               -> 30
    [] type = "AND"                                                        -> 10
    [] type = "OR"                                                         -> 5
    [] type = "QUESTION_MARK_DELIMITER"                                    -> 3
    [] type = "ASSIGNMENT"                                                 -> 1
    [] OTHER                                                               -> -1

(* What may be on the agenda. *)
Consume(type)     == [do |-> "consume", token |-> type]
Call(method)      == [do |-> method]
parse_expr(min)   == [do |-> "parse_expr", min_prec |-> min]
Climb(min)        == [do |-> "climb", min_prec |-> min]
Required          == [do |-> "required"]
Initializer(x)    == [do |-> "initializer", id |-> x]
Make(class)       == [do |-> "make", class |-> class]
MakeOver(class, op) == [do |-> "make", class |-> class, op |-> op]

-----------------------------------------------------------------------------
Init ==
  /\ tokens \in Inputs
  /\ cur = 1
  /\ todo = <<Call("function"), Consume("ENDOFFILE")>>
  /\ values = <<>>
  /\ verdict = "parsing"

Doing(what) == verdict = "parsing" /\ todo # <<>> /\ Head(todo).do = what
Run(body)   == todo' = body \o Tail(todo)
Push(v)     == values' = <<v>> \o values

peek == tokens[cur]
type == peek.token

(* Mutant: the end of the file is passed. *)
advance_Past == cur' = cur + 1

advance == cur' = IF type = "ENDOFFILE" THEN cur ELSE cur + 1

Throw == verdict' = "syntax error" /\ UNCHANGED <<tokens, cur, todo, values>>
Keep == UNCHANGED <<tokens, verdict>>

(* Decide for body without, and with, the token at hand. *)
Descend(body) == Run(body) /\ UNCHANGED cur /\ UNCHANGED values /\ Keep
Take(body)    == Run(body) /\ advance /\ UNCHANGED values /\ Keep

-----------------------------------------------------------------------------
(* consume *)

(* Mutant: a missing token is waited for. *)
Unexpected_Waits ==
  /\ Doing("consume") /\ type # Head(todo).token
  /\ UNCHANGED vars

Expected   == Doing("consume") /\ type = Head(todo).token /\ Take(<<>>)
Unexpected == Doing("consume") /\ type # Head(todo).token /\ Throw

(* if (!expr) throw *)
Given   == Doing("required") /\ Head(values) # Nil /\ Descend(<<>>)
Missing == Doing("required") /\ Head(values) = Nil /\ Throw

(* make_unique of a node, over what was returned last. *)
Operands ==
  LET m == Head(todo)
  IN  CASE m.class \in {"IfStatement", "Conditional"}    -> 3
        [] m.class \in {"BinaryOperator", "Assignment"}  -> 2
        [] OTHER                                         -> 1

Made ==
  LET m == Head(todo)
      a == values[Operands]  (* the first operand *)
      b == values[Operands - 1]
      c == values[Operands - 2]
  IN  CASE m.class = "Function"            -> Function(a)
        [] m.class = "Block"               -> Block(a)
        [] m.class = "ReturnStmt"          -> ReturnStmt(a)
        [] m.class = "CompoundStmt"        -> CompoundStmt(a)
        [] m.class = "ExpressionStmt"      -> ExpressionStmt(a)
        [] m.class = "IfStatement"         -> IfStatement(a, b, c)
        [] m.class = "DeclarationVariable" -> DeclarationVariable(m.op, a)
        [] m.class = "UnaryOperator"       -> UnaryOperator(m.op, a)
        [] m.class = "BinaryOperator"      -> BinaryOperator(m.op, a, b)
        [] m.class = "Assignment"          -> Assignment(a, b)
        [] m.class = "Conditional"         -> Conditional(a, b, c)

MakeNode ==
  /\ Doing("make")
  /\ values' = <<Made>> \o SubSeq(values, Operands + 1, Len(values))
  /\ Run(<<>>)
  /\ UNCHANGED cur /\ Keep

-----------------------------------------------------------------------------
(* Functions, blocks and declarations. *)

ParseFunction ==
  /\ Doing("function")
  /\ Descend(<<Consume("INT_KEYWORD"), Consume("IDENTIFIER"), Consume("OPEN_PARENTHESIS"),
               Consume("VOID_KEYWORD"), Consume("CLOSE_PARENTHESIS"), Call("block"),
               Make("Function")>>)

ParseBlock ==
  /\ Doing("block")
  /\ Run(<<Consume("OPEN_BRACE"), Call("items")>>)
  /\ Push(<<>>)
  /\ UNCHANGED cur /\ Keep

(* The loop over the items, up to a closing brace. *)
ParseItems ==
  /\ Doing("items")
  /\ Descend(IF type = "CLOSE_BRACE" THEN <<Consume("CLOSE_BRACE"), Make("Block")>>
             ELSE <<Call("item"), Call("push_back"), Call("items")>>)

PushBack ==
  /\ Doing("push_back")
  /\ values' = <<Append(values[2], values[1])>> \o SubSeq(values, 3, Len(values))
  /\ Run(<<>>)
  /\ UNCHANGED cur /\ Keep

ParseItem ==
  /\ Doing("item")
  /\ IF type = "INT_KEYWORD" THEN Take(<<Call("declarator")>>) ELSE Descend(<<Call("statement")>>)

Declarator ==
  /\ Doing("declarator")
  /\ IF type = "IDENTIFIER" THEN Take(<<Initializer(peek.text)>>) ELSE Throw

ParseInitializer ==
  /\ Doing("initializer")
  /\ LET end == <<Consume("SEMICOLON"), MakeOver("DeclarationVariable", Head(todo).id)>>
     IN  IF type = "ASSIGNMENT"
         THEN Take(<<parse_expr(0), Required>> \o end)
         ELSE Run(end) /\ Push(Nil) /\ UNCHANGED cur /\ Keep

-----------------------------------------------------------------------------
(* Statements. *)
Statement(t) == Doing("statement") /\ type = t

ParseReturn ==
  /\ Statement("RETURN_KEYWORD")
  /\ Take(<<Call("return")>>)

ReturnValue ==
  /\ Doing("return")
  /\ LET end == <<Consume("SEMICOLON"), Make("ReturnStmt")>>
     IN  IF type = "SEMICOLON"
         THEN Run(end) /\ Push(Nil) /\ UNCHANGED cur /\ Keep
         ELSE Descend(<<parse_expr(0), Required>> \o end)

ParseNull ==
  /\ Statement("SEMICOLON")
  /\ Run(<<>>) /\ advance /\ Push(NullStmt) /\ Keep

ParseCompound ==
  /\ Statement("OPEN_BRACE")
  /\ Descend(<<Call("block"), Make("CompoundStmt")>>)

(* Mutant: a branch may be any item of a block. *)
ParseIf_ItemBranch ==
  /\ Statement("IF_KEYWORD")
  /\ Take(<<Consume("OPEN_PARENTHESIS"), parse_expr(0), Required, Consume("CLOSE_PARENTHESIS"),
            Call("item"), Required, Call("else")>>)

ParseIf ==
  /\ Statement("IF_KEYWORD")
  /\ Take(<<Consume("OPEN_PARENTHESIS"), parse_expr(0), Required, Consume("CLOSE_PARENTHESIS"),
            Call("statement"), Required, Call("else")>>)

ParseElse ==
  /\ Doing("else")
  /\ IF type = "ELSE_KEYWORD"
     THEN Take(<<Call("statement"), Required, Make("IfStatement")>>)
     ELSE Run(<<Make("IfStatement")>>) /\ Push(Nil) /\ UNCHANGED cur /\ Keep

ParseExpression ==
  /\ Doing("statement")
  /\ type \notin {"RETURN_KEYWORD", "SEMICOLON", "OPEN_BRACE", "IF_KEYWORD"}
  /\ Descend(<<parse_expr(0), Required, Consume("SEMICOLON"), Make("ExpressionStmt")>>)

-----------------------------------------------------------------------------
(* parse_factor *)
Leaf(v) == Run(<<>>) /\ advance /\ Push(v) /\ Keep

(* from_chars leaves i as it is when the constant does not fit. *)
FactorConstant ==
  /\ Doing("factor") /\ type = "CONSTANT"
  /\ IF peek.text <= IntMax THEN Leaf(Constant(peek.text))
                            ELSE \E i \in Garbage : Leaf(Constant(i))

FactorVar ==
  Doing("factor") /\ type = "IDENTIFIER" /\ Leaf(Var(peek.text))

FactorUnary ==
  /\ Doing("factor") /\ type \in DOMAIN unary_op
  /\ Take(<<Call("factor"), Required, MakeOver("UnaryOperator", unary_op[type])>>)

FactorParenthesis ==
  /\ Doing("factor") /\ type = "OPEN_PARENTHESIS"
  /\ Take(<<parse_expr(0), Required, Consume("CLOSE_PARENTHESIS")>>)

FactorNone ==
  /\ Doing("factor")
  /\ type \notin DOMAIN unary_op \cup {"CONSTANT", "IDENTIFIER", "OPEN_PARENTHESIS"}
  /\ Run(<<>>) /\ Push(Nil) /\ UNCHANGED cur /\ Keep

-----------------------------------------------------------------------------
(* parse_expr: climb while the next operator binds at least as tightly as  *)
(* min_prec.                                                               *)
StartExpr ==
  /\ Doing("parse_expr")
  /\ Descend(<<Call("factor"), Climb(Head(todo).min_prec)>>)

Climbing(t) ==
  /\ Doing("climb") /\ Head(values) # Nil
  /\ type = t /\ get_precedence(t) >= Head(todo).min_prec

EndClimb ==
  /\ Doing("climb")
  /\ Head(values) = Nil \/ get_precedence(type) < Head(todo).min_prec
  /\ Descend(<<>>)

ClimbAssignment ==
  /\ Climbing("ASSIGNMENT")
  /\ Take(<<parse_expr(get_precedence("ASSIGNMENT")), Required, Make("Assignment"), Head(todo)>>)

ClimbConditional ==
  /\ Climbing("QUESTION_MARK_DELIMITER")
  /\ Take(<<parse_expr(0), Consume("COLON_DELIMITER"),
            parse_expr(get_precedence("QUESTION_MARK_DELIMITER")), Make("Conditional"), Head(todo)>>)

(* Mutant: the right operand may have operators of the same precedence. *)
ClimbBinary_SamePrecedence ==
  \E t \in DOMAIN binary_op :
    /\ Climbing(t)
    /\ Take(<<parse_expr(get_precedence(t)), Required,
              MakeOver("BinaryOperator", binary_op[t]), Head(todo)>>)

ClimbBinary ==
  \E t \in DOMAIN binary_op :
    /\ Climbing(t)
    /\ Take(<<parse_expr(get_precedence(t) + 1), Required,
              MakeOver("BinaryOperator", binary_op[t]), Head(todo)>>)

-----------------------------------------------------------------------------
Accept ==
  /\ verdict = "parsing" /\ todo = <<>>
  /\ verdict' = "accepted"
  /\ UNCHANGED <<tokens, cur, todo, values>>

Next ==
  \/ Expected \/ Unexpected \/ Given \/ Missing \/ MakeNode
  \/ ParseFunction \/ ParseBlock \/ ParseItems \/ PushBack \/ ParseItem
  \/ Declarator \/ ParseInitializer
  \/ ParseReturn \/ ReturnValue \/ ParseNull \/ ParseCompound \/ ParseIf \/ ParseElse
  \/ ParseExpression
  \/ FactorConstant \/ FactorVar \/ FactorUnary \/ FactorParenthesis \/ FactorNone
  \/ StartExpr \/ EndClimb \/ ClimbAssignment \/ ClimbConditional \/ ClimbBinary
  \/ Accept

Spec     == Init /\ [][Next]_vars
FairSpec == Spec /\ WF_vars(Next)

(* The index of the next token is one: no method reads past the last one.  *)
TypeOK ==
  /\ tokens[Len(tokens)] = EndOfFile
  /\ cur \in DOMAIN tokens
  /\ verdict \in {"parsing", "accepted", "syntax error"}
  /\ verdict = "accepted" => Len(values) = 1

(* Every token sequence is accepted or rejected. *)
Decides == <>(verdict # "parsing")
=============================================================================
