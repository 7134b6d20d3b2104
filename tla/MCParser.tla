------------------------------ MODULE MCParser ------------------------------
(***************************************************************************)
(* The parser on right and wrong programs: a return of four or five        *)
(* operands with any operators between them (one of each precedence, two   *)
(* of the additive); a return of every short sequence of the tokens of     *)
(* expressions; a body of every short sequence of pieces of statements,    *)
(* and of longer ones of if and else.                                      *)
(***************************************************************************)
EXTENDS Grammar, SequencesExt

MCIdent   == {"x"}
MCGarbage == {0, 1}

x == Identifier("x")

Operator == {Tok(t) : t \in {"ASSIGNMENT", "QUESTION_MARK_DELIMITER", "COLON_DELIMITER", "OR",
                             "AND", "EQUALITY", "LESSER", "ADDITION", "MINUS", "MULTIPLICATION"}}

Ladders == {<<x, p, x, q, x, r, x>> : p \in Operator, q \in Operator, r \in Operator}
           \cup {<<x, p, x, q, x, r, x, s, x>> :
                   p \in Operator, q \in Operator, r \in Operator, s \in Operator}

InExpression == {x, Number(1), Number(2)} \cup
  {Tok(t) : t \in {"ASSIGNMENT", "QUESTION_MARK_DELIMITER", "COLON_DELIMITER", "MINUS", "NOT",
                   "DIVISION", "OPEN_PARENTHESIS", "CLOSE_PARENTHESIS", "INCREMENT"}}

(* Pieces: `if (x)' and `int x' are one, with their tokens in between. *)
If    == <<Tok("IF_KEYWORD"), Tok("OPEN_PARENTHESIS"), x, Tok("CLOSE_PARENTHESIS")>>
Else  == <<Tok("ELSE_KEYWORD")>>
Semi  == <<Tok("SEMICOLON")>>
Piece == {If, Else, Semi, <<Tok("INT_KEYWORD"), x>>, <<Tok("ASSIGNMENT"), x>>, <<x>>,
          <<Tok("RETURN_KEYWORD")>>, <<Tok("OPEN_BRACE")>>, <<Tok("CLOSE_BRACE")>>}

Bodies == {FlattenSeq(w) : w \in BoundedSeq(Piece, 4) \cup BoundedSeq({If, Else, Semi}, 6)}

Heading == <<Tok("INT_KEYWORD"), x, Tok("OPEN_PARENTHESIS"), Tok("VOID_KEYWORD"),
             Tok("CLOSE_PARENTHESIS"), Tok("OPEN_BRACE")>>

MainOf(body) == Heading \o body \o <<Tok("CLOSE_BRACE"), EndOfFile>>

(* Headings that are cut or wrong at each token, and text after the end. *)
Wrong == {SubSeq(Heading, 1, n) \o <<EndOfFile>> : n \in 0..Len(Heading)}
         \cup {MainOf(Semi \o <<Tok("CLOSE_BRACE"), x>>)}

MCInputs ==
  {MainOf(<<Tok("RETURN_KEYWORD")>> \o e \o Semi) : e \in Ladders \cup BoundedSeq(InExpression, 3)}
  \cup {MainOf(b) : b \in Bodies} \cup Wrong
=============================================================================
