------------------------------- MODULE Names -------------------------------
(***************************************************************************)
(* The names that the compiler makes.  A variable is a base and a number:  *)
(* the temporary "tmp.3" is [base |-> "tmp", num |-> 3], and the source    *)
(* variable "a" has no number.  The lexer puts only letters, digits and    *)
(* '_' in an identifier, so the two never render to the same string.  A    *)
(* label "if_end4" is a prefix and a number; no prefix ends in a digit, so *)
(* distinct pairs render to distinct labels.                               *)
(***************************************************************************)
EXTENDS Integers

CONSTANT Ident  (* The identifiers that source variables may have. *)

NoNumber  == -1
Source(x) == [base |-> x, num |-> NoNumber]
Tmp(n)    == [base |-> "tmp", num |-> n]
Name      == [base : Ident, num : {NoNumber}] \cup [base : {"tmp"}, num : Nat]

LabelPrefix == {"and_false", "and_else", "or_true", "or_end", "if_end",
                "if_else", "e2_end", "conditional_end"}
LabelName(p, n) == [prefix |-> p, num |-> n]
LabelId == [prefix : LabelPrefix, num : Nat]
=============================================================================
