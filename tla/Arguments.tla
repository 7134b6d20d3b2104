----------------------------- MODULE Arguments -----------------------------
(***************************************************************************)
(* The arguments of the command line as CLI11 (include/CLI/CLI11.hpp)      *)
(* tells them apart, and the values that a flag or an option may take.     *)
(*                                                                         *)
(* An argument is a form and what the form carries; the characters of a    *)
(* word, of a name or of a value stay together.  A short one is a letter   *)
(* and the argument that "-" and the text after the letter would spell,    *)
(* because that is what the parser makes of the text: "-ES" is "-E" and    *)
(* then "-S", "-S-lex" is "-S" and then "--lex", and "-E-" ends in "--".   *)
(***************************************************************************)
EXTENDS Integers

Mark       == [form |-> "mark"]                               (* --          *)
Long(n, v) == [form |-> "long", name |-> n, value |-> v]      (* --n, --n=v  *)
Short(c, rest) == [form |-> "short", name |-> c, rest |-> rest]
End        == [form |-> "end"]                     (* nothing after a letter *)
Letter(c)  == Short(c, End)                                   (* -c          *)
Word(w)    == [form |-> "word", text |-> w]                   (* all others  *)

Digit == {"0", "1", "2", "3", "4", "5", "6", "7", "8", "9"}

CONSTANTS
  Files,      (* what is at a path: a function from some arguments to "file" *)
              (* and "directory"                                             *)
  Unescaped,  (* the words in double brackets, as in "[[aa..cc]]", and the   *)
              (* words that they stand for, "[a.c]"                          *)
  UnescapedValue,  (* the same for the values of a flag                      *)
  Numeral,    (* the numerals of two and more characters among the values,   *)
              (* and the numbers they spell                                  *)
  TooLarge,   (* and those that start with a number that no 64-bit word has  *)
  TooSmall

ASSUME ValueAssumption ==
  /\ \A v \in DOMAIN Numeral : Numeral[v] \in Int
  /\ DOMAIN Numeral \cap (TooLarge \cup TooSmall) = {}

-----------------------------------------------------------------------------
(* "-1" and "-.5" look like numbers. *)
LooksLikeNumber(a) ==
  \/ a.name \in Digit
  \/ a.name = "." /\ a.rest.form = "short" /\ a.rest.name \in Digit

(* An escaped word is taken for what it stands for. *)
Unescape(a) == IF a \in DOMAIN Unescaped THEN Unescaped[a] ELSE a
UnescapeValue(v) == IF v \in DOMAIN UnescapedValue THEN UnescapedValue[v] ELSE v

check_path(a) == IF a \in DOMAIN Files THEN Files[a] ELSE "nonexistent"

(* ExistingFileValidator *)
ExistingFile(a) == check_path(a) \notin {"nonexistent", "directory"}

-----------------------------------------------------------------------------
(* The values of a flag, in lower case. *)
Yes == {"true", "on", "yes", "enable", "t", "y", "+"}
No  == {"false", "off", "no", "disable", "f", "n", "-", "0"}

IsFlagValue(v) == v \in Yes \cup No \cup Digit \cup DOMAIN Numeral

to_flag_value(v) ==
  CASE v \in No             -> -1
    [] v \in Yes \cup Digit -> 1     (* the value of a digit is not looked at *)
    [] OTHER                -> Numeral[v]

(* lexical_cast for bool: what has no number is refused, and what is too   *)
(* large for one is true.                                                  *)
Converts(v)     == IsFlagValue(v) \/ v \in TooLarge \cup TooSmall
lexical_cast(v) == IF IsFlagValue(v) THEN to_flag_value(v) > 0 ELSE v \in TooLarge
=============================================================================
