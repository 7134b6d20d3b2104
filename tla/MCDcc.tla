------------------------------- MODULE MCDcc -------------------------------
(***************************************************************************)
(* Every command line of up to two of the arguments below and of three of  *)
(* the shorter list: words that name a source, another file, a directory   *)
(* and nothing, or that are read as something else; flags alone, in       *)
(* groups, twice, with values of every kind and with text that turns out   *)
(* to be a flag, a number or the mark.                                     *)
(***************************************************************************)
EXTENDS Dcc, TLC

source == Word("a.c")
notes  == Word("notes.txt")

braces == Word("{}")
MCFiles ==
  (source :> "file") @@ (notes :> "file") @@ (braces :> "file") @@ (Word("[a.c]") :> "file")
  @@ (Word("dir") :> "directory")
MCUnescaped == Word("[[aa..cc]]") :> Word("[a.c]")
MCUnescapedValue == "[[77]]" :> "[7]"
MCCSources == {source}
MCNumeral == ("00" :> 0) @@ ("-3" :> -3)
MCTooLarge == {"99999999999999999999"}
MCTooSmall == {"-99999999999999999999"}

Values == {"", "false", "7", "00", "-3", "junk", "{}", "[[77]]"} \cup MCTooLarge \cup MCTooSmall

E_ == Letter("E")
S_ == Letter("S")
lex_ == Long("lex", "")

Plain == {source, E_, S_, lex_, Long("codegen", ""), Mark, Letter("h"), Long("lex", "junk")}

Odd == {notes, braces, Word("[[aa..cc]]"), Word("dir"), Word("gone.c"), Word("-"), Long("help", "false"), Long("oops", ""),
        Letter("x"), Letter("1"), Long("parse", ""), Long("tacky", ""), Long("validate", ""),
        Short("E", S_), Short("S", E_), Short("S", Long("lex", "")), Short("S", Mark),
        Short("E", Letter("1")), Short("S", Letter("=")), Short("x", Letter("h")),
        Short("h", Letter("x")), Short("E", Short("x", S_)), Short(".", Letter("5"))}
       \cup {Long("lex", v) : v \in Values}

Lines(choices, n) == [1..n -> choices]

MCCommandLines ==
  {<<>>} \cup Lines(Plain \cup Odd, 1) \cup Lines(Plain, 3)
  \cup {<<a, b>> : a \in Plain \cup Odd, b \in Plain} \cup {<<b, a>> : a \in Plain \cup Odd, b \in Plain}
  \cup {<<source, E_, a, b>> : a, b \in {Mark, S_, source}}

(* The arguments, and what is left of a group without its first letter.    *)
MCArgument ==
  Plain \cup Odd \cup {Letter("1"), Letter("="), Letter("5"), Short("x", S_)}

MCEarlier == {{}, {".i", ".s", "exe"}}
=============================================================================
