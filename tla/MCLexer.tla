------------------------------ MODULE MCLexer -------------------------------
(***************************************************************************)
(* Every source of up to four characters, with and without a newline at    *)
(* its end, and the keywords with what makes them longer words.            *)
(***************************************************************************)
EXTENDS Lexer, SequencesExt

Alphabet == {"i", "f", "1", "underscore", "space", "\n", "=", "+", "!", ">", "&", "|", "@"}
Longer   == {<<>>, <<"f">>, <<"underscore">>, <<"1">>, <<"semicolon">>}

Short    == BoundedSeq(Alphabet, 4)
Keywords == {before \o w \o behind \o <<"\n">> :
               before \in Longer, behind \in Longer, w \in DOMAIN Keyword}

MCSources == Short \cup {w \o <<"\n">> : w \in Short} \cup Keywords
=============================================================================
