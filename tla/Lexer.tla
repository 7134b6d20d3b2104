------------------------------- MODULE Lexer --------------------------------
(***************************************************************************)
(* The lexer (lexer.cpp, lexer.hpp) and the loop in main that calls it     *)
(* until a token is invalid or the source is at its end.                   *)
(*                                                                         *)
(* A text is a sequence of characters, of which source[pos + 1] is next.   *)
(* Space, underscore, semicolon and the braces go by their names.          *)
(***************************************************************************)
EXTENDS Integers, Sequences, FiniteSets

CONSTANT Sources  (* the texts to be lexed: what gcc -E -P may print *)

Letter == {"d", "e", "f", "i", "l", "n", "o", "r", "s", "t", "u", "v"}
Digit  == {"0", "1"}
Space  == {"space", "\n"}
Alpha  == Letter \cup {"underscore"}
Alnum  == Letter \cup Digit
Other  == {"=", "+", "-", "semicolon", "lbrace", "rbrace", "(", ")", "~", "*", "/",
           "%", "!", "<", ">", "&", "|", ":", "?", "@"}
Char   == Alpha \cup Alnum \cup Space \cup Other

ASSUME SourceAssumption == Sources \subseteq Seq(Char)

VARIABLES
  source,
  pos, line, col,
  mode,       (* which loop the lexer is in *)
  began,      (* start_pos, start_line and start_col of the token *)
  tokens, verdict

position == <<pos, line, col>>
vars == <<source, position, mode, began, tokens, verdict>>

Mode    == {"main", "space", "word", "number", "bad"}
Verdict == {"lexing", "done", "invalid", "assertion", "exception"}

Keyword ==
  [w \in {<<"i","f">>, <<"i","n","t">>, <<"v","o","i","d">>, <<"e","l","s","e">>,
          <<"r","e","t","u","r","n">>} |->
     CASE w = <<"i","f">>         -> "IF_KEYWORD"
       [] w = <<"i","n","t">>     -> "INT_KEYWORD"
       [] w = <<"v","o","i","d">> -> "VOID_KEYWORD"
       [] w = <<"e","l","s","e">> -> "ELSE_KEYWORD"
       [] OTHER                   -> "RETURN_KEYWORD"]

check_keyword(text) == IF text \in DOMAIN Keyword THEN Keyword[text] ELSE "IDENTIFIER"

(* Operators of one character: the character, the token, the text.  & and  *)
(* | fall through to the case of the colon.                                *)
Single ==
  {<<"+", "ADDITION", "+">>, <<"-", "MINUS", "-">>, <<"*", "MULTIPLICATION", "*">>,
   <<"/", "DIVISION", "/">>, <<"%", "REMAINDER", "%">>, <<"~", "COMPLEMENT", "~">>,
   <<"!", "NOT", "!">>, <<"<", "LESSER", "<">>, <<">", "GREATER", "<">>,
   <<"semicolon", "SEMICOLON", "semicolon">>, <<"lbrace", "OPEN_BRACE", "lbrace">>,
   <<"rbrace", "CLOSE_BRACE", "rbrace">>,
   <<"(", "OPEN_PARENTHESIS", "(">>, <<")", "CLOSE_PARENTHESIS", ")">>,
   <<"?", "QUESTION_MARK_DELIMITER", "?">>, <<":", "COLON_DELIMITER", ":">>,
   <<"&", "COLON_DELIMITER", ":">>, <<"|", "COLON_DELIMITER", ":">>}

(* Operators of two characters.  & falls through to the case of |.         *)
Double ==
  {<<"=", "=", "EQUALITY">>, <<"!", "=", "NOT_EQUALITY">>, <<"+", "+", "INCREMENT">>,
   <<"+", "=", "ADDITION_EQUALS">>, <<"-", "-", "DECREMENT">>,
   <<"-", "=", "SUBTRACTION_EQUALS">>, <<"<", "=", "LESSER_EQUAL">>,
   <<">", "=", "GREATER_EQUAL">>, <<"&", "&", "AND">>, <<"|", "|", "OR">>,
   <<"&", "|", "OR">>}

-----------------------------------------------------------------------------
AtEnd == pos >= Len(source)
peek  == IF AtEnd THEN "end" ELSE source[pos + 1]
after == IF pos + 1 >= Len(source) THEN "end" ELSE source[pos + 2]

(* Mutant: columns start at 0. *)
advance_ColumnZero ==
  /\ pos' = pos + 1
  /\ IF peek = "\n" THEN line' = line + 1 /\ col' = 0
                    ELSE line' = line /\ col' = col + 1

(* Mutant: lines are not counted. *)
advance_OneLine == pos' = pos + 1 /\ line' = line /\ col' = col + 1

advance ==
  /\ pos' = pos + 1
  /\ IF peek = "\n" THEN line' = line + 1 /\ col' = 1
                    ELSE line' = line /\ col' = col + 1

(* Neither of two characters is a newline. *)
AdvanceBy(n) == pos' = pos + n /\ line' = line /\ col' = col + n

Slice(p, n) == SubSeq(source, p + 1, n)

Init ==
  /\ source \in Sources
  /\ pos = 0 /\ line = 1 /\ col = 1
  /\ mode = "main"
  /\ began = [pos |-> 0, line |-> 1, col |-> 1]
  /\ tokens = <<>>
  /\ verdict = "lexing"

In(m)   == verdict = "lexing" /\ mode = m
Stop(v) == verdict' = v /\ UNCHANGED <<source, position, mode, began, tokens>>

(* get_next_token returns, and the loop in main takes the token.  first    *)
(* and end are ghosts: the characters that were consumed for it.           *)
Deliver(type, text, at, first, end) ==
  /\ tokens' = Append(tokens, [token |-> type, text |-> text, line |-> at[1], col |-> at[2],
                               first |-> first, end |-> end])
  /\ mode' = "main"
  /\ verdict' = CASE type = "INVALID"   -> "invalid"
                  [] type = "ENDOFFILE" -> "done"
                  [] OTHER              -> "lexing"
  /\ UNCHANGED <<source, began>>

-----------------------------------------------------------------------------
(* get_next_token *)

(* Mutant: a last white space does not count. *)
check_invariants_Early == pos + 1 < Len(source)

check_invariants == pos < Len(source)

AssertionFails == In("main") /\ ~check_invariants /\ Stop("assertion")

Call ==
  /\ In("main") /\ check_invariants
  /\ mode' = "space"
  /\ UNCHANGED <<source, position, began, tokens, verdict>>

SkipSpace ==
  /\ In("space") /\ peek \in Space
  /\ advance
  /\ UNCHANGED <<source, mode, began, tokens, verdict>>

EndOfFile ==
  /\ In("space") /\ AtEnd
  /\ Deliver("ENDOFFILE", <<>>, <<line, col>>, pos, pos)
  /\ UNCHANGED position

(* An operator starts at this character.  The text of some is a slice      *)
(* whose first character is the one before.  At the start of the source    *)
(* that is no position, and substr throws.                                 *)
IsDouble == \E t \in Double : t[1] = peek /\ t[2] = after
IsSingle == ~IsDouble /\ \E t \in Single : t[1] = peek
IsSliced == peek \in Other /\ ~IsSingle

SliceThrows == In("space") /\ IsSliced /\ pos = 0 /\ Stop("exception")

DeliverHere(type, text, n) ==
  /\ AdvanceBy(n)
  /\ Deliver(type, text, <<line, col>>, pos, pos + n)

OneCharacter ==
  /\ In("space") /\ IsSingle
  /\ \E t \in Single : t[1] = peek /\ DeliverHere(t[2], <<t[3]>>, 1)

TwoCharacters ==
  /\ In("space") /\ IsDouble /\ pos > 0
  /\ \E t \in Double : /\ t[1] = peek /\ t[2] = after
                       /\ DeliverHere(t[3], Slice(pos - 1, pos + 2), 2)

AssignmentOrInvalid ==
  /\ In("space") /\ IsSliced /\ ~IsDouble /\ pos > 0
  /\ DeliverHere(IF peek = "=" THEN "ASSIGNMENT" ELSE "INVALID", Slice(pos - 1, pos + 1), 1)

(* A word or a number: the scan method takes the position of its first     *)
(* character, and the line and the column after that character.            *)
Scan(chars, m) ==
  /\ In("space") /\ peek \in chars
  /\ advance
  /\ mode' = m
  /\ began' = [pos |-> pos, line |-> line', col |-> col']
  /\ UNCHANGED <<source, tokens, verdict>>

StartConstant   == Scan(Digit, "number")
StartIdentifier == Scan(Alpha, "word")

Consume(chars, from, to) ==
  /\ In(from) /\ peek \in chars
  /\ advance
  /\ mode' = to
  /\ UNCHANGED <<source, began, tokens, verdict>>

DeliverScanned(type) ==
  /\ Deliver(type, Slice(began.pos, pos), <<began.line, began.col>>, began.pos, pos)
  /\ UNCHANGED position

(* scan_identifier *)
ConsumeIdentifier == Consume(Alnum \cup {"underscore"}, "word", "word")

EndIdentifier ==
  /\ In("word") /\ peek \notin Alnum \cup {"underscore"}
  /\ DeliverScanned(check_keyword(Slice(began.pos, pos)))

(* scan_constant: a number that a letter follows is invalid. *)
ConsumeConstant == Consume(Digit, "number", "number")
LetterInConstant == Consume(Letter, "number", "bad")

(* Mutant: the letter ends the number. *)
EndConstant_AtLetter ==
  /\ In("number") /\ peek \notin Digit
  /\ DeliverScanned("CONSTANT")

EndConstant ==
  /\ In("number") /\ peek \notin Alnum
  /\ DeliverScanned("CONSTANT")

(* Mutant: the rest is looked at, but not consumed. *)
ConsumeBadConstant_Stays ==
  /\ In("bad") /\ peek \in Alnum
  /\ UNCHANGED vars

ConsumeBadConstant == Consume(Alnum, "bad", "bad")

EndBadConstant ==
  /\ In("bad") /\ peek \notin Alnum
  /\ DeliverScanned("INVALID")

-----------------------------------------------------------------------------
Next ==
  \/ AssertionFails \/ Call \/ SkipSpace \/ EndOfFile
  \/ SliceThrows \/ OneCharacter \/ TwoCharacters \/ AssignmentOrInvalid
  \/ StartConstant \/ StartIdentifier \/ ConsumeIdentifier \/ EndIdentifier
  \/ ConsumeConstant \/ LetterInConstant \/ EndConstant
  \/ ConsumeBadConstant \/ EndBadConstant

Spec     == Init /\ [][Next]_vars
FairSpec == Spec /\ WF_vars(Next)

-----------------------------------------------------------------------------
(* The tokens as C and the comments of the enumeration token_type have     *)
(* them, by their spelling, without regard to how they are scanned.        *)

Spelling ==
  [EQUALITY |-> <<"=", "=">>, ASSIGNMENT |-> <<"=">>, ADDITION |-> <<"+">>,
   ADDITION_EQUALS |-> <<"+", "=">>, INCREMENT |-> <<"+", "+">>, MINUS |-> <<"-">>,
   SUBTRACTION_EQUALS |-> <<"-", "=">>, DECREMENT |-> <<"-", "-">>,
   SEMICOLON |-> <<"semicolon">>, OPEN_BRACE |-> <<"lbrace">>,
   CLOSE_BRACE |-> <<"rbrace">>, OPEN_PARENTHESIS |-> <<"(">>,
   CLOSE_PARENTHESIS |-> <<")">>, COMPLEMENT |-> <<"~">>, MULTIPLICATION |-> <<"*">>,
   DIVISION |-> <<"/">>, REMAINDER |-> <<"%">>, QUESTION_MARK_DELIMITER |-> <<"?">>,
   COLON_DELIMITER |-> <<":">>, IF_KEYWORD |-> <<"i", "f">>, INT_KEYWORD |-> <<"i", "n", "t">>,
   VOID_KEYWORD |-> <<"v", "o", "i", "d">>, ELSE_KEYWORD |-> <<"e", "l", "s", "e">>,
   RETURN_KEYWORD |-> <<"r", "e", "t", "u", "r", "n">>,
   NOT |-> <<"!">>, NOT_EQUALITY |-> <<"!", "=">>, AND |-> <<"&", "&">>, OR |-> <<"|", "|">>,
   LESSER |-> <<"<">>, GREATER |-> <<">">>, LESSER_EQUAL |-> <<"<", "=">>,
   GREATER_EQUAL |-> <<">", "=">>]

(* Those whose spelling the comments give. *)
Listed == {"NOT", "NOT_EQUALITY", "AND", "OR", "LESSER", "GREATER", "LESSER_EQUAL",
           "GREATER_EQUAL"}

Spelled == {Spelling[type] : type \in DOMAIN Spelling}
All(w, chars) == \A k \in DOMAIN w : w[k] \in chars

IsConstant(w) == w # <<>> /\ All(w, Digit)

IsIdentifier(w) ==
  w # <<>> /\ w[1] \in Alpha /\ All(w, Alnum \cup {"underscore"}) /\ w \notin Spelled

IsInvalid(w) ==
  \/ Len(w) = 1 /\ w \notin Spelled /\ w[1] \in Other
  \/ \E n \in 1..Len(w) - 1 :
       IsConstant(SubSeq(w, 1, n)) /\ w[n + 1] \in Letter /\ All(w, Alnum)

Lexeme(type, w) ==
  CASE type = "CONSTANT"   -> IsConstant(w)
    [] type = "IDENTIFIER" -> IsIdentifier(w)
    [] type = "INVALID"    -> IsInvalid(w)
    [] type = "ENDOFFILE"  -> w = <<>>
    [] OTHER               -> w = Spelling[type]

IsLexeme(w) == IsConstant(w) \/ IsIdentifier(w) \/ IsInvalid(w) \/ w \in Spelled

Consumed(t) == SubSeq(source, t.first + 1, t.end)

-----------------------------------------------------------------------------
TypeOK ==
  /\ source \in Seq(Char)
  /\ pos \in 0..Len(source)
  /\ line \in Nat \ {0} /\ col \in Nat \ {0}
  /\ mode \in Mode
  /\ began \in [pos : 0..Len(source), line : Nat, col : Nat]
  /\ tokens \in Seq([token : DOMAIN Spelling \cup {"CONSTANT", "IDENTIFIER", "INVALID", "ENDOFFILE"},
                     text : Seq(Char), line : Nat, col : Nat, first : Nat, end : Nat])
  /\ verdict \in Verdict

(* The tokens cover the source in order, but for white space, and each is  *)
(* the longest lexeme at its place: a keyword is not the start of a longer *)
(* word, a number is not cut at a letter, == is not two assignments.  The  *)
(* text of a word or a number, which the parser uses, is what was read.    *)
(* Excepted is a single & or |, which the lexer takes for something else.  *)
Stray(t) == Consumed(t) # <<>> /\ Consumed(t)[1] \in {"&", "|"} /\ Consumed(t) \notin Spelled

TokensAreMaximal ==
  \A k \in DOMAIN tokens :
    LET t == tokens[k]
        previous == IF k = 1 THEN 0 ELSE tokens[k - 1].end
    IN  /\ previous <= t.first
        /\ All(SubSeq(source, previous + 1, t.first), Space)
        /\ \/ Stray(t)
           \/ /\ Lexeme(t.token, Consumed(t))
              /\ \A n \in t.end + 1..Len(source) : ~IsLexeme(SubSeq(source, t.first + 1, n))
        /\ t.token \in {"IDENTIFIER", "CONSTANT"} => t.text = Consumed(t)
        /\ t.token = "ENDOFFILE" => t.end = Len(source)

(* A token is reported in its line, an operator at the column of its first *)
(* character, and a word or a number at the column after that.             *)
PlacesAreRight ==
  \A k \in DOMAIN tokens :
    LET t == tokens[k]
        newlines == {n \in 1..t.first : source[n] = "\n"}
        start == CHOOSE n \in newlines \cup {0} : \A m \in newlines : m <= n
        word == Consumed(t) # <<>> /\ Consumed(t)[1] \in Alpha \cup Digit
    IN  /\ t.line = Cardinality(newlines) + 1
        /\ t.col = t.first - start + 1 + (IF word THEN 1 ELSE 0)

(* The lexer aborts only on a source that does not end in white space (it  *)
(* may be empty), or that starts with an operator or an invalid character: *)
(* never on what gcc -E -P makes of a program.                             *)
AbortsAtEdgesOnly ==
  /\ verdict = "assertion" => source = <<>> \/ source[Len(source)] \notin Space
  /\ verdict = "exception" => source[1] \in Other

(* Every source is lexed to its end, or to an error. *)
Decides == <>(verdict # "lexing")

(* A token is what its name stands for: OR is read from || only.           *)
ReadFromSpelling ==
  \A k \in DOMAIN tokens :
    tokens[k].token \in Listed => Consumed(tokens[k]) = Spelling[tokens[k].token]
=============================================================================
