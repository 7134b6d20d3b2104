------------------------------- MODULE Usage -------------------------------
(***************************************************************************)
(* What a command line of dcc asks for, read off its arguments at once.    *)
(* The reference that the parser (CommandLine) is compared with.           *)
(***************************************************************************)
EXTENDS Arguments, Sequences, SequencesExt

LetterOption == [E |-> "preprocess_only", S |-> "assemble_only", h |-> "help"]
LongOption ==
  [help |-> "help", lex |-> "lex", parse |-> "parse", tacky |-> "tacky",
   validate |-> "validate", codegen |-> "codegen"]

Piece(kind, what, value) == [kind |-> kind, what |-> what, value |-> value]
AWord(a) == <<Piece("word", a, "")>>

(* The pieces of an argument: the options of a group of letters, up to the *)
(* first letter that is no option.                                         *)
RECURSIVE Pieces(_)
Pieces(a) ==
  CASE a.form = "mark" -> <<Piece("mark", a, "")>>
    [] a.form = "end"  -> <<>>
    [] a.form = "word" -> AWord(a)
    [] a.form = "long" ->
         IF a.name \in DOMAIN LongOption
         THEN <<Piece("option", LongOption[a.name],
                      IF a.value \in {"", "{}"} THEN "true" ELSE UnescapeValue(a.value))>>
         ELSE <<Piece("extra", a, "")>>
    [] a.form = "short" ->
         IF a.name \in DOMAIN LetterOption
         THEN <<Piece("option", LetterOption[a.name], "true")>> \o Pieces(a.rest)
         ELSE IF LooksLikeNumber(a) THEN AWord(a) ELSE <<Piece("extra", a, "")>>

IsMark(p) == p.kind = "mark"

(* After the first mark every argument is a word. *)
RECURSIVE PiecesOf(_)
PiecesOf(line) ==
  IF line = <<>> THEN <<>>
  ELSE LET here == Pieces(Head(line))
       IN  here \o IF \E i \in DOMAIN here : IsMark(here[i])
                   THEN FlattenSeq([i \in DOMAIN Tail(line) |-> AWord(Tail(line)[i])])
                   ELSE PiecesOf(Tail(line))

Of(kind, pieces) == SelectSeq(pieces, LAMBDA p : p.kind = kind)

(* The arguments that no option and no place of the usage line takes: all  *)
(* that is no option but the first word.                                   *)
LeftOver(pieces) ==
  LET others == SelectSeq(pieces, LAMBDA p : p.kind # "option")
      first  == SelectInSeq(others, LAMBDA p : p.kind = "word")
  IN  [i \in DOMAIN RemoveAt(others, first) |-> RemoveAt(others, first)[i].what]

(* The last value of an option counts; an error names what it is about.    *)
Asks(line) ==
  LET pieces  == PiecesOf(line)
      words   == Of("word", pieces)
      input   == Unescape(words[1].what)
      given   == Of("option", pieces)
      asked   == {given[i].what : i \in DOMAIN given} \ {"help"}
      mine(o) == SelectSeq(given, LAMBDA p : p.what = o)
      last(o) == mine(o)[Len(mine(o))].value
      bad     == {o \in asked : ~Converts(last(o))}
      fails(outcome, blame) == [outcome |-> outcome, blame |-> blame]
  IN  IF mine("help") # <<>> THEN fails("CallForHelp", {<<>>})
      ELSE IF words = <<>> THEN fails("RequiredError", {<<Word("input")>>})
      ELSE IF ~ExistingFile(input) THEN fails("ValidationError", {<<Word("input"), input>>})
      ELSE IF bad # {}
      THEN fails("ConversionError",
                 {<<Long(o, ""), [i \in DOMAIN mine(o) |-> mine(o)[i].value]>> : o \in bad})
      ELSE IF Len(words) > 1 \/ Of("extra", pieces) # <<>>
      THEN fails("ExtrasError", {LeftOver(pieces)})
      ELSE [outcome |-> "parsed", blame |-> {<<>>}, input |-> input,
            asked |-> {o \in asked : lexical_cast(last(o))}]
=============================================================================
