------------------------- MODULE CommandLineProofs -------------------------
(***************************************************************************)
(* Theorems about the App of main, for every set of command lines of any   *)
(* length.                                                                 *)
(***************************************************************************)
EXTENDS CommandLine, SequenceTheorems, TLAPS

-----------------------------------------------------------------------------
(***************************************************************************)
(* The options that are declared.                                          *)
(***************************************************************************)

Fields ==
  {"snames", "lnames", "pname", "variable", "type_name", "group", "required",
   "configurable", "policy", "priority", "type_size_min", "type_size_max",
   "expected_min", "expected_max", "flag_like", "allow_extra_args",
   "validators", "results", "proc_results", "state"}

LEMMA Unbounded == expected_max_vector_size \in Int /\ expected_max_vector_size > 1
BY SMT DEF expected_max_vector_size

LEMMA NoOverflow == ~(1 > MaxInt32 \div 1)
BY SMT DEF MaxInt32

(* An option that was just declared. *)
Fresh(o) ==
  /\ DOMAIN o = Fields
  /\ o.results = <<>> /\ o.proc_results = <<>> /\ o.state = "parsing"
  /\ o.type_size_min = 1 /\ o.type_size_max = 1

(* One of add_flag, with the variable v and the priority p,                *)
FlagOption(o, v, p) ==
  /\ Fresh(o) /\ ~get_positional(o) /\ o.policy = "TakeLast" /\ o.validators = {} /\ ~o.required
  /\ o.expected_min = 0 /\ o.expected_max = 0 /\ ~o.allow_extra_args
  /\ o.variable = v /\ o.priority = p

(* and the one of add_option. *)
FileOption(o) ==
  /\ Fresh(o) /\ get_positional(o) /\ o.policy = "Throw"
  /\ o.validators = {"ExistingFile"} /\ o.required
  /\ o.expected_min = 1 /\ o.expected_max = 1 /\ ~o.allow_extra_args
  /\ o.variable = "input_file" /\ o.priority = "Normal"

(* What the constructor leaves in an option. *)
Constructed(o, v) ==
  /\ Fresh(o) /\ o.policy = "Throw" /\ o.validators = {} /\ ~o.required
  /\ o.expected_min = 1 /\ o.expected_max = 1 /\ ~o.allow_extra_args
  /\ o.variable = v /\ o.priority = "Normal"

(* Whether one of the names is positional. *)
HasWord(names) == PositionalName(names) # ""

LEMMA NewIsConstructed ==
  ASSUME NEW names, NEW v
  PROVE  /\ Constructed(NewOption(names, v), v)
         /\ get_positional(NewOption(names, v)) <=> HasWord(names)
<1>1. Constructed(NewOption(names, v), v)
  BY DEF NewOption, Constructed, Fresh, Fields, OptionDefaults
<1>2. NewOption(names, v).pname = PositionalName(names)
  BY DEF NewOption
<1> QED
  BY <1>1, <1>2 DEF get_positional, HasWord

(* What copy_to and the modifiers leave alone. *)
LEMMA CopyIsConstructed ==
  ASSUME NEW o, NEW v, Constructed(o, v)
  PROVE  Constructed(copy_to(o), v) /\ copy_to(o).pname = o.pname
BY DEF Constructed, copy_to, callback_priority, multi_option_policy, configurable,
   required, group, OptionDefaults, Fresh, Fields

LEMMA SameName ==
  ASSUME NEW o, NEW p, p.pname = o.pname
  PROVE  get_positional(p) <=> get_positional(o)
BY DEF get_positional

(* Option::expected, of a flag and of an option. *)
LEMMA ExpectedNone ==
  ASSUME NEW o, DOMAIN o = Fields
  PROVE  LET c == expected(o, 0)
         IN  /\ DOMAIN c = Fields /\ c.expected_min = 0 /\ c.expected_max = 0
             /\ \A f \in Fields \ {"expected_min", "expected_max", "flag_like"} : c[f] = o[f]
<1>1. ~(0 < 0) /\ 0 # expected_max_vector_size
  BY Unbounded
<1>2. expected(o, 0) = [o EXCEPT !.expected_min = 0, !.expected_max = 0, !.flag_like = (0 = 0)]
  BY <1>1, Zenon DEF expected
<1> QED
  BY <1>2 DEF Fields

LEMMA ExpectedOne ==
  ASSUME NEW o, DOMAIN o = Fields
  PROVE  LET c == expected(o, 1)
         IN  /\ DOMAIN c = Fields /\ c.expected_min = 1 /\ c.expected_max = 1
             /\ \A f \in Fields \ {"expected_min", "expected_max", "flag_like"} : c[f] = o[f]
<1>1. ~(1 < 0) /\ 1 # expected_max_vector_size
  BY Unbounded
<1>2. expected(o, 1) = [o EXCEPT !.expected_min = 1, !.expected_max = 1, !.flag_like = (1 = 0)]
  BY <1>1, Zenon DEF expected
<1> QED
  BY <1>2 DEF Fields

LEMMA FlagDeclared ==
  ASSUME NEW names, NEW v, ~HasWord(names)
  PROVE  FlagOption(add_flag_internal(names, v), v, "Normal")
<1> DEFINE a == copy_to(NewOption(names, v))
           b == multi_option_policy(a, "TakeLast")
           c == expected(b, 0)
<1>1. Constructed(a, v) /\ ~get_positional(a)
  BY NewIsConstructed, CopyIsConstructed, SameName
<1>2. add_flag_internal(names, v) = required(c, FALSE)
  BY DEF add_flag_internal
<1> HIDE DEF a
<1>3. /\ Fresh(b) /\ b.pname = a.pname /\ b.policy = "TakeLast" /\ b.validators = {}
      /\ ~b.allow_extra_args /\ b.variable = v /\ b.priority = "Normal"
  BY <1>1 DEF Constructed, multi_option_policy, Fresh, Fields
<1> HIDE DEF b
<1>4. /\ DOMAIN c = Fields /\ c.expected_min = 0 /\ c.expected_max = 0
      /\ \A f \in Fields \ {"expected_min", "expected_max", "flag_like"} : c[f] = b[f]
  BY <1>3, ExpectedNone DEF Fresh
<1> HIDE DEF c
<1> DEFINE d == required(c, FALSE)
<1>5. /\ DOMAIN d = Fields /\ ~d.required
      /\ \A f \in Fields \ {"required"} : d[f] = c[f]
  BY <1>4 DEF required, Fields
<1> HIDE DEF d
<1>6. ~get_positional(d)
  BY <1>1, <1>3, <1>4, <1>5, SameName DEF Fields
<1>7. \A f \in Fields \ {"expected_min", "expected_max", "flag_like", "required"} : d[f] = b[f]
  BY <1>4, <1>5
<1>8. d.expected_min = 0 /\ d.expected_max = 0
  BY <1>4, <1>5 DEF Fields
<1>9. FlagOption(d, v, "Normal")
  BY <1>3, <1>5, <1>6, <1>7, <1>8 DEF FlagOption, Fresh, Fields
<1> QED
  BY <1>2, <1>9 DEF d

LEMMA HelpDeclared ==
  ASSUME NEW names, ~HasWord(names)
  PROVE  FlagOption(set_help_flag(names), "none", "First")
<1> DEFINE a == add_flag_internal(names, "none")
           d == set_help_flag(names)
<1>1. FlagOption(a, "none", "Normal")
  BY FlagDeclared
<1>2. d = callback_priority(configurable(a, FALSE), "First")
  BY DEF set_help_flag
<1> HIDE DEF a, d
<1>3. /\ DOMAIN d = Fields /\ d.priority = "First"
      /\ \A f \in Fields \ {"configurable", "priority"} : d[f] = a[f]
  BY <1>1, <1>2 DEF FlagOption, Fresh, callback_priority, configurable, Fields
<1>4. ~get_positional(d)
  BY <1>1, <1>3, SameName DEF FlagOption, Fields
<1> QED
  BY <1>1, <1>3, <1>4 DEF FlagOption, Fresh, Fields, d

LEMMA FileDeclared ==
  ASSUME NEW names, HasWord(names)
  PROVE  FileOption(check(required(add_option(names, "input_file"), TRUE), "ExistingFile"))
<1> DEFINE a == copy_to(NewOption(names, "input_file"))
           b == type_size(type_name(a, "TEXT"), 1, 1)
           c == expected(b, 1)
           d == check(required(c, TRUE), "ExistingFile")
<1>1. Constructed(a, "input_file") /\ get_positional(a)
  BY NewIsConstructed, CopyIsConstructed, SameName
<1>2. add_option(names, "input_file") = c
  BY DEF add_option
<1> HIDE DEF a
<1>3. /\ DOMAIN b = Fields /\ b.type_size_min = 1 /\ b.type_size_max = 1
      /\ \A f \in Fields \ {"type_size_min", "type_size_max", "type_name", "required"} : b[f] = a[f]
  BY <1>1 DEF Constructed, type_size, type_name, Fresh, Fields
<1> HIDE DEF b
<1>4. /\ DOMAIN c = Fields /\ c.expected_min = 1 /\ c.expected_max = 1
      /\ \A f \in Fields \ {"expected_min", "expected_max", "flag_like"} : c[f] = b[f]
  BY <1>3, ExpectedOne
<1> HIDE DEF c
<1>5. /\ DOMAIN d = Fields /\ d.required /\ d.validators = c.validators \cup {"ExistingFile"}
      /\ \A f \in Fields \ {"required", "validators"} : d[f] = c[f]
  BY <1>4 DEF required, check, Fields
<1> HIDE DEF d
<1>6. get_positional(d)
  BY <1>1, <1>3, <1>4, <1>5, SameName DEF Fields
<1>7. \A f \in Fields \ {"required", "validators", "expected_min", "expected_max", "flag_like",
                        "type_size_min", "type_size_max", "type_name"} : d[f] = a[f]
  BY <1>3, <1>4, <1>5
<1>8. /\ d.type_size_min = 1 /\ d.type_size_max = 1
      /\ d.expected_min = 1 /\ d.expected_max = 1
      /\ d.validators = c.validators \cup {"ExistingFile"}
      /\ c.validators = a.validators
  BY <1>3, <1>4, <1>5 DEF Fields
<1>9. FileOption(d)
  BY <1>1, <1>5, <1>6, <1>7, <1>8 DEF FileOption, Constructed, Fresh, Fields
<1> QED
  BY <1>2, <1>9 DEF d

LEMMA NoWordAmong ==
  ASSUME NEW names, \A a \in names : a.form # "word"
  PROVE  ~HasWord(names)
<1>1. {b \in names : b.form = "word"} = {}
  OBVIOUS
<1>2. {a.text : a \in {b \in names : b.form = "word"}} = {}
  BY <1>1
<1> QED
  BY <1>2, Zenon DEF HasWord, PositionalName

LEMMA Forms ==
  /\ \A c : Letter(c).form = "short"
  /\ \A n, v : Long(n, v).form = "long"
  /\ \A w : Word(w).form = "word" /\ Word(w).text = w
BY DEF Letter, Short, Long, Word

LEMMA InputIsWord == HasWord({Word("input")})
<1>1. {b \in {Word("input")} : b.form = "word"} = {Word("input")}
  BY Forms
<1>2. {a.text : a \in {b \in {Word("input")} : b.form = "word"}} = {"input"}
  BY <1>1, Forms
<1>3. PositionalName({Word("input")}) = CHOOSE w \in {"input"} : TRUE
  BY <1>2, Zenon DEF PositionalName
<1>4. (CHOOSE w \in {"input"} : TRUE) = "input"
  OBVIOUS
<1> QED
  BY <1>3, <1>4 DEF HasWord

LEMMA NineInARow ==
  ASSUME NEW a, NEW b1, NEW b2, NEW b3, NEW b4, NEW b5, NEW b6, NEW b7, NEW b8
  PROVE  LET s == <<a>> \o <<b1, b2, b3, b4, b5, b6, b7, b8>>
         IN  /\ s \in Seq({s[i] : i \in 1..9}) /\ Len(s) = 9
             /\ s[1] = a /\ s[2] = b1 /\ s[3] = b2 /\ s[4] = b3 /\ s[5] = b4
             /\ s[6] = b5 /\ s[7] = b6 /\ s[8] = b7 /\ s[9] = b8
OBVIOUS

(* What each option of main stores into. *)
Variable ==
  <<"none", "input_file", "preprocess_only", "assemble_only", "lex", "parse", "tacky",
    "validate", "codegen">>

LEMMA AllDeclared ==
  /\ Len(Declared) = 9
  /\ FlagOption(Declared[1], "none", "First")
  /\ FileOption(Declared[2])
  /\ \A i \in 3..9 : FlagOption(Declared[i], Variable[i], "Normal")
<1> DEFINE a  == set_help_flag({Letter("h"), Long("help", "")})
           b1 == check(required(add_option({Word("input")}, "input_file"), TRUE), "ExistingFile")
           b2 == add_flag_internal({Letter("E")}, "preprocess_only")
           b3 == add_flag_internal({Letter("S")}, "assemble_only")
           b4 == add_flag_internal({Long("lex", "")}, "lex")
           b5 == add_flag_internal({Long("parse", "")}, "parse")
           b6 == add_flag_internal({Long("tacky", "")}, "tacky")
           b7 == add_flag_internal({Long("validate", "")}, "validate")
           b8 == add_flag_internal({Long("codegen", "")}, "codegen")
<1>1. FlagOption(a, "none", "First")
  BY HelpDeclared, NoWordAmong, Forms
<1>2. FileOption(b1)
  BY FileDeclared, InputIsWord
<1>3. /\ FlagOption(b2, "preprocess_only", "Normal")
      /\ FlagOption(b3, "assemble_only", "Normal")
  BY FlagDeclared, NoWordAmong, Forms
<1>4. /\ FlagOption(b4, "lex", "Normal") /\ FlagOption(b5, "parse", "Normal")
      /\ FlagOption(b6, "tacky", "Normal") /\ FlagOption(b7, "validate", "Normal")
      /\ FlagOption(b8, "codegen", "Normal")
  <2>1. ASSUME NEW n, NEW w PROVE FlagOption(add_flag_internal({Long(n, "")}, w), w, "Normal")
    BY FlagDeclared, NoWordAmong, Forms
  <2> QED
    BY <2>1
<1>5. Declared = <<a>> \o <<b1, b2, b3, b4, b5, b6, b7, b8>>
  BY DEF Declared, DeclaredByApp
<1> HIDE DEF a, b1, b2, b3, b4, b5, b6, b7, b8
<1>6. /\ Len(Declared) = 9
      /\ Declared[1] = a /\ Declared[2] = b1 /\ Declared[3] = b2 /\ Declared[4] = b3
      /\ Declared[5] = b4 /\ Declared[6] = b5 /\ Declared[7] = b6 /\ Declared[8] = b7
      /\ Declared[9] = b8
  BY <1>5, NineInARow
<1>7. /\ Variable[3] = "preprocess_only" /\ Variable[4] = "assemble_only" /\ Variable[5] = "lex"
      /\ Variable[6] = "parse" /\ Variable[7] = "tacky" /\ Variable[8] = "validate"
      /\ Variable[9] = "codegen"
  BY DEF Variable
<1>8. \A i \in 3..9 : i \in {3, 4, 5, 6, 7, 8, 9}
  OBVIOUS
<1>9. \A i \in {3, 4, 5, 6, 7, 8, 9} : FlagOption(Declared[i], Variable[i], "Normal")
  BY <1>3, <1>4, <1>6, <1>7
<1> QED
  BY <1>1, <1>2, <1>6, <1>8, <1>9

-----------------------------------------------------------------------------
(***************************************************************************)
(* The inductive invariant.                                                *)
(***************************************************************************)

(* What may be among the results of an option: of input_file the words     *)
(* that arguments stand for, of a flag the values that are given with it.  *)
Paths      == {Unescape(a) : a \in Argument}
FlagValues ==
  {UnescapeValue(v) :
     v \in {"", "true"} \cup {a.value : a \in {b \in Argument : b.form = "long"}}}
Given(i)   == IF i = 2 THEN Paths ELSE FlagValues

(* An option is the one that was declared but for its results. *)
SameOption(o, d) ==
  /\ DOMAIN o = Fields
  /\ \A f \in Fields \ {"results", "proc_results", "state"} : o[f] = d[f]

OptionOK(o, i) ==
  /\ SameOption(o, Declared[i])
  /\ o.results \in Seq(Given(i))
  /\ o.state \in {"parsing", "callback_run"}
  /\ ~TooMany(o)

(* What main has of an option once its callback has run, and before: the   *)
(* view, the bools and the outcome of the parser go with it.               *)
Stored(o, i, view, bools, how) ==
  /\ o.results # <<>> /\ Valid(o) /\ lexical_conversion(Sent(o)) = Last(o.results)
  /\ i = 2 => view = 2
  /\ i \in 3..9 /\ how # "ConversionError" =>
       /\ Converts(Last(o.results))
       /\ bools[Variable[i]] = lexical_cast(Last(o.results))

Unstored(i, view, bools) == /\ i = 2 => view = NoView
                            /\ i \in 3..9 => bools[Variable[i]] = FALSE

StoredOK(o, i, view, bools, how) ==
  IF o.state = "callback_run" THEN Stored(o, i, view, bools, how) ELSE Unstored(i, view, bools)

OptionsOK ==
  \A i \in DOMAIN options : /\ OptionOK(options[i], i)
                            /\ StoredOK(options[i], i, input_file, variables, outcome)

(* Before _process, no callback has run. *)
Early ==
  step \in {"declare", "parse"} =>
    /\ phase = 1 /\ input_file = NoView /\ variables = [v \in Flag |-> FALSE]
    /\ \A i \in DOMAIN options : options[i].state = "parsing"

(* The outcomes of _process, and the passes that they come from. *)
Processed == {"CallForHelp", "RequiredError", "ValidationError", "ConversionError",
              "ExtrasError", "parsed"}

StoppedIn ==
  /\ outcome = "RequiredError" => phase = 7
  /\ outcome \in {"ValidationError", "ConversionError"} => phase = 10
  /\ outcome \in {"ExtrasError", "parsed"} => phase = 14

(* What each pass of _process has seen to. *)
Late ==
  step = "process" \/ outcome \in Processed =>
    /\ phase > 2 => options[1].results = <<>>
    /\ phase > 7 => options[2].results # <<>>
    /\ phase > 10 => \A i \in 2..9 : options[i].results # <<>> => options[i].state = "callback_run"

LInv ==
  /\ LineTypeOK
  /\ \E S : options \in Seq(S)
  /\ \E S : missing \in Seq(S)
  /\ args \in Seq(Argument)
  /\ argv \in Seq(Argument)
  /\ OptionsOK
  /\ step \in {"parse", "process"} \/ outcome \in Processed => Len(options) = 9
  /\ StoppedIn
  /\ Early
  /\ Late

-----------------------------------------------------------------------------
(* The lemmas. *)

(* The first of some options. *)
LEMMA MinAmongNine ==
  ASSUME NEW S \in SUBSET (1..9), S # {}
  PROVE  Min(S) \in S /\ \A j \in S : Min(S) <= j
<1> SUFFICES \E m \in S : \A j \in S : m <= j
  BY Zenon DEF Min
<1> SUFFICES ASSUME \A m \in S : \E j \in S : j < m
             PROVE  FALSE
  OBVIOUS
<1>0. \A m \in S : \E j \in S : j < m
  OBVIOUS
<1>1. 1 \notin S
  BY <1>0
<1>2. 2 \notin S
  BY <1>0, <1>1
<1>3. 3 \notin S
  BY <1>0, <1>1, <1>2
<1>4. 4 \notin S
  BY <1>0, <1>1, <1>2, <1>3
<1>5. 5 \notin S
  BY <1>0, <1>1, <1>2, <1>3, <1>4
<1>6. 6 \notin S
  BY <1>0, <1>1, <1>2, <1>3, <1>4, <1>5
<1>7. 7 \notin S
  BY <1>0, <1>1, <1>2, <1>3, <1>4, <1>5, <1>6
<1>8. 8 \notin S
  BY <1>0, <1>1, <1>2, <1>3, <1>4, <1>5, <1>6, <1>7
<1>9. 9 \notin S
  BY <1>0, <1>1, <1>2, <1>3, <1>4, <1>5, <1>6, <1>7, <1>8
<1>10. PICK x \in S : x \in 1..9
  OBVIOUS
<1>11. x = 1 \/ x = 2 \/ x = 3 \/ x = 4 \/ x = 5 \/ x = 6 \/ x = 7 \/ x = 8 \/ x = 9
  BY <1>10
<1> QED
  BY <1>11, <1>1, <1>2, <1>3, <1>4, <1>5, <1>6, <1>7, <1>8, <1>9

LEMMA FlagVariables ==
  /\ Flag = {Variable[i] : i \in 3..9}
  /\ Variable[1] = "none" /\ Variable[2] = "input_file"
  /\ "none" \notin Flag /\ "input_file" \notin Flag
  /\ \A i, j \in 3..9 : i # j => Variable[i] # Variable[j]
<1>1. /\ Variable[1] = "none" /\ Variable[2] = "input_file"
      /\ Variable[3] = "preprocess_only" /\ Variable[4] = "assemble_only" /\ Variable[5] = "lex"
      /\ Variable[6] = "parse" /\ Variable[7] = "tacky" /\ Variable[8] = "validate"
      /\ Variable[9] = "codegen"
  BY DEF Variable
<1>2. \A i : i \in 3..9 <=> i \in {3, 4, 5, 6, 7, 8, 9}
  OBVIOUS
<1>3. {Variable[i] : i \in 3..9} = {Variable[i] : i \in {3, 4, 5, 6, 7, 8, 9}}
  BY <1>2
<1>4. Flag = {Variable[i] : i \in {3, 4, 5, 6, 7, 8, 9}}
  BY <1>1 DEF Flag
<1>5. \A i, j \in {3, 4, 5, 6, 7, 8, 9} : i # j => Variable[i] # Variable[j]
  BY <1>1
<1> QED
  BY <1>1, <1>2, <1>3, <1>4, <1>5 DEF Flag

(* What is known of an option that was declared. *)
Kind(o, i) ==
  /\ o.type_size_min = 1 /\ o.type_size_max = 1 /\ ~o.allow_extra_args
  /\ o.variable = Variable[i]
  /\ o.priority = IF i = 1 THEN "First" ELSE "Normal"
  /\ i = 2 => /\ get_positional(o) /\ o.policy = "Throw" /\ o.validators = {"ExistingFile"}
              /\ o.required /\ o.expected_min = 1 /\ o.expected_max = 1
  /\ i # 2 => /\ ~get_positional(o) /\ o.policy = "TakeLast" /\ o.validators = {}
              /\ ~o.required /\ o.expected_min = 0 /\ o.expected_max = 0

LEMMA DeclaredKind ==
  ASSUME NEW i \in 1..9
  PROVE  Fresh(Declared[i]) /\ Kind(Declared[i], i)
BY AllDeclared, FlagVariables DEF FlagOption, FileOption, Fresh, Kind

LEMMA KindOf ==
  ASSUME NEW i \in 1..9, NEW o, SameOption(o, Declared[i])
  PROVE  Kind(o, i)
<1>1. Kind(Declared[i], i)
  BY DeclaredKind
<1>2. get_positional(o) <=> get_positional(Declared[i])
  BY SameName DEF SameOption, Fields
<1> QED
  BY <1>1, <1>2 DEF SameOption, Fields, Kind

LEMMA MostItems ==
  ASSUME NEW i \in 1..9, NEW o, Kind(o, i)
  PROVE  (i = 2 => get_items_expected_max(o) = 1) /\ (i # 2 => get_items_expected_max(o) = 0)
BY NoOverflow DEF Kind, get_items_expected_max

LEMMA TooManyOf ==
  ASSUME NEW i \in 1..9, NEW o, Kind(o, i), Len(o.results) \in Nat
  PROVE  TooMany(o) <=> i = 2 /\ Len(o.results) > 1
BY MostItems DEF TooMany, Kind

LEMMA OptionTyped ==
  ASSUME NEW i \in 1..9, NEW o, OptionOK(o, i)
  PROVE  o.state \in OptionState /\ o.policy \in MultiOptionPolicy /\ ~TooMany(o)
BY KindOf DEF OptionOK, Kind, OptionState, MultiOptionPolicy

LEMMA Places ==
  ASSUME LInv
  PROVE  /\ DOMAIN options = 1..Len(options) /\ Len(options) \in Nat /\ Len(options) <= 9
         /\ DOMAIN options \subseteq 1..9
         /\ Len(Declared) = 9
BY AllDeclared DEF LInv, LineTypeOK

LEMMA OptionsKept ==
  ASSUME LInv, step # "ended", UNCHANGED <<options, input_file, variables>>
  PROVE  OptionsOK'
<1>1. outcome = "running"
  BY DEF LInv, LineTypeOK
<1> QED
  BY <1>1 DEF LInv, OptionsOK, StoredOK, Stored

LEMMA OptionChanged ==
  ASSUME LInv, NEW m \in DOMAIN options, NEW n, OptionOK(n, m),
         options' = [options EXCEPT ![m] = n],
         StoredOK(n, m, input_file', variables', outcome'),
         \A i \in DOMAIN options \ {m} : StoredOK(options[i], i, input_file', variables', outcome')
  PROVE  /\ OptionsOK' /\ DOMAIN options' = DOMAIN options /\ Len(options') = Len(options)
         /\ \E S : options' \in Seq(S)
<1>1. PICK S : options \in Seq(S)
  BY DEF LInv
<1>2. /\ options' \in Seq(S \cup {n})
      /\ DOMAIN options' = DOMAIN options /\ Len(options') = Len(options)
  BY <1>1
<1> QED
  BY <1>2 DEF LInv, OptionsOK

(* The types, when the options are as they should be. *)
LEMMA TypesFollow ==
  ASSUME OptionsOK', Len(options') \in Nat, DOMAIN options' = 1..Len(options'), Len(options') <= 9
  PROVE  \A i \in DOMAIN options' : /\ options'[i].state \in OptionState
                                    /\ options'[i].policy \in MultiOptionPolicy
                                    /\ ~TooMany(options'[i])
BY OptionTyped DEF OptionsOK

(* The passes of _process. *)
LEMMA Passes ==
  /\ DOMAIN Process = 1..14
  /\ \A k \in 1..14 : Process[k].what = "extras" <=> k = 14
  /\ \A k \in 1..14 : Process[k].what = "requirements" <=> k = 7
  /\ Process[2].what = "help" /\ Process[2].priority = "First"
  /\ \A k \in 1..14 : Process[k].what = "callbacks" /\ Process[k].priority = "First" => k = 3
  /\ \A k \in 1..14 : Process[k].what = "callbacks" /\ Process[k].priority = "Normal" => k = 10
  /\ Process[10].what = "callbacks" /\ Process[10].priority = "Normal"
<1>1. DOMAIN Process = 1..14
  BY DEF Process
<1>2. /\ Process[1] = See("callbacks", "FirstPreHelp") /\ Process[2] = See("help", "First")
      /\ Process[3] = See("callbacks", "First")
      /\ Process[4] = See("callbacks", "PreRequirementsCheckPreHelp")
      /\ Process[5] = See("help", "PreRequirementsCheck")
      /\ Process[6] = See("callbacks", "PreRequirementsCheck")
      /\ Process[7] = See("requirements", "none")
      /\ Process[8] = See("callbacks", "NormalPreHelp") /\ Process[9] = See("help", "Normal")
      /\ Process[10] = See("callbacks", "Normal")
      /\ Process[11] = See("callbacks", "LastPreHelp") /\ Process[12] = See("help", "Last")
      /\ Process[13] = See("callbacks", "Last") /\ Process[14] = See("extras", "none")
  BY DEF Process
<1>3. \A w, p : See(w, p).what = w /\ See(w, p).priority = p
  BY DEF See
<1>4. \A k \in 1..14 : k \in {1, 2, 3, 4, 5, 6, 7, 8, 9, 10, 11, 12, 13, 14}
  OBVIOUS
<1> QED
  BY <1>1, <1>2, <1>3, <1>4

LEMMA Starts == LineInit => LInv
<1> SUFFICES ASSUME LineInit PROVE LInv
  OBVIOUS
<1> USE DEF LineInit, LineStart
<1>1. DOMAIN options = {} /\ Len(options) = 0 /\ options \in Seq({}) /\ missing \in Seq({})
  OBVIOUS
<1>2. argv \in Seq(Argument) /\ args \in Seq(Argument)
  BY ArgumentAssumption
<1>3. LineTypeOK
  <2>1. Len(options) <= Len(Declared)
    BY <1>1, AllDeclared
  <2>2. phase \in DOMAIN Process
    BY Passes
  <2>3. \A i \in DOMAIN missing : missing[i].classifier \in Classifier
    OBVIOUS
  <2>4. input_file \in 0..Len(options)
    BY <1>1 DEF NoView
  <2>5. variables \in [Flag -> BOOLEAN]
    OBVIOUS
  <2> QED
    BY <1>1, <2>1, <2>2, <2>3, <2>4, <2>5 DEF LineTypeOK, Outcome
<1> QED
  BY <1>1, <1>2, <1>3 DEF LInv, OptionsOK, Early, Late, StoppedIn, Processed

(* What the exceptions have in common. *)
LEMMA Thrown ==
  ASSUME LInv, step # "ended", step' = "ended", outcome' \in Outcome \ {"running", "parsed"},
         UNCHANGED <<argv, options, positional_only, missing, phase, variables, input_file>>,
         args' \in Seq(Argument), outcome' \in Processed => step = "process", StoppedIn'
  PROVE  LInv'
<1>1. OptionsOK'
  BY OptionsKept
<1>2. LineTypeOK'
  BY DEF LInv, LineTypeOK, TooMany, get_items_expected_max
<1>3. Late'
  BY DEF LInv, Late
<1> QED
  BY <1>1, <1>2, <1>3 DEF LInv, Early

(* The parsing of an argument that no option takes, and the steps before   *)
(* the first and after the last argument.                                  *)
LEMMA NotTaken ==
  ASSUME LInv, step \in {"declare", "parse"}, step' \in {"parse", "process"}, Len(options) = 9,
         UNCHANGED <<argv, options, phase, variables, input_file, outcome>>,
         args' \in Seq(Argument), positional_only' \in BOOLEAN, \E S : missing' \in Seq(S),
         \A i \in DOMAIN missing' : missing'[i].classifier \in Classifier
  PROVE  LInv'
<1>1. OptionsOK'
  BY OptionsKept
<1>2. LineTypeOK'
  BY DEF LInv, LineTypeOK, TooMany, get_items_expected_max
<1>3. phase = 1
  BY DEF LInv, Early
<1>4. Late'
  BY <1>3 DEF Late
<1> QED
  BY <1>1, <1>2, <1>4 DEF LInv, LineTypeOK, Early, StoppedIn, Processed

(* A pass of _process that finds nothing to do. *)
LEMMA Passed ==
  ASSUME LInv, step = "process", phase # 14, phase' = phase + 1, GoOn("process"),
         Rest, NothingStored,
         phase = 2 => options[1].results = <<>>,
         phase = 7 => options[2].results # <<>>,
         phase = 10 => \A i \in 2..9 :
           options[i].results # <<>> => options[i].state = "callback_run"
  PROVE  LInv'
<1> USE DEF GoOn, Rest, NothingStored
<1>1. OptionsOK'
  BY OptionsKept
<1>2. phase \in 1..14 /\ phase' \in 1..14
  BY Passes DEF LInv, LineTypeOK
<1>3. LineTypeOK'
  BY <1>2, Passes DEF LInv, LineTypeOK, TooMany, get_items_expected_max
<1>4. Late'
  BY <1>2 DEF LInv, Late
<1> QED
  BY <1>1, <1>3, <1>4 DEF LInv, LineTypeOK, Early, StoppedIn, Processed

LEMMA ErrorNames ==
  /\ \A n : PositionalFlag(n).name = "IncorrectConstruction"
  /\ \A n : OptionAlreadyAdded(n).name = "OptionAlreadyAdded"
  /\ \A n : InvalidError(n).name = "InvalidError"
  /\ CallForHelp.name = "CallForHelp"
  /\ \A n, r : ConversionError(n, r).name = "ConversionError"
  /\ \A n, r : ValidationError(n, r).name = "ValidationError"
  /\ \A n : RequiredError(n).name = "RequiredError"
  /\ \A a : ExtrasError(a).name = "ExtrasError"
BY DEF PositionalFlag, OptionAlreadyAdded, InvalidError, CallForHelp, ConversionError,
   ValidationError, RequiredError, ExtrasError, Error

-----------------------------------------------------------------------------
(* The actions. *)

LEMMA Declares == LInv /\ Declare => LInv'
<1> SUFFICES ASSUME LInv, Declare PROVE LInv'
  OBVIOUS
<1> DEFINE k == Len(options) + 1
           o == Declared[k]
<1>1. CASE /\ outcome' \in {"OptionAlreadyAdded", "IncorrectConstruction"}
           /\ step' = "ended" /\ UNCHANGED options
  <2>1. args' \in Seq(Argument)
    BY DEF LInv, Declare
  <2> QED
    BY <1>1, <2>1, Thrown DEF Declare, Outcome, StoppedIn, Processed
<1>2. CASE options' = Append(options, o) /\ GoOn("declare")
  <2>1. k \in 1..9 /\ DOMAIN options = 1..Len(options) /\ Len(options) \in Nat
    <3>1. Len(options) < 9
      BY Places DEF Declare
    <3> QED
      BY <3>1, Places
  <2>2. PICK S : options \in Seq(S)
    BY DEF LInv
  <2> HIDE DEF o
  <2>3. /\ options' \in Seq(S \cup {o}) /\ Len(options') = k /\ DOMAIN options' = 1..k
        /\ options'[k] = o /\ \A i \in DOMAIN options : options'[i] = options[i]
    BY <1>2, <2>1, <2>2
  <2>4. Fresh(o) /\ Kind(o, k)
    BY <2>1, DeclaredKind DEF o
  <2>5. OptionOK(o, k)
    <3>1. SameOption(o, Declared[k])
      BY <2>4 DEF Fresh, SameOption, o
    <3>2. ~TooMany(o)
      BY <2>1, <2>4, TooManyOf DEF Fresh
    <3> QED
      BY <2>4, <3>1, <3>2 DEF Fresh, OptionOK
  <2>6. /\ input_file' = NoView /\ variables' = [v \in Flag |-> FALSE] /\ phase' = 1
        /\ \A i \in DOMAIN options : options[i].state = "parsing"
        /\ outcome = "running" /\ outcome' = "running" /\ step' = "declare"
    BY <1>2 DEF LInv, LineTypeOK, Declare, Early, GoOn
  <2>7. StoredOK(o, k, input_file', variables', outcome')
    BY <2>1, <2>4, <2>6, FlagVariables DEF Fresh, StoredOK, Unstored
  <2>8. OptionsOK'
    <3>1. ASSUME NEW i \in DOMAIN options'
          PROVE  /\ OptionOK(options'[i], i)
                 /\ StoredOK(options'[i], i, input_file', variables', outcome')
      <4>1. CASE i = k
        BY <4>1, <2>3, <2>5, <2>7
      <4>2. CASE i \in DOMAIN options
        BY <4>2, <2>3, <2>6 DEF LInv, OptionsOK, Declare
      <4> QED
        BY <4>1, <4>2, <2>1, <2>3
    <3> QED
      BY <3>1 DEF OptionsOK, OptionOK, TooMany, get_items_expected_max
  <2>9. LineTypeOK'
    <3>1. \A i \in DOMAIN options' : /\ options'[i].state \in OptionState
                                     /\ options'[i].policy \in MultiOptionPolicy
                                     /\ ~TooMany(options'[i])
      BY <2>1, <2>3, <2>8, TypesFollow
    <3>2. (\A i \in DOMAIN options : /\ options[i].state \in OptionState
                                    /\ options[i].policy \in MultiOptionPolicy
                                    /\ ~TooMany(options[i]))'
      BY <3>1 DEF TooMany, get_items_expected_max
    <3>3. input_file' \in 0..Len(options')
      BY <2>1, <2>3, <2>6 DEF NoView
    <3>4. Len(options') <= Len(Declared)
      BY <2>1, <2>3, AllDeclared
    <3> QED
      BY <2>6, <3>2, <3>3, <3>4 DEF LInv, LineTypeOK, Declare
  <2>10. \A i \in DOMAIN options' : options'[i].state = "parsing"
    BY <2>1, <2>3, <2>4, <2>6 DEF Fresh
  <2> QED
    BY <2>3, <2>6, <2>8, <2>9, <2>10 DEF LInv, Declare, Early, Late, StoppedIn, Processed
<1> QED
  BY <1>1, <1>2, ErrorNames DEF Declare, Throw, Stop

LEMMA Reversed ==
  ASSUME NEW line \in Seq(Argument)
  PROVE  parse_char_t(line) \in Seq(Argument)
BY DEF parse_char_t, Reverse

LEMMA Begins == LInv /\ BeginParse => LInv'
<1> SUFFICES ASSUME LInv, BeginParse PROVE LInv'
  OBVIOUS
<1>1. args' \in Seq(Argument)
  BY Reversed DEF LInv, BeginParse
<1>2. CASE Throw(InvalidError(Word("")))
  BY <1>1, <1>2, Thrown, ErrorNames DEF BeginParse, Throw, Stop, Outcome, StoppedIn, Processed
<1>3. CASE GoOn("parse")
  <2>1. Len(options) = 9
    BY AllDeclared DEF BeginParse
  <2> QED
    BY <1>1, <1>3, <2>1, NotTaken DEF BeginParse, GoOn, LInv, LineTypeOK
<1> QED
  BY <1>2, <1>3 DEF BeginParse

(* Of the argument that is parsed, and of those after it. *)
LEMMA NextArgument ==
  ASSUME LInv, NEW classifiers, IsParsed(classifiers)
  PROVE  /\ step = "parse" /\ Len(options) = 9 /\ outcome = "running"
         /\ Last(args) \in Argument /\ Front(args) \in Seq(Argument)
         /\ positional_only \in BOOLEAN
         /\ positional_only \/ Recognize(Last(args)) \in classifiers
<1>1. args \in Seq(Argument) /\ args # <<>>
  BY DEF LInv, IsParsed
<1> QED
  BY <1>1 DEF LInv, LineTypeOK, IsParsed, Last, Front

LEMMA Misses ==
  ASSUME LInv, NEW c \in Classifier, NEW a, Miss(c, a)
  PROVE  /\ \E S : missing' \in Seq(S)
         /\ \A i \in DOMAIN missing' : missing'[i].classifier \in Classifier
<1>1. PICK S : missing \in Seq(S)
  BY DEF LInv
<1> DEFINE m == [classifier |-> c, arg |-> a]
<1>2. m.classifier \in Classifier
  OBVIOUS
<1> HIDE DEF m
<1>3. missing' = Append(missing, m)
  BY DEF Miss, m
<1>4. /\ missing' \in Seq(S \cup {m}) /\ DOMAIN missing' = 1..Len(missing) + 1
      /\ missing'[Len(missing) + 1] = m /\ \A i \in 1..Len(missing) : missing'[i] = missing[i]
      /\ DOMAIN missing = 1..Len(missing) /\ Len(missing) \in Nat
  BY <1>1, <1>3
<1>5. \A i \in DOMAIN missing : missing[i].classifier \in Classifier
  BY DEF LInv, LineTypeOK
<1> QED
  BY <1>2, <1>4, <1>5

LEMMA Marks == LInv /\ ParseMark => LInv'
<1> SUFFICES ASSUME LInv, ParseMark PROVE LInv'
  OBVIOUS
<1>1. /\ step = "parse" /\ Len(options) = 9 /\ Front(args) \in Seq(Argument)
  BY NextArgument DEF ParseMark
<1>2. /\ \E S : missing' \in Seq(S)
      /\ \A i \in DOMAIN missing' : missing'[i].classifier \in Classifier
  BY Misses DEF ParseMark, Classifier
<1> QED
  BY <1>1, <1>2, NotTaken DEF ParseMark, Parsing

LEMMA Unknowns == LInv /\ ParseUnknown => LInv'
<1> SUFFICES ASSUME LInv, ParseUnknown PROVE LInv'
  OBVIOUS
<1>1. /\ step = "parse" /\ Len(options) = 9 /\ Front(args) \in Seq(Argument)
      /\ positional_only \in BOOLEAN
  BY NextArgument DEF ParseUnknown
<1>2. Recognize(Last(args)) \in Classifier
  BY DEF ParseUnknown, IsParsed, Classifier
<1>3. /\ \E S : missing' \in Seq(S)
      /\ \A i \in DOMAIN missing' : missing'[i].classifier \in Classifier
  BY <1>2, Misses DEF ParseUnknown
<1> QED
  BY <1>1, <1>3, NotTaken DEF ParseUnknown, Parsing

LEMMA EndsParsing == LInv /\ EndOfArguments => LInv'
<1> SUFFICES ASSUME LInv, EndOfArguments PROVE LInv'
  OBVIOUS
<1>1. Len(options) = 9 /\ args' \in Seq(Argument) /\ positional_only' \in BOOLEAN
  BY DEF LInv, LineTypeOK, EndOfArguments
<1>2. /\ \E S : missing' \in Seq(S)
      /\ \A i \in DOMAIN missing' : missing'[i].classifier \in Classifier
  BY DEF LInv, LineTypeOK, EndOfArguments
<1> QED
  BY <1>1, <1>2, NotTaken DEF EndOfArguments, GoOn

(* What a result does to an option. *)
LEMMA ResultAdded ==
  ASSUME NEW i \in 1..9, NEW o, OptionOK(o, i), NEW r \in Given(i), i = 2 => o.results = <<>>
  PROVE  OptionOK(add_result(o, r), i) /\ add_result(o, r).state = "parsing"
<1> DEFINE n == add_result(o, r)
<1>1. o.results \in Seq(Given(i)) /\ SameOption(o, Declared[i])
  BY DEF OptionOK
<1>2. /\ DOMAIN n = Fields /\ n.results = Append(o.results, r) /\ n.state = "parsing"
      /\ \A f \in Fields \ {"results", "state"} : n[f] = o[f]
  BY <1>1 DEF SameOption, add_result, Fields
<1> HIDE DEF n
<1>3. n.results \in Seq(Given(i)) /\ (i = 2 => Len(n.results) <= 1) /\ Len(n.results) \in Nat
  BY <1>1, <1>2
<1>4. SameOption(n, Declared[i])
  BY <1>1, <1>2 DEF SameOption
<1>5. ~TooMany(n)
  <2>1. Kind(n, i)
    BY <1>4, KindOf
  <2>2. TooMany(n) <=> i = 2 /\ Len(n.results) > 1
    BY <1>3, <2>1, TooManyOf
  <2> QED
    BY <1>3, <2>2
<1> QED
  BY <1>2, <1>3, <1>4, <1>5 DEF OptionOK, n

(* An argument that an option takes. *)
LEMMA TakenOne ==
  ASSUME LInv, step = "parse", Len(options) = 9, NEW m \in 1..9, NEW r \in Given(m),
         m = 2 => options[2].results = <<>>,
         options' = [options EXCEPT ![m] = add_result(@, r)],
         args' \in Seq(Argument), UNCHANGED <<positional_only, missing>>, Parsing
  PROVE  LInv'
<1> DEFINE n == add_result(options[m], r)
<1>1. DOMAIN options = 1..9
  BY Places
<1>2. OptionOK(n, m) /\ n.state = "parsing"
  BY <1>1, ResultAdded DEF LInv, OptionsOK
<1>3. options' = [options EXCEPT ![m] = n]
  OBVIOUS
<1> HIDE DEF n
<1>4. /\ \A i \in 1..9 : options[i].state = "parsing" /\ Unstored(i, input_file, variables)
      /\ phase = 1 /\ input_file = NoView /\ variables = [v \in Flag |-> FALSE]
  BY <1>1, FlagVariables DEF LInv, Early, Unstored
<1>5. /\ OptionsOK' /\ DOMAIN options' = DOMAIN options /\ Len(options') = Len(options)
      /\ \E S : options' \in Seq(S)
  BY <1>1, <1>2, <1>3, <1>4, OptionChanged DEF Parsing, StoredOK
<1>6. \A i \in DOMAIN options' : options'[i].state = "parsing"
  BY <1>1, <1>2, <1>3, <1>4
<1>7. LineTypeOK'
  <2>1. \A i \in DOMAIN options' : /\ options'[i].state \in OptionState
                                   /\ options'[i].policy \in MultiOptionPolicy
                                   /\ ~TooMany(options'[i])
    <3>1. Len(options') \in Nat /\ DOMAIN options' = 1..Len(options') /\ Len(options') <= 9
      BY <1>5, Places
    <3> QED
      BY <1>5, <3>1, TypesFollow
  <2>2. (\A i \in DOMAIN options : /\ options[i].state \in OptionState
                                  /\ options[i].policy \in MultiOptionPolicy
                                  /\ ~TooMany(options[i]))'
    BY <2>1 DEF TooMany, get_items_expected_max
  <2> QED
    BY <2>2, <1>5 DEF LInv, LineTypeOK, Parsing
<1> QED
  BY <1>4, <1>5, <1>6, <1>7 DEF LInv, LineTypeOK, Early, Late, Parsing, StoppedIn, Processed

LEMMA Flags == LInv /\ ParseFlag => LInv'
<1> SUFFICES ASSUME LInv, ParseFlag PROVE LInv'
  OBVIOUS
<1> DEFINE a == Last(args)
           v == IF a.form = "long" THEN a.value ELSE ""
           m == Min(Found(a))
           r == UnescapeValue(get_flag_value(options[m], v))
<1>1. /\ step = "parse" /\ Len(options) = 9
      /\ a \in Argument /\ Front(args) \in Seq(Argument)
  BY NextArgument DEF ParseFlag
<1>2. /\ Found(a) # {} /\ get_items_expected_max(options[m]) = 0
      /\ options' = [options EXCEPT ![m] = add_result(@, UnescapeValue(get_flag_value(@, v)))]
      /\ args' = Front(args) \o PushedBack(a)
      /\ Parsing /\ UNCHANGED <<positional_only, missing>>
  BY DEF ParseFlag
<1>3. DOMAIN options = 1..9
  BY <1>1, Places
<1>4. m \in 1..9
  BY <1>2, <1>3, MinAmongNine DEF Found
<1>5. m # 2
  <2>1. OptionOK(options[m], m)
    BY <1>3, <1>4 DEF LInv, OptionsOK
  <2> HIDE DEF m, v, a
  <2>2. get_items_expected_max(options[m]) = 0
    BY <1>2
  <2>3. Kind(options[m], m)
    BY <1>4, <2>1, KindOf DEF OptionOK
  <2> QED
    BY <2>2, <1>4, <2>3, MostItems
<1>6. r \in FlagValues
  BY <1>1 DEF get_flag_value, FlagValues
<1>7. PushedBack(a) \in Seq(Argument)
  BY <1>1, ArgumentAssumption DEF PushedBack
<1>8. options' = [options EXCEPT ![m] = add_result(@, r)]
  BY <1>2
<1> HIDE DEF m, r, a, v
<1>9. args' \in Seq(Argument)
  BY <1>1, <1>2, <1>7
<1> QED
  BY <1>1, <1>2, <1>4, <1>5, <1>6, <1>8, <1>9, TakenOne DEF Given

LEMMA Positionals == LInv /\ ParsePositional => LInv'
<1> SUFFICES ASSUME LInv, ParsePositional PROVE LInv'
  OBVIOUS
<1>1. /\ step = "parse" /\ Len(options) = 9 /\ positional_only \in BOOLEAN
      /\ Last(args) \in Argument /\ Front(args) \in Seq(Argument)
  BY NextArgument DEF ParsePositional
<1>2. CASE Open # {}
  <2> DEFINE m == Min(Open)
             r == Unescape(Last(args))
  <2>1. DOMAIN options = 1..9
    BY <1>1, Places
  <2>2. m \in Open /\ m \in 1..9
    BY <1>2, <2>1, MinAmongNine DEF Open
  <2> HIDE DEF m
  <2>3. Kind(options[m], m) /\ options[m].results \in Seq(Given(m))
    BY <2>1, <2>2, KindOf DEF LInv, OptionsOK, OptionOK
  <2>4. m = 2
    BY <2>2, <2>3 DEF Open, Kind
  <2>5. count(options[m]) < 1
    BY <2>2, <2>3, <2>4, MostItems DEF Open, Kind
  <2>6. options[m].results = <<>>
    BY <2>3, <2>5 DEF count
  <2>7. r \in Given(m)
    BY <1>1, <2>4 DEF Given, Paths
  <2>8. /\ options' = [options EXCEPT ![m] = add_result(@, r)] /\ args' = Front(args)
        /\ UNCHANGED <<positional_only, missing>> /\ Parsing
    BY <1>2 DEF ParsePositional, m
  <2> HIDE DEF r
  <2> QED
    BY <1>1, <2>2, <2>4, <2>6, <2>7, <2>8, TakenOne
<1>3. CASE Open = {}
  <2>1. Miss("NONE", Last(args)) /\ UNCHANGED options
    BY <1>3 DEF ParsePositional
  <2>2. /\ \E S : missing' \in Seq(S)
        /\ \A i \in DOMAIN missing' : missing'[i].classifier \in Classifier
    BY <2>1, Misses DEF Classifier
  <2> QED
    BY <1>1, <2>1, <2>2, NotTaken DEF ParsePositional, Parsing
<1> QED
  BY <1>2, <1>3

-----------------------------------------------------------------------------
(* The passes of _process. *)

LEMMA Processing ==
  ASSUME LInv, step = "process"
  PROVE  /\ outcome = "running" /\ phase \in 1..14
         /\ DOMAIN options = 1..9
         /\ \A i \in 1..9 : /\ OptionOK(options[i], i) /\ Kind(options[i], i)
                            /\ options[i].results \in Seq(Given(i))
<1>1. outcome = "running" /\ phase \in 1..14
  BY Passes DEF LInv, LineTypeOK
<1>2. DOMAIN options = 1..9
  BY Places DEF LInv
<1>3. \A i \in 1..9 : OptionOK(options[i], i)
  BY <1>2 DEF LInv, OptionsOK
<1> QED
  BY <1>1, <1>2, <1>3, KindOf DEF OptionOK

LEMMA ProcessThrows ==
  ASSUME LInv, step = "process", NEW e, Throw(e), e.name \in Outcome \ {"running", "parsed"},
         Rest, NothingStored, UNCHANGED phase,
         e.name = "RequiredError" => phase = 7,
         e.name \in {"ValidationError", "ConversionError"} => phase = 10,
         e.name = "ExtrasError" => phase = 14
  PROVE  LInv'
BY Thrown DEF Throw, Stop, Rest, NothingStored, LInv, StoppedIn

LEMMA Failures == LInv /\ (HelpAsked \/ RequirementFails \/ ExtrasFail) => LInv'
<1>1. ASSUME LInv, HelpAsked PROVE LInv'
  BY <1>1, ProcessThrows, ErrorNames DEF HelpAsked, Seeing, Outcome
<1>2. ASSUME LInv, RequirementFails PROVE LInv'
  <2>1. step = "process" /\ Process[phase].what = "requirements"
    BY <1>2 DEF RequirementFails, Seeing
  <2>2. phase = 7
    BY <1>2, <2>1, Processing, Passes
  <2> DEFINE e == RequiredError(get_name(options[Min(Unmet)]))
  <2>3. e.name = "RequiredError" /\ e.name \in Outcome
    BY ErrorNames DEF Outcome
  <2>4. Throw(e) /\ Rest /\ NothingStored /\ UNCHANGED phase
    BY <1>2 DEF RequirementFails
  <2> HIDE DEF e
  <2> QED
    BY <1>2, <2>1, <2>2, <2>3, <2>4, ProcessThrows
<1>3. ASSUME LInv, ExtrasFail PROVE LInv'
  <2>1. step = "process" /\ Process[phase].what = "extras"
    BY <1>3 DEF ExtrasFail, Seeing
  <2>2. phase = 14
    BY <1>3, <2>1, Processing, Passes
  <2> DEFINE e == ExtrasError(remaining)
  <2>3. e.name = "ExtrasError" /\ e.name \in Outcome
    BY ErrorNames DEF Outcome
  <2>4. Throw(e) /\ Rest /\ NothingStored /\ UNCHANGED phase
    BY <1>3 DEF ExtrasFail
  <2> HIDE DEF e
  <2> QED
    BY <1>3, <2>1, <2>2, <2>3, <2>4, ProcessThrows
<1> QED
  BY <1>1, <1>2, <1>3

LEMMA NoHelps == LInv /\ NoHelp => LInv'
<1> SUFFICES ASSUME LInv, NoHelp PROVE LInv'
  OBVIOUS
<1>1. step = "process" /\ Process[phase].what = "help" /\ phase' = phase + 1 /\ GoOn("process")
  BY DEF NoHelp, Seen, Seeing
<1>2. phase # 14 /\ phase # 7 /\ phase # 10
  BY <1>1, Processing, Passes
<1>3. phase = 2 => options[1].results = <<>>
  <2> SUFFICES ASSUME phase = 2 PROVE options[1].results = <<>>
    OBVIOUS
  <2>1. options[1].results \in Seq(Given(1)) /\ options[1].priority = "First"
    BY <1>1, Processing DEF Kind
  <2>2. ~(count(options[1]) > 0)
    BY <2>1, Passes DEF NoHelp, Helped
  <2> QED
    BY <2>1, <2>2 DEF count
<1> QED
  BY <1>1, <1>2, <1>3, Passed DEF NoHelp

LEMMA Requirements == LInv /\ RequirementsMet => LInv'
<1> SUFFICES ASSUME LInv, RequirementsMet PROVE LInv'
  OBVIOUS
<1>1. /\ step = "process" /\ Process[phase].what = "requirements" /\ phase' = phase + 1
      /\ GoOn("process")
  BY DEF RequirementsMet, Seen, Seeing
<1>2. phase = 7
  BY <1>1, Processing, Passes
<1>3. options[2].results # <<>>
  <2>1. 2 \in DOMAIN options /\ options[2].required
    BY <1>1, Processing DEF Kind
  <2>2. count(options[2]) # 0
    BY <2>1 DEF RequirementsMet, Unmet
  <2> QED
    BY <2>2 DEF count
<1> QED
  BY <1>1, <1>2, <1>3, Passed DEF RequirementsMet

LEMMA NoCallbacks == LInv /\ NoCallback => LInv'
<1> SUFFICES ASSUME LInv, NoCallback PROVE LInv'
  OBVIOUS
<1>1. /\ step = "process" /\ Process[phase].what = "callbacks" /\ phase' = phase + 1
      /\ GoOn("process")
  BY DEF NoCallback, Seen, Seeing
<1>2. phase # 14 /\ phase # 7 /\ phase # 2
  BY <1>1, Processing, Passes
<1>3. ASSUME phase = 10, NEW i \in 2..9, options[i].results # <<>>
      PROVE  options[i].state = "callback_run"
  <2>1. /\ i \in DOMAIN options /\ options[i].priority = "Normal"
        /\ options[i].results \in Seq(Given(i))
    BY <1>1, Processing DEF Kind
  <2>2. count(options[i]) > 0
    BY <1>3, <2>1 DEF count
  <2> QED
    BY <1>3, <2>1, <2>2, Passes DEF NoCallback, Due
<1> QED
  BY <1>1, <1>2, <1>3, Passed DEF NoCallback

(* Nothing is left over: the App has what it was given. *)
LEMMA Accepteds == LInv /\ NoExtras => LInv'
<1> SUFFICES ASSUME LInv, NoExtras PROVE LInv'
  OBVIOUS
<1>1. /\ step = "process" /\ Process[phase].what = "extras"
      /\ outcome' = "parsed" /\ step' = "ended"
      /\ UNCHANGED <<argv, args, positional_only, missing, options, variables, input_file, phase>>
  BY DEF NoExtras, Seeing, Stop, Rest, NothingStored
<1>2. phase = 14
  BY <1>1, Processing, Passes
<1>3. OptionsOK'
  BY <1>1, OptionsKept
<1>4. LineTypeOK'
  BY <1>1 DEF LInv, LineTypeOK, Outcome, TooMany, get_items_expected_max
<1> QED
  BY <1>1, <1>2, <1>3, <1>4 DEF LInv, Early, Late, StoppedIn

-----------------------------------------------------------------------------
(* The callbacks. *)

(* An option whose callback has run. *)
CalledBack(o) == [o EXCEPT !.proc_results = ReduceResults(o), !.state = "callback_run"]

(* What reducing leaves to the callback: the last of the values of a flag, *)
(* and the path, where "{}" alone is taken for an empty list.              *)
LEMMA Reduced ==
  ASSUME NEW i \in 1..9, NEW o, OptionOK(o, i), o.results # <<>>
  PROVE  /\ OptionOK(CalledBack(o), i) /\ CalledBack(o).state = "callback_run"
         /\ CalledBack(o).results = o.results
         /\ lexical_conversion(Sent(CalledBack(o))) = Last(o.results)
         /\ Valid(CalledBack(o)) <=> Valid(o)
<1> DEFINE n == CalledBack(o)
<1>1. Kind(o, i) /\ o.results \in Seq(Given(i)) /\ SameOption(o, Declared[i])
  BY KindOf DEF OptionOK
<1>2. /\ DOMAIN n = Fields /\ n.results = o.results /\ n.state = "callback_run"
      /\ n.proc_results = ReduceResults(o)
      /\ \A f \in Fields \ {"proc_results", "state"} : n[f] = o[f]
  BY <1>1 DEF SameOption, Fields, CalledBack
<1> HIDE DEF n
<1>3. SameOption(n, Declared[i])
  BY <1>1, <1>2 DEF SameOption
<1>4. Len(o.results) \in Nat /\ (i = 2 => Len(o.results) <= 1)
  <2>1. Len(o.results) \in Nat
    BY <1>1
  <2>2. ~(i = 2 /\ Len(o.results) > 1)
    BY <1>1, <2>1, TooManyOf DEF OptionOK
  <2> QED
    BY <2>1, <2>2
<1>5. OptionOK(n, i)
  <2>1. Kind(n, i)
    BY <1>3, KindOf
  <2>2. TooMany(n) <=> i = 2 /\ Len(n.results) > 1
    BY <1>2, <1>4, <2>1, TooManyOf
  <2>3. ~TooMany(n)
    BY <1>2, <1>4, <2>2
  <2> QED
    BY <1>1, <1>2, <1>3, <2>3 DEF OptionOK
<1>6. Valid(n) <=> Valid(o)
  <2>1. n.expected_min = o.expected_min /\ n.validators = o.validators
    BY <1>2 DEF Fields
  <2>2. \A r : ErrorIn(n, r) <=> ErrorIn(o, r)
    BY <2>1, Zenon DEF ErrorIn
  <2> QED
    BY <1>2, <2>2 DEF Valid
<1>7. Sent(n) = IF ReduceResults(o) = <<>> THEN o.results ELSE ReduceResults(o)
  BY <1>2 DEF Sent
<1>8. CASE i = 2
  <2>1. o.results = <<o.results[1]>> /\ Last(o.results) = o.results[1]
    BY <1>1, <1>4, <1>8 DEF Last
  <2>2. get_items_expected_min(o) > 0 /\ o.policy # "TakeLast"
    BY <1>1, <1>8 DEF Kind, get_items_expected_min
  <2> DEFINE braces  == Word("{}")
             percent == Word("%%")
  <2>3. ReduceResults(o) = IF o.results = <<braces>> THEN <<braces, percent>> ELSE <<>>
    BY <2>2, Zenon DEF ReduceResults
  <2> HIDE DEF braces, percent
  <2>4. Sent(n) # <<>> /\ Head(Sent(n)) = o.results[1]
    <3>1. CASE o.results = <<braces>>
      <4>1. Sent(n) = <<braces, percent>>
        BY <1>7, <2>3, <3>1
      <4> QED
        BY <3>1, <4>1
    <3>2. CASE o.results # <<braces>>
      <4>1. Sent(n) = o.results
        BY <1>7, <2>3, <3>2
      <4> QED
        BY <1>1, <4>1
    <3> QED
      BY <3>1, <3>2
  <2> QED
    BY <1>2, <1>5, <1>6, <2>1, <2>4 DEF lexical_conversion, n
<1>9. CASE i # 2
  <2>1. get_items_expected_max(o) = 0 /\ get_items_expected_min(o) = 0 /\ o.policy = "TakeLast"
    BY <1>1, <1>9, MostItems DEF Kind, get_items_expected_min
  <2>2. get_items_expected_max(o) < 1 /\ ~(get_items_expected_min(o) > 0)
    BY <2>1
  <2>3. CASE ~(1 < Len(o.results))
    <3>1. ReduceResults(o) = <<>>
      BY <2>2, <2>3, Zenon DEF ReduceResults
    <3>2. Len(o.results) = 1
      <4>1. \A l \in Nat : l # 0 /\ ~(1 < l) => l = 1
        OBVIOUS
      <4>2. Len(o.results) # 0
        BY <1>1
      <4> QED
        BY <1>4, <2>3, <4>1, <4>2, Zenon
    <3>3. Sent(n) = o.results
      BY <1>7, <3>1
    <3>4. Head(o.results) = o.results[1] /\ Last(o.results) = o.results[Len(o.results)]
      BY <1>1 DEF Last
    <3> QED
      BY <1>2, <1>5, <1>6, <3>2, <3>3, <3>4 DEF lexical_conversion, n
  <2>4. CASE 1 < Len(o.results)
    <3>1. 1 # Len(o.results)
      <4>1. \A l \in Nat : 1 < l => 1 # l
        OBVIOUS
      <4> QED
        BY <1>4, <2>4, <4>1, Zenon
    <3>2. ReduceResults(o) = LastOf(o.results, 1)
      BY <2>1, <2>2, <2>4, <3>1, Zenon DEF ReduceResults
    <3>3. LastOf(o.results, 1) # <<>> /\ Head(LastOf(o.results, 1)) = o.results[Len(o.results)]
      <4>1. LastOf(o.results, 1) = SubSeq(o.results, Len(o.results), Len(o.results))
        BY <1>4 DEF LastOf
      <4> QED
        BY <1>1, <1>4, <2>4, <4>1
    <3> QED
      BY <1>2, <1>5, <1>6, <1>7, <3>2, <3>3 DEF lexical_conversion, Last, n
  <2> QED
    BY <2>3, <2>4
<1> QED
  BY <1>8, <1>9

(* Whose callback is due. *)
LEMMA CallbackOf ==
  ASSUME LInv, Calling
  PROVE  /\ step = "process" /\ outcome = "running" /\ phase = 10 /\ DOMAIN options = 1..9
         /\ Min(Due) \in 2..9 /\ Option.variable = Variable[Min(Due)]
         /\ OptionOK(AfterReduction, Min(Due)) /\ AfterReduction.state = "callback_run"
         /\ AfterReduction.results = Option.results /\ Option.results # <<>>
         /\ Valid(AfterReduction) <=> Valid(Option)
         /\ lexical_conversion(Sent(AfterReduction)) = Last(Option.results)
<1> DEFINE m == Min(Due)
<1>1. step = "process" /\ Process[phase].what = "callbacks" /\ Due # {}
  BY DEF Calling, Seeing
<1>2. /\ outcome = "running" /\ phase \in 1..14 /\ DOMAIN options = 1..9
      /\ \A i \in 1..9 : /\ OptionOK(options[i], i) /\ Kind(options[i], i)
                         /\ options[i].results \in Seq(Given(i))
  BY <1>1, Processing
<1>3. m \in Due /\ m \in 1..9
  BY <1>1, <1>2, MinAmongNine DEF Due
<1> HIDE DEF m
<1>4. options[m].priority = Process[phase].priority /\ options[m].results # <<>>
  BY <1>3 DEF Due, count
<1>5. m # 1 /\ phase = 10
  <2>1. CASE m = 1
    <3>0. options[1].priority = "First"
      BY <1>2 DEF Kind
    <3>1. phase = 3
      BY <1>1, <1>2, <1>4, <2>1, <3>0, Passes
    <3> QED
      BY <1>1, <1>4, <2>1, <3>1 DEF LInv, Late
  <2>2. CASE m # 1
    <3>1. options[m].priority = "Normal"
      BY <1>2, <1>3, <2>2 DEF Kind
    <3> QED
      BY <1>1, <1>2, <1>4, <2>2, <3>1, Passes
  <2> QED
    BY <2>1, <2>2
<1>6. m \in 2..9
  BY <1>3, <1>5
<1>7. Option = options[m] /\ Option.variable = Variable[m]
  BY <1>2, <1>3 DEF Option, Kind, m
<1>8. AfterReduction = CalledBack(options[m])
  BY <1>7 DEF AfterReduction, CalledBack
<1>9. /\ OptionOK(AfterReduction, m) /\ AfterReduction.state = "callback_run"
      /\ AfterReduction.results = options[m].results
      /\ Valid(AfterReduction) <=> Valid(options[m])
      /\ lexical_conversion(Sent(AfterReduction)) = Last(options[m].results)
  <2>1. OptionOK(options[m], m)
    BY <1>2, <1>3
  <2> QED
    BY <1>3, <1>4, <1>8, <2>1, Reduced
<1> QED
  BY <1>1, <1>2, <1>4, <1>5, <1>6, <1>7, <1>9 DEF m

LEMMA Invalids == LInv /\ ValidationFails => LInv'
<1> SUFFICES ASSUME LInv, ValidationFails PROVE LInv'
  OBVIOUS
<1> DEFINE e == ValidationError(get_name(Option),
                                SelectSeq(Option.results, LAMBDA r : ErrorIn(Option, r))[1])
<1>1. e.name = "ValidationError" /\ e.name \in Outcome
  BY ErrorNames DEF Outcome
<1>2. step = "process" /\ phase = 10
  BY CallbackOf DEF ValidationFails
<1>3. Throw(e) /\ Rest /\ NothingStored /\ UNCHANGED phase
  BY DEF ValidationFails
<1> HIDE DEF e
<1> QED
  BY <1>1, <1>2, <1>3, ProcessThrows

(* After a callback, when the options are as they should be. *)
LEMMA AfterCallback ==
  ASSUME LInv, Calling, CallbackRun, Rest, UNCHANGED phase, Len(options') = Len(options),
         OptionsOK', DOMAIN options' = DOMAIN options, \E S : options' \in Seq(S),
         \/ step' = "process" /\ outcome' = "running"
         \/ step' = "ended" /\ outcome' = "ConversionError",
         variables' \in [Flag -> BOOLEAN], input_file' \in {input_file, 2}
  PROVE  LInv'
<1>1. /\ step = "process" /\ phase = 10 /\ DOMAIN options = 1..9 /\ Min(Due) \in 2..9
      /\ AfterReduction.results = Option.results /\ Len(options) = 9
  BY CallbackOf DEF LInv
<1>2. LineTypeOK'
  <2>1. \A i \in DOMAIN options' : /\ options'[i].state \in OptionState
                                   /\ options'[i].policy \in MultiOptionPolicy
                                   /\ ~TooMany(options'[i])
    <3>1. Len(options') \in Nat /\ DOMAIN options' = 1..Len(options') /\ Len(options') <= 9
      BY Places
    <3> QED
      BY <3>1, TypesFollow
  <2>2. (\A i \in DOMAIN options : /\ options[i].state \in OptionState
                                  /\ options[i].policy \in MultiOptionPolicy
                                  /\ ~TooMany(options[i]))'
    BY <2>1 DEF TooMany, get_items_expected_max
  <2>3. input_file' \in 0..Len(options')
    BY <1>1 DEF LInv, LineTypeOK
  <2>4. outcome' \in Outcome /\ (outcome' = "running" <=> step' # "ended")
        /\ step' \in {"declare", "parse", "process", "ended"}
    BY DEF Outcome
  <2> QED
    BY <2>2, <2>3, <2>4 DEF LInv, LineTypeOK, Rest
<1>3. Late'
  <2>1. \A i \in 1..9 : options'[i].results = options[i].results
    <3>1. options' = [options EXCEPT ![Min(Due)] = AfterReduction]
      BY DEF CallbackRun
    <3> QED
      BY <1>1, <3>1 DEF Option
  <2>2. options[1].results = <<>> /\ options[2].results # <<>>
    BY <1>1 DEF LInv, Late
  <2> QED
    BY <1>1, <2>1, <2>2 DEF Late
<1> QED
  BY <1>1, <1>2, <1>3 DEF LInv, Early, Rest, StoppedIn

LEMMA Callbacks == LInv /\ (ConversionFails \/ StoreFlag \/ StoreView) => LInv'
<1> SUFFICES ASSUME LInv, ConversionFails \/ StoreFlag \/ StoreView PROVE LInv'
  OBVIOUS
<1> DEFINE m == Min(Due)
           n == AfterReduction
<1>1. Calling /\ Valid(Option) /\ CallbackRun /\ Rest /\ UNCHANGED phase
  BY DEF ConversionFails, StoreFlag, StoreView
<1>2. /\ step = "process" /\ outcome = "running" /\ phase = 10 /\ DOMAIN options = 1..9
      /\ m \in 2..9 /\ Option.variable = Variable[m]
      /\ OptionOK(n, m) /\ n.state = "callback_run"
      /\ n.results = Option.results /\ Option.results # <<>>
      /\ Valid(n)
      /\ lexical_conversion(Sent(n)) = Last(n.results) /\ Value = Last(n.results)
  BY <1>1, CallbackOf DEF Value
<1>3. options' = [options EXCEPT ![m] = n] /\ m \in DOMAIN options
  BY <1>1, <1>2 DEF CallbackRun
<1>4. IsFlag <=> m # 2
  BY <1>2, FlagVariables DEF IsFlag
<1>5. \A i \in 1..9 : StoredOK(options[i], i, input_file, variables, "running")
  BY <1>2 DEF LInv, OptionsOK
<1>6. variables \in [Flag -> BOOLEAN]
  BY DEF LInv, LineTypeOK
<1> HIDE DEF m, n
<1>7. CASE ConversionFails
  <2>1. /\ outcome' = "ConversionError" /\ step' = "ended" /\ m # 2
        /\ UNCHANGED <<variables, input_file>>
    BY <1>4, <1>7, ErrorNames DEF ConversionFails, Throw, Stop
  <2>2. StoredOK(n, m, input_file', variables', outcome')
    BY <1>2, <2>1 DEF StoredOK, Stored
  <2>3. \A i \in DOMAIN options \ {m} : StoredOK(options[i], i, input_file', variables', outcome')
    BY <1>2, <1>5, <2>1 DEF StoredOK, Stored
  <2>4. /\ OptionsOK' /\ DOMAIN options' = DOMAIN options /\ Len(options') = Len(options)
        /\ \E S : options' \in Seq(S)
    BY <1>2, <1>3, <2>2, <2>3, OptionChanged
  <2> QED
    BY <1>1, <1>6, <2>1, <2>4, AfterCallback
<1>8. CASE StoreFlag
  <2>1. /\ Converts(Value) /\ variables' = [variables EXCEPT ![Variable[m]] = lexical_cast(Value)]
        /\ outcome' = "running" /\ step' = "process" /\ m \in 3..9 /\ input_file' = input_file
    BY <1>2, <1>4, <1>8 DEF StoreFlag, GoOn
  <2>2. lexical_cast(Value) \in BOOLEAN
    <3>1. (to_flag_value(Value) > 0) \in BOOLEAN /\ (Value \in TooLarge) \in BOOLEAN
      OBVIOUS
    <3> QED
      BY <3>1 DEF lexical_cast
  <2>3. /\ variables' \in [Flag -> BOOLEAN] /\ variables'[Variable[m]] = lexical_cast(Value)
        /\ \A i \in 3..9 \ {m} : variables'[Variable[i]] = variables[Variable[i]]
    BY <1>6, <2>1, <2>2, FlagVariables
  <2>4. StoredOK(n, m, input_file', variables', outcome')
    BY <1>2, <2>1, <2>3 DEF StoredOK, Stored
  <2>5. \A i \in DOMAIN options \ {m} : StoredOK(options[i], i, input_file', variables', outcome')
    BY <1>2, <1>5, <2>1, <2>3 DEF StoredOK, Stored, Unstored
  <2>6. /\ OptionsOK' /\ DOMAIN options' = DOMAIN options /\ Len(options') = Len(options)
        /\ \E S : options' \in Seq(S)
    BY <1>2, <1>3, <2>4, <2>5, OptionChanged
  <2> QED
    BY <1>1, <2>1, <2>3, <2>6, AfterCallback
<1>9. CASE StoreView
  <2>1. /\ outcome' = "running" /\ step' = "process" /\ m = 2 /\ input_file' = 2
        /\ variables' = variables
    BY <1>2, <1>4, <1>9 DEF StoreView, GoOn, m
  <2>2. StoredOK(n, m, input_file', variables', outcome')
    BY <1>2, <2>1 DEF StoredOK, Stored
  <2>3. \A i \in DOMAIN options \ {m} : StoredOK(options[i], i, input_file', variables', outcome')
    BY <1>2, <1>5, <2>1 DEF StoredOK, Stored, Unstored
  <2>4. /\ OptionsOK' /\ DOMAIN options' = DOMAIN options /\ Len(options') = Len(options)
        /\ \E S : options' \in Seq(S)
    BY <1>2, <1>3, <2>2, <2>3, OptionChanged
  <2> QED
    BY <1>1, <1>6, <2>1, <2>4, AfterCallback
<1> QED
  BY <1>7, <1>8, <1>9

-----------------------------------------------------------------------------
(* The theorems. *)

LEMMA LineStep == LInv /\ LineNext => LInv'
BY Declares, Begins, Marks, Flags, Unknowns, Positionals, EndsParsing, Failures, NoHelps,
   Requirements, NoCallbacks, Invalids, Callbacks, Accepteds
DEF LineNext, ParseArguments, ProcessOptions

LEMMA LineStutters == LInv /\ UNCHANGED line_vars => LInv'
<1> SUFFICES ASSUME LInv, UNCHANGED line_vars PROVE LInv'
  OBVIOUS
<1> USE DEF line_vars
<1>1. OptionsOK'
  BY DEF LInv, OptionsOK
<1>2. LineTypeOK'
  BY DEF LInv, LineTypeOK, TooMany, get_items_expected_max
<1> QED
  BY <1>1, <1>2 DEF LInv, Early, Late, StoppedIn

(* The inductive invariant holds in every reachable state of the parser of *)
(* the command line.                                                       *)
THEOREM LineInductive == LineSpec => []LInv
BY Starts, LineStep, LineStutters, PTL DEF LineSpec

(* Every variable of the parser of the command line keeps its type, and no *)
(* option ever has more values than it takes, so that ArgumentMismatch is  *)
(* never thrown.                                                           *)
THEOREM LineTypesHold == LineSpec => []LineTypeOK
<1>1. LInv => LineTypeOK
  BY DEF LInv
<1> QED
  BY <1>1, LineInductive, PTL

(* What main reads when parse has returned: each bool is what the last     *)
(* value of its flag says, FALSE if the flag was not given; and the view   *)
(* shows the one path that was given, which names a file.  And the order   *)
(* of the refusals: with --help among the arguments there is no answer but *)
(* CallForHelp once all are parsed, then the path has to be there, then it *)
(* has to name a file, and what is left over comes last, when all is       *)
(* stored.                                                                 *)
Read ==
  /\ Viewed \in Paths /\ ExistingFile(Viewed) /\ options[2].results = <<Viewed>>
  /\ \A f \in Flag : \E i \in DOMAIN options :
       LET given == options[i].results
       IN  /\ options[i].variable = f
           /\ given # <<>> => Converts(Last(given))
           /\ variables[f] = (given # <<>> /\ lexical_cast(Last(given)))

AnswersInOrder ==
  /\ outcome \in Processed \ {"CallForHelp"} => options[1].results = <<>>
  /\ outcome \in Processed \ {"CallForHelp", "RequiredError"} => options[2].results # <<>>
  /\ outcome \in {"ExtrasError", "parsed"} => Read

LEMMA Reads ==
  ASSUME LInv, outcome \in {"ExtrasError", "parsed"}
  PROVE  Read
<1>1. DOMAIN options = 1..9 /\ phase = 14
  BY Places DEF LInv, StoppedIn, Processed
<1>2. \A i \in 2..9 : options[i].results # <<>> => options[i].state = "callback_run"
  BY <1>1 DEF LInv, Late, Processed
<1>3. \A i \in 2..9 :
        OptionOK(options[i], i) /\ StoredOK(options[i], i, input_file, variables, outcome)
  BY <1>1 DEF LInv, OptionsOK
<1>4. Viewed \in Paths /\ ExistingFile(Viewed) /\ options[2].results = <<Viewed>>
  <2> DEFINE o == options[2]
  <2>1. o.results # <<>>
    BY <1>1 DEF LInv, Late, Processed
  <2> HIDE DEF o
  <2>2. OptionOK(o, 2) /\ Stored(o, 2, input_file, variables, outcome)
    BY <1>2, <1>3, <2>1 DEF StoredOK, o
  <2>3. Kind(o, 2) /\ o.results \in Seq(Paths)
    BY <2>2, KindOf DEF OptionOK, Given
  <2>4. ~(Len(o.results) > 1)
    BY <2>2, <2>3, TooManyOf DEF OptionOK
  <2>5. o.results = <<o.results[1]>> /\ o.results[1] \in Paths /\ Last(o.results) = o.results[1]
        /\ 1 \in DOMAIN o.results
    BY <2>1, <2>3, <2>4 DEF Last
  <2>6. Viewed = o.results[1]
    BY <2>2, <2>5 DEF Viewed, Stored, o
  <2>7. ExistingFile(o.results[1])
    <3>1. ~ErrorIn(o, o.results[1])
      BY <2>2, <2>5 DEF Stored, Valid
    <3>2. o.expected_min > 0 /\ o.validators = {"ExistingFile"}
      BY <2>3 DEF Kind
    <3>3. Accepts("ExistingFile", o.results[1])
      BY <3>1, <3>2, Zenon DEF ErrorIn
    <3> QED
      BY <3>3 DEF Accepts
  <2> QED
    BY <2>5, <2>6, <2>7 DEF o
<1>5. ASSUME NEW i \in 3..9
      PROVE  LET given == options[i].results
             IN  /\ options[i].variable = Variable[i]
                 /\ given # <<>> => Converts(Last(given))
                 /\ variables[Variable[i]] = (given # <<>> /\ lexical_cast(Last(given)))
  <2> DEFINE o == options[i]
  <2>1. OptionOK(o, i) /\ StoredOK(o, i, input_file, variables, outcome)
    BY <1>3
  <2>2. o.results # <<>> => o.state = "callback_run"
    BY <1>2
  <2>3. o.variable = Variable[i]
    <3>1. Kind(o, i)
      BY <2>1, KindOf DEF OptionOK
    <3> QED
      BY <3>1 DEF Kind
  <2> HIDE DEF o
  <2>4. CASE o.state = "callback_run"
    <3>1. /\ o.results # <<>> /\ Converts(Last(o.results))
          /\ variables[Variable[i]] = lexical_cast(Last(o.results))
      BY <2>1, <2>4 DEF StoredOK, Stored
    <3>2. variables[Variable[i]] \in BOOLEAN
      BY FlagVariables DEF LInv, LineTypeOK
    <3> QED
      BY <2>3, <3>1, <3>2, Zenon DEF o
  <2>5. CASE o.state # "callback_run"
    <3>1. o.results = <<>> /\ variables[Variable[i]] = FALSE
      BY <2>1, <2>2, <2>5 DEF StoredOK, Unstored
    <3> QED
      BY <2>3, <3>1, Zenon DEF o
  <2> QED
    BY <2>4, <2>5
<1>6. \A f \in Flag : \E i \in 3..9 : f = Variable[i]
  BY FlagVariables
<1>7. 3..9 \subseteq DOMAIN options
  BY <1>1
<1>8. ASSUME NEW f \in Flag
      PROVE  \E i \in DOMAIN options :
               LET given == options[i].results
               IN  /\ options[i].variable = f
                   /\ given # <<>> => Converts(Last(given))
                   /\ variables[f] = (given # <<>> /\ lexical_cast(Last(given)))
  <2>1. PICK i \in 3..9 : f = Variable[i]
    BY <1>6
  <2>2. i \in DOMAIN options
    BY <1>7
  <2> WITNESS i \in DOMAIN options
  <2> QED
    BY <1>5, <2>1
<1> QED
  BY <1>4, <1>8 DEF Read

(* AnswersInOrder holds for every command line, of any length.             *)
THEOREM OrderHolds == LineSpec => []AnswersInOrder
<1>1. LInv => AnswersInOrder
  <2> SUFFICES ASSUME LInv PROVE AnswersInOrder
    OBVIOUS
  <2>1. outcome \in Processed \ {"CallForHelp"} => options[1].results = <<>>
    BY DEF LInv, Late, StoppedIn, Processed
  <2>2. outcome \in Processed \ {"CallForHelp", "RequiredError"} => options[2].results # <<>>
    BY DEF LInv, Late, StoppedIn, Processed
  <2> QED
    BY <2>1, <2>2, Reads DEF AnswersInOrder
<1> QED
  BY <1>1, LineInductive, PTL

=============================================================================
