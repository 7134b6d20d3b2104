--------------------------- MODULE CommandOptions ---------------------------
(***************************************************************************)
(* CLI::Option (include/CLI/CLI11.hpp): what an option of the command line *)
(* holds, how main and the constructor of CLI::App declare one, and what   *)
(* is done with the values it was given.                                   *)
(*                                                                         *)
(* Left out is what main and CLI::App leave at its default: case folding,  *)
(* delimiters, environment names, needs and excludes, default values of a  *)
(* flag, separators, nonstandard names, and what the policies do that no   *)
(* option has.                                                             *)
(***************************************************************************)
EXTENDS Arguments, FiniteSets, SequencesExt

(* The variables of main that a callback stores into. *)
Flag == {"preprocess_only", "assemble_only", "lex", "parse", "tacky", "validate", "codegen"}

OptionState == {"parsing", "validated", "reduced", "callback_run"}
MultiOptionPolicy == {"Throw", "TakeLast", "TakeFirst", "Join", "TakeAll", "Sum", "Reverse"}

expected_max_vector_size == 536870912   (* 1 << 29 *)
MaxInt32 == 2147483647

(* get_names: short names, long names and the positional one. *)
ShortNames(names) == {a.name : a \in {b \in names : b.form = "short"}}
LongNames(names)  == {a.name : a \in {b \in names : b.form = "long"}}
PositionalName(names) ==
  LET words == {a.text : a \in {b \in names : b.form = "word"}}
  IN  IF words = {} THEN "" ELSE CHOOSE w \in words : TRUE

(* OptionBase *)
OptionDefaults ==
  [group |-> "OPTIONS", required |-> FALSE, configurable |-> TRUE, policy |-> "Throw",
   priority |-> "Normal"]

(* Option::Option *)
NewOption(names, variable) ==
  [snames       |-> ShortNames(names),
   lnames       |-> LongNames(names),
   pname        |-> PositionalName(names),
   variable     |-> variable,          (* what the callback stores into      *)
   type_name    |-> "",
   group        |-> OptionDefaults.group,
   required     |-> OptionDefaults.required,
   configurable |-> OptionDefaults.configurable,
   policy       |-> OptionDefaults.policy,
   priority     |-> OptionDefaults.priority,
   type_size_min |-> 1, type_size_max |-> 1,
   expected_min |-> 1, expected_max |-> 1,
   flag_like    |-> FALSE,
   allow_extra_args |-> FALSE,
   validators   |-> {},
   results      |-> <<>>,
   proc_results |-> <<>>,
   state        |-> "parsing"]

(* The modifiers of an option. *)
group(o, name)         == [o EXCEPT !.group = name]
type_name(o, name)     == [o EXCEPT !.type_name = name]
required(o, value)     == [o EXCEPT !.required = value]
configurable(o, value) == [o EXCEPT !.configurable = value]
callback_priority(o, p) == [o EXCEPT !.priority = p]
check(o, validator)    == [o EXCEPT !.validators = @ \cup {validator}]

multi_option_policy(o, p) ==
  IF p = o.policy THEN o
  ELSE [o EXCEPT !.policy = p, !.state = "parsing",
          !.expected_max = IF o.policy = "Throw" /\ @ = expected_max_vector_size /\ o.expected_min > 1
                           THEN o.expected_min ELSE @]

expected(o, n) ==
  CASE n < 0 -> [o EXCEPT !.expected_min = -n, !.expected_max = IF @ < -n THEN -n ELSE @,
                          !.allow_extra_args = TRUE, !.flag_like = FALSE]
    [] n = expected_max_vector_size ->
         [o EXCEPT !.expected_min = 1, !.expected_max = n,
                   !.allow_extra_args = TRUE, !.flag_like = FALSE]
    [] OTHER -> [o EXCEPT !.expected_min = n, !.expected_max = n, !.flag_like = (n = 0)]

(* for sizes that are not negative *)
type_size(o, m, n) ==
  [o EXCEPT !.type_size_min = IF m < n THEN m ELSE n, !.type_size_max = IF m < n THEN n ELSE m,
            !.required = @ /\ ~(m = 0 /\ n = 0)]

(* copy_to: the defaults of the App for its new options *)
copy_to(o) ==
  callback_priority(
    multi_option_policy(
      configurable(
        required(group(o, OptionDefaults.group), OptionDefaults.required),
        OptionDefaults.configurable),
      OptionDefaults.policy),
    OptionDefaults.priority)

(* add_option, with a variable of one string, *)
add_option(names, variable) ==
  expected(type_size(type_name(copy_to(NewOption(names, variable)), "TEXT"), 1, 1), 1)

(* and add_flag, with a bool. *)
add_flag_internal(names, variable) ==
  required(expected(multi_option_policy(copy_to(NewOption(names, variable)), "TakeLast"), 0), FALSE)

set_help_flag(names) ==
  callback_priority(configurable(add_flag_internal(names, "none"), FALSE), "First")

(* The options that the constructor of App and main declare, in order. *)
DeclaredByApp == <<set_help_flag({Letter("h"), Long("help", "")})>>

Declared ==
  DeclaredByApp \o
  << check(required(add_option({Word("input")}, "input_file"), TRUE), "ExistingFile"),
     add_flag_internal({Letter("E")}, "preprocess_only"),
     add_flag_internal({Letter("S")}, "assemble_only"),
     add_flag_internal({Long("lex", "")}, "lex"),
     add_flag_internal({Long("parse", "")}, "parse"),
     add_flag_internal({Long("tacky", "")}, "tacky"),
     add_flag_internal({Long("validate", "")}, "validate"),
     add_flag_internal({Long("codegen", "")}, "codegen") >>

-----------------------------------------------------------------------------
get_positional(o) == o.pname # ""
nonpositional(o)  == o.snames \cup o.lnames # {}
PositionalOnly(o) == get_positional(o) /\ ~nonpositional(o)
count(o)          == Len(o.results)

(* checked_multiply keeps the product in an int. *)
get_items_expected_min(o) == o.type_size_min * o.expected_min
get_items_expected_max(o) ==
  IF o.expected_max # 0 /\ o.type_size_max > MaxInt32 \div o.expected_max
  THEN expected_max_vector_size ELSE o.type_size_max * o.expected_max

(* matching_name: two options that a command line, or a configuration      *)
(* file, could not tell apart.                                             *)
Matches(a, b) ==
  LET both == a.configurable /\ b.configurable
      names(o) == o.snames \cup o.lnames
  IN  \/ a.snames \cap b.snames # {}
      \/ a.lnames \cap b.lnames # {}
      \/ both /\ (a.snames \cap b.lnames # {} \/ a.lnames \cap b.snames # {})
      \/ both /\ PositionalOnly(a) /\ a.pname \in names(b) \cup {b.pname}
      \/ both /\ get_positional(b) /\ b.snames = {} /\ b.pname \in names(a) \cup {a.pname}

(* find_member, where case and underscores count *)
find_member(name, names) == name \in names
check_sname(o, name)     == find_member(name, o.snames)
check_lname(o, name)     == find_member(name, o.lnames)

(* check_name: what an argument, or a positional name, calls.              *)
check_name(o, a) ==
  \/ a.form = "long"  /\ check_lname(o, a.name)
  \/ a.form = "short" /\ check_sname(o, a.name)
  \/ a.form = "word"  /\ get_positional(o) /\ a.text = o.pname

(* Option::get_name: a long name rather than a short one.                  *)
get_name(o) ==
  IF o.lnames # {} THEN Long(CHOOSE n \in o.lnames : TRUE, "")
  ELSE IF o.snames # {} THEN Letter(CHOOSE c \in o.snames : TRUE)
  ELSE Word(o.pname)

(* get_single_name: the same without dashes.                               *)
get_single_name(o) ==
  IF o.lnames # {} THEN CHOOSE n \in o.lnames : TRUE
  ELSE IF o.snames # {} THEN CHOOSE c \in o.snames : TRUE
  ELSE o.pname

(* What the listing calls a value: the type, and what a validator checks.  *)
Description == [ExistingFile |-> "FILE"]
get_type_name(o) == {o.type_name} \cup {Description[v] : v \in o.validators}

-----------------------------------------------------------------------------
(* get_flag_value, of a flag without default values *)
get_flag_value(o, v) == IF v \in {"", "{}"} THEN (IF o.flag_like THEN "true" ELSE "") ELSE v

(* _add_result, for an option of one value *)
add_result(o, r) == [o EXCEPT !.results = Append(@, r), !.state = "parsing"]

(* Validator::operator() *)
Accepts(validator, r) == validator = "ExistingFile" => ExistingFile(r)

(* _validate: the first error of a validator. *)
ErrorIn(o, r) ==
  /\ o.expected_min > 0 \/ r # ""
  /\ \E v \in o.validators : ~Accepts(v, r)

(* _validate_results: every result, those that no policy keeps too. *)
Valid(o) == \A i \in DOMAIN o.results : ~ErrorIn(o, o.results[i])

LastOf(s, n) == SubSeq(s, Len(s) - n + 1, Len(s))

(* Mutant: the first values of a flag stay. *)
ReduceResults_First(o) ==
  LET few  == IF get_items_expected_max(o) < 1 THEN 1 ELSE get_items_expected_max(o)
      size == IF few < Len(o.results) THEN few ELSE Len(o.results)
  IN  IF o.policy = "TakeLast" /\ size # Len(o.results) THEN SubSeq(o.results, 1, size) ELSE <<>>

(* _reduce_results: an empty result stands for all that was given, and     *)
(* "{}" alone for an empty list.                                           *)
ReduceResults(o) ==
  LET few  == IF get_items_expected_max(o) < 1 THEN 1 ELSE get_items_expected_max(o)
      size == IF few < Len(o.results) THEN few ELSE Len(o.results)
      out  == IF o.policy = "TakeLast" /\ size # Len(o.results) THEN LastOf(o.results, size) ELSE <<>>
      kept == IF out = <<>> THEN o.results ELSE out
  IN  IF get_items_expected_min(o) > 0 /\ kept = <<Word("{}")>>
      THEN <<Word("{}"), Word("%%")>> ELSE out

(* The policy Throw: more values than the option takes. *)
TooMany(o) ==
  /\ o.policy = "Throw"
  /\ Len(o.results) > IF get_items_expected_max(o) = 0 THEN 1 ELSE get_items_expected_max(o)

(* What the callback gets. *)
Sent(o) == IF o.proc_results = <<>> THEN o.results ELSE o.proc_results
=============================================================================
