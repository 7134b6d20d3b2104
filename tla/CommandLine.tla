---------------------------- MODULE CommandLine ----------------------------
(***************************************************************************)
(* CLI::App (include/CLI/CLI11.hpp) as main uses it (tools/dcc.cpp, 71-95):*)
(* the options are declared one by one, parse takes the arguments one by   *)
(* one, then help, the requirements, the callbacks and the arguments that  *)
(* are left over are seen to, in the order of _process; the first error    *)
(* ends it.                                                                *)
(*                                                                         *)
(* The App of main has no subcommand, option group, configuration file,    *)
(* environment name or prefix command, needs and excludes nothing, and     *)
(* allows no extra arguments: what the functions do about those is left    *)
(* out, and their loops over them do nothing.                              *)
(***************************************************************************)
EXTENDS Help, Errors

CONSTANTS
  Argument,     (* arguments, and what is left of a group when its first     *)
                (* letters are taken off                                     *)
  CommandLines  (* the command lines, without the name of the program        *)

ASSUME ArgumentAssumption ==
  /\ \A a \in Argument : /\ a.form \in {"mark", "long", "short", "word"}
                         /\ a.form = "short" => a.rest \in Argument \cup {End}
  /\ \A line \in CommandLines : line \in Seq(Argument)

VARIABLES
  argv,
  step,             (* the function of App that runs                         *)
  options,          (* options_                                              *)
  args,             (* the arguments still to be parsed, the next one last   *)
  positional_only,
  missing,          (* missing_: classifier and argument                     *)
  phase,            (* how far _process is                                   *)
  variables,        (* the bools of main                                     *)
  input_file,       (* the string_view of main: the option whose first       *)
                    (* result it looks at, or NoView                         *)
  outcome, culprit  (* the exception that ended parse, if any, and the       *)
                    (* arguments that its message names                      *)

line_vars == <<argv, step, options, args, positional_only, missing, phase,
               variables, input_file, outcome, culprit>>

Classifier == {"NONE", "POSITIONAL_MARK", "SHORT", "LONG"}
Outcome == {"running", "parsed", "IncorrectConstruction", "OptionAlreadyAdded",
            "InvalidError", "CallForHelp", "RequiredError", "ValidationError",
            "ConversionError", "ExtrasError"}
NoView == 0

LineStart ==
  /\ step = "declare"
  /\ options = <<>>
  /\ args = <<>>
  /\ positional_only = FALSE
  /\ missing = <<>>
  /\ phase = 1
  /\ variables = [v \in Flag |-> FALSE]
  /\ input_file = NoView
  /\ outcome = "running"
  /\ culprit = <<>>

LineInit == argv \in CommandLines /\ LineStart

Stop(how, blame) == outcome' = how /\ culprit' = blame /\ step' = "ended"
Throw(e)         == Stop(e.name, e.blame)
GoOn(to)         == step' = to /\ UNCHANGED <<outcome, culprit>>

-----------------------------------------------------------------------------
(* get_option_no_throw: the options that an argument or a name calls, by   *)
(* the place of their declaration.                                         *)
Called(a) == {i \in DOMAIN options : check_name(options[i], a)}

(* The tests of App::add_option, for an App without a parent and without   *)
(* nonstandard names: a name that another option has.                      *)
Taken(o) ==
  \/ \E i \in DOMAIN options : Matches(options[i], o)
  \/ /\ PositionalOnly(o)
     /\ \E i \in Called(Long(get_single_name(o), "")) : options[i].configurable
  \/ /\ PositionalOnly(o)
     /\ \E i \in Called(Word(get_single_name(o))) : PositionalOnly(options[i])

(* add_option and add_flag; main does not catch their exceptions.          *)
Declare ==
  /\ step = "declare"
  /\ Len(options) < Len(Declared)
  /\ LET o == Declared[Len(options) + 1]
     IN  IF Taken(configurable(o, TRUE))
         THEN Throw(OptionAlreadyAdded(get_name(o))) /\ UNCHANGED options
         ELSE IF o.variable \in Flag /\ get_positional(o)
         THEN Throw(PositionalFlag(Word(o.pname))) /\ UNCHANGED options
         ELSE options' = Append(options, o) /\ GoOn("declare")
  /\ UNCHANGED <<argv, args, positional_only, missing, phase, variables, input_file>>

(* The arguments are taken from the back, so parse gets them reversed.     *)
parse_char_t(line) == Reverse(line)

(* App::_validate: two positionals of any length cannot be told apart.     *)
Unlimited ==
  {i \in DOMAIN options : /\ get_items_expected_max(options[i]) >= expected_max_vector_size
                          /\ ~nonpositional(options[i]) /\ ~options[i].required}

(* App::parse *)
BeginParse ==
  /\ step = "declare"
  /\ Len(options) = Len(Declared)
  /\ args' = parse_char_t(argv)
  /\ IF Cardinality(Unlimited) > 1 THEN Throw(InvalidError(Word(""))) ELSE GoOn("parse")
  /\ UNCHANGED <<argv, options, positional_only, missing, phase, variables, input_file>>

-----------------------------------------------------------------------------
(* _recognize *)
Recognize(a) ==
  CASE a.form = "mark"  -> "POSITIONAL_MARK"
    [] a.form = "long"  -> "LONG"
    [] a.form = "short" -> IF LooksLikeNumber(a) /\ Called(Letter(a.name)) = {}
                           THEN "NONE" ELSE "SHORT"
    [] a.form = "word"  -> "NONE"

(* _parse_single: the next argument, and what it is taken for.             *)
IsParsed(classifiers) ==
  /\ step = "parse"
  /\ args # <<>>
  /\ (IF positional_only THEN "NONE" ELSE Recognize(Last(args))) \in classifiers

Parsing == UNCHANGED <<argv, step, phase, variables, input_file, outcome, culprit>>

(* _move_to_missing *)
Miss(classifier, a) == missing' = Append(missing, [classifier |-> classifier, arg |-> a])

ParseMark ==
  /\ IsParsed({"POSITIONAL_MARK"})
  /\ args' = Front(args)
  /\ positional_only' = TRUE
  /\ Miss("POSITIONAL_MARK", Mark)
  /\ Parsing /\ UNCHANGED options

(* The lookup of _parse_arg. *)
Found(a) == {i \in DOMAIN options :
               IF a.form = "long" THEN check_lname(options[i], a.name) ELSE check_sname(options[i], a.name)}

(* What _parse_arg pushes back: "-" and the text after the letter.         *)
PushedBack(a) == IF a.form = "short" /\ a.rest # End THEN <<a.rest>> ELSE <<>>

(* _parse_arg for the name of a flag, which takes no argument after it,    *)
ParseFlag ==
  /\ IsParsed({"SHORT", "LONG"})
  /\ LET a == Last(args)
         v == IF a.form = "long" THEN a.value ELSE ""
     IN  /\ Found(a) # {} /\ get_items_expected_max(options[Min(Found(a))]) = 0
         /\ options' = [options EXCEPT ![Min(Found(a))] = add_result(@, UnescapeValue(get_flag_value(@, v)))]
         /\ args' = Front(args) \o PushedBack(a)
  /\ Parsing /\ UNCHANGED <<positional_only, missing>>

(* Mutant: of a group that is given up, only the letter is noted. *)
ParseUnknown_Letter ==
  /\ IsParsed({"SHORT", "LONG"})
  /\ Found(Last(args)) = {}
  /\ args' = Front(args)
  /\ Miss(Recognize(Last(args)), IF Last(args).form = "short" THEN Letter(Last(args).name) ELSE Last(args))
  /\ Parsing /\ UNCHANGED <<options, positional_only>>

(* and for a name that no option has.                                      *)
ParseUnknown ==
  /\ IsParsed({"SHORT", "LONG"})
  /\ Found(Last(args)) = {}
  /\ args' = Front(args)
  /\ Miss(Recognize(Last(args)), Last(args))
  /\ Parsing /\ UNCHANGED <<options, positional_only>>

(* Mutant: one value more. *)
Open_OneMore ==
  {i \in DOMAIN options :
     /\ get_positional(options[i])
     /\ \/ count(options[i]) <= get_items_expected_max(options[i])
        \/ options[i].allow_extra_args}

(* _parse_positional: the positionals that take another value. *)
Open == {i \in DOMAIN options :
           /\ get_positional(options[i])
           /\ \/ count(options[i]) < get_items_expected_max(options[i])
              \/ options[i].allow_extra_args}

ParsePositional ==
  /\ IsParsed({"NONE"})
  /\ IF Open # {}
     THEN /\ options' = [options EXCEPT ![Min(Open)] = add_result(@, Unescape(Last(args)))]
          /\ UNCHANGED missing
     ELSE Miss("NONE", Last(args)) /\ UNCHANGED options
  /\ args' = Front(args)
  /\ Parsing /\ UNCHANGED positional_only

EndOfArguments ==
  /\ step = "parse"
  /\ args = <<>>
  /\ GoOn("process")
  /\ UNCHANGED <<argv, options, args, positional_only, missing, phase, variables, input_file>>

-----------------------------------------------------------------------------
(* _process and _process_extras: what is seen to, and at which priority.   *)
See(what, priority) == [what |-> what, priority |-> priority]

Process ==
  << See("callbacks", "FirstPreHelp"), See("help", "First"), See("callbacks", "First"),
     See("callbacks", "PreRequirementsCheckPreHelp"),
     See("help", "PreRequirementsCheck"), See("callbacks", "PreRequirementsCheck"),
     See("requirements", "none"),
     See("callbacks", "NormalPreHelp"), See("help", "Normal"), See("callbacks", "Normal"),
     See("callbacks", "LastPreHelp"), See("help", "Last"), See("callbacks", "Last"),
     See("extras", "none") >>

Seeing(what) == step = "process" /\ Process[phase].what = what
Seen(what)   == Seeing(what) /\ phase' = phase + 1 /\ GoOn("process")

Rest == UNCHANGED <<argv, args, positional_only, missing>>
NothingStored == UNCHANGED <<options, variables, input_file>>

(* _process_help_flags: help_ptr_ is the option that was declared first.   *)
Helped == count(options[1]) > 0 /\ options[1].priority = Process[phase].priority

HelpAsked ==
  /\ Seeing("help") /\ Helped
  /\ Throw(CallForHelp)
  /\ Rest /\ NothingStored /\ UNCHANGED phase

NoHelp == Seen("help") /\ ~Helped /\ Rest /\ NothingStored

(* _process_requirements *)
Unmet == {i \in DOMAIN options : options[i].required /\ count(options[i]) = 0}

RequirementFails ==
  /\ Seeing("requirements") /\ Unmet # {}
  /\ Throw(RequiredError(get_name(options[Min(Unmet)])))
  /\ Rest /\ NothingStored /\ UNCHANGED phase

RequirementsMet == Seen("requirements") /\ Unmet = {} /\ Rest /\ NothingStored

-----------------------------------------------------------------------------
(* _process_callbacks: the options with a result and the priority.         *)
Due == {i \in DOMAIN options : /\ options[i].priority = Process[phase].priority
                               /\ count(options[i]) > 0
                               /\ options[i].state # "callback_run"}

NoCallback == Seen("callbacks") /\ Due = {} /\ Rest /\ NothingStored

(* Of what a callback is sent it converts the first.                       *)
lexical_conversion(strings) == Head(strings)

(* Option::run_callback: the results are validated and reduced, and the    *)
(* callback converts and stores the first of what is left.                 *)
Calling == Seeing("callbacks") /\ Due # {}
Option  == options[Min(Due)]
AfterReduction == [Option EXCEPT !.proc_results = ReduceResults(Option), !.state = "callback_run"]
Value   == lexical_conversion(Sent(AfterReduction))
IsFlag  == Option.variable \in Flag

CallbackRun == options' = [options EXCEPT ![Min(Due)] = AfterReduction]

ValidationFails ==
  /\ Calling /\ ~Valid(Option)
  /\ Throw(ValidationError(get_name(Option), SelectSeq(Option.results, LAMBDA r : ErrorIn(Option, r))[1]))
  /\ Rest /\ NothingStored /\ UNCHANGED phase

ConversionFails ==
  /\ Calling /\ Valid(Option) /\ ~TooMany(Option)
  /\ IsFlag /\ ~Converts(Value)
  /\ Throw(ConversionError(get_name(Option), Option.results))
  /\ CallbackRun
  /\ Rest /\ UNCHANGED <<variables, input_file, phase>>

StoreFlag ==
  /\ Calling /\ Valid(Option) /\ ~TooMany(Option)
  /\ IsFlag /\ Converts(Value)
  /\ variables' = [variables EXCEPT ![Option.variable] = lexical_cast(Value)]
  /\ CallbackRun /\ GoOn("process")
  /\ Rest /\ UNCHANGED <<input_file, phase>>

(* The view looks at the results of the option. *)
StoreView ==
  /\ Calling /\ Valid(Option) /\ ~TooMany(Option)
  /\ ~IsFlag
  /\ input_file' = Min(Due)
  /\ CallbackRun /\ GoOn("process")
  /\ Rest /\ UNCHANGED <<variables, phase>>

-----------------------------------------------------------------------------
(* remaining_size: a mark is not left over, *)
remaining_size == Len(SelectSeq(missing, LAMBDA m : m.classifier # "POSITIONAL_MARK"))

(* remaining: but it is among what the message names. *)
remaining == [i \in DOMAIN missing |-> missing[i].arg]

(* _process_extras *)
ExtrasFail ==
  /\ Seeing("extras") /\ remaining_size > 0
  /\ Throw(ExtrasError(remaining))
  /\ Rest /\ NothingStored /\ UNCHANGED phase

NoExtras ==
  /\ Seeing("extras") /\ remaining_size = 0
  /\ Stop("parsed", <<>>)
  /\ Rest /\ NothingStored /\ UNCHANGED phase

ParseArguments == ParseMark \/ ParseFlag \/ ParseUnknown \/ ParsePositional \/ EndOfArguments
ProcessOptions ==
  \/ HelpAsked \/ NoHelp \/ RequirementFails \/ RequirementsMet
  \/ NoCallback \/ ValidationFails \/ ConversionFails \/ StoreFlag \/ StoreView
  \/ ExtrasFail \/ NoExtras

LineNext == Declare \/ BeginParse \/ ParseArguments \/ ProcessOptions

LineSpec == LineInit /\ [][LineNext]_line_vars

-----------------------------------------------------------------------------
(* App::exit: the exit code of what parse throws; and the two texts that   *)
(* it writes, the listing to stdout and FailureMessage::simple to stderr.  *)
ExitCode == [how \in Outcome \ {"running", "parsed"} |->
               ExitCodes[IF how = "CallForHelp" THEN "Success" ELSE how]]

help   == make_help(options)
simple == [what |-> culprit, run_with |-> get_name(options[1])]

(* What main reads through the view. *)
Viewed == lexical_conversion(Sent(options[input_file]))

(* An option never has more values than it takes: the policy Throw, the    *)
(* default, would throw ArgumentMismatch.                                  *)
LineTypeOK ==
  /\ step \in {"declare", "parse", "process", "ended"}
  /\ outcome \in Outcome /\ (outcome = "running" <=> step # "ended")
  /\ Len(options) <= Len(Declared)
  /\ \A i \in DOMAIN options : /\ options[i].state \in OptionState
                              /\ options[i].policy \in MultiOptionPolicy
                              /\ ~TooMany(options[i])
  /\ positional_only \in BOOLEAN
  /\ \A i \in DOMAIN missing : missing[i].classifier \in Classifier
  /\ phase \in DOMAIN Process
  /\ variables \in [Flag -> BOOLEAN]
  /\ input_file \in 0..Len(options)
=============================================================================
