-------------------------------- MODULE Dcc --------------------------------
(***************************************************************************)
(* The whole of main (tools/dcc.cpp) from its command line to its exit:    *)
(* CLI11 parses the arguments into the variables of main (CommandLine),    *)
(* and the driver runs on what they say (Driver).  The path of the input   *)
(* is read through a view into what CLI11 holds.                           *)
(***************************************************************************)
EXTENDS CommandLine, Usage

CONSTANTS CSources,  (* the paths with the extension .c                      *)
          Earlier    (* the sets of files that earlier runs left             *)

VARIABLES
  input, asked, stage, result, child, text, held, dir, data, listing, printed,
  faults,    (* Driver                                                       *)
  before     (* ghost: what was beside the input at the start                *)

driver_vars == <<input, asked, stage, result, child, text, held, dir, data,
                 listing, printed, faults>>
vars == <<line_vars, driver_vars, before>>

Run == "dcc"
Running == -1

Main == INSTANCE Driver WITH Drivers <- {Run}, OptionSets <- [r \in {Run} |-> {{}}]

Shelf == [p \in Main!Path |-> Main!Content(p)]

Init ==
  /\ LineInit
  /\ Main!NotStarted
  /\ input = "unread"
  /\ asked = [r \in {Run} |-> {}]
  /\ \E left \in Earlier :
       dir = [p \in Main!Path |-> CASE p \notin left -> 0
                                    [] p \in left -> CHOOSE f \in 1..3 : <<".i", ".s", "exe">>[f] = p]
  /\ before = Shelf

(* CLI11_PARSE *)
ParseCommandLine == LineNext /\ UNCHANGED <<driver_vars, before>>

(* Mutant: -S is looked up under the name of another flag. *)
HandOver_Codegen ==
  /\ outcome = "parsed"
  /\ input = "unread"
  /\ input' \in IF Viewed \in CSources THEN Main!Input \ {"other extension"}
                ELSE {"other extension"}
  /\ asked' = [r \in {Run} |-> {f \in Flag : variables[IF f = "assemble_only" THEN "codegen" ELSE f]}]
  /\ UNCHANGED <<line_vars, stage, result, child, text, held, dir, data, listing,
                 printed, faults, before>>

(* The path and the bools of main are what the command line said, and the  *)
(* program is what the file holds.                                         *)
HandOver ==
  /\ outcome = "parsed"
  /\ input = "unread"
  /\ input' \in IF Viewed \in CSources THEN Main!Input \ {"other extension"}
                ELSE {"other extension"}
  /\ asked' = [r \in {Run} |-> {f \in Flag : variables[f]}]
  /\ UNCHANGED <<line_vars, stage, result, child, text, held, dir, data, listing,
                 printed, faults, before>>

Drive ==
  /\ input # "unread"
  /\ Main!Next
  /\ UNCHANGED <<line_vars, before>>

Next == ParseCommandLine \/ HandOver \/ Drive

Spec == Init /\ [][Next]_vars
Fairness == /\ WF_vars(ParseCommandLine) /\ WF_vars(HandOver)
            /\ WF_vars(input # "unread" /\ Main!Main(Run) /\ UNCHANGED <<line_vars, before>>)
            /\ WF_vars(input # "unread" /\ Main!ChildProcess(Run) /\ UNCHANGED <<line_vars, before>>)
FairSpec == Spec /\ Fairness

-----------------------------------------------------------------------------
(* The exit status: that of CLI11's exit for a command line it refused,    *)
(* and 128 and the number of the signal, as a shell has it, for a process  *)
(* that dies of SIGABRT or SIGSEGV.                                        *)
ExitStatus ==
  CASE outcome = "running"                -> Running
    [] outcome \in {"IncorrectConstruction", "OptionAlreadyAdded"} -> 134
    [] outcome \in {"InvalidError", "CallForHelp", "RequiredError", "ValidationError",
                    "ConversionError", "ExtrasError"} -> ExitCode[outcome]
    [] outcome = "parsed"                 ->
         CASE result[Run] = "running" -> Running
           [] result[Run] = "success" -> 0
           [] result[Run] = "failure" -> 1
           [] result[Run] = "abort"   -> 134
           [] result[Run] = "crash"   -> 139

(* CLI11 decides about a command line as Usage does, in whatever order     *)
(* options and words come: the same outcome, the same flags set, and a     *)
(* path that is the argument of the user in every later state.  The path   *)
(* is a string_view into the results of an option, which CLI11 may move    *)
(* or clear at any time.                                                   *)
OutcomeIsRight ==
  outcome # "running" =>
    LET said == Asks(argv)
    IN  /\ outcome = said.outcome
        /\ outcome = "parsed" => /\ Viewed = said.input
                                 /\ {f \in Flag : variables[f]} = said.asked

(* The message of a refusal names the arguments that are to blame for it:  *)
(* the place that is empty, the path, the flag and its values, or all that *)
(* is left over and nothing else.  CLI11 takes the letters of a group      *)
(* apart, and pushes their rest back as an argument: of "-Ex", where x is  *)
(* no option, "-x" is to blame.                                            *)
(* And what the message says to run with gives the listing.                *)
ErrorIsRight ==
  outcome # "running" => /\ simple.what \in Asks(argv).blame
                         /\ Asks(<<simple.run_with>>).outcome = "CallForHelp"

(* A command line that follows the listing of --help is not refused: its   *)
(* options are listed, and there is a word, the path of a file where the   *)
(* listing says so, for every place of the usage line, those in brackets   *)
(* excepted.                                                               *)
Follows(line, listing_of) ==
  LET rows   == UNION {Range(listing_of.OPTIONS[g]) : g \in DOMAIN listing_of.OPTIONS}
      listed == UNION {row.left \cup row.right : row \in rows}
      words  == SelectSeq(line, LAMBDA a : a \notin listed)
      places == listing_of.usage.positionals
      type(i) == listing_of.POSITIONALS[Min({i, Len(places)})].opts.type
  IN  /\ \A i \in DOMAIN words : words[i].form = "word" /\ ("FILE" \in type(i) => ExistingFile(words[i]))
      /\ Len(words) <= Len(places) \/ \E i \in DOMAIN places : places[i].times # "once"
      /\ \A i \in DOMAIN places : i > Len(words) => places[i].brackets
      /\ Len(words) < Len(line) => listing_of.usage.badge

UsageIsAccepted ==
  step = "ended" /\ Follows(argv, help) => outcome \in {"parsed", "CallForHelp"}

(* dcc keeps the promise of DccPromise: the whole run is one step from the *)
(* command line to the exit status and the files that are left.            *)
Promise == INSTANCE DccPromise WITH
  program <- IF ExitStatus = Running THEN "unread" ELSE input,
  exit    <- ExitStatus,
  shelf   <- IF ExitStatus = Running THEN before ELSE Shelf,
  trouble <- IF ExitStatus = Running THEN {} ELSE faults[Run]

KeepsPromise == Promise!Spec

(* The process ends, whatever its command line, and whatever gcc does.     *)
Ends == <>(ExitStatus # Running)
=============================================================================
