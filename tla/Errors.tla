------------------------------- MODULE Errors -------------------------------
(***************************************************************************)
(* The exceptions of CLI11 (include/CLI/CLI11.hpp) that the App of main    *)
(* can throw: each has a name, an exit code, and a message, of which only  *)
(* the arguments that it names are kept.                                   *)
(***************************************************************************)
EXTENDS Sequences

(* enum class ExitCodes *)
ExitCodes ==
  [Success |-> 0, IncorrectConstruction |-> 100, OptionAlreadyAdded |-> 102,
   ConversionError |-> 104, ValidationError |-> 105, RequiredError |-> 106,
   ExtrasError |-> 109, InvalidError |-> 111]

Error(name, code, blame) == [name |-> name, code |-> ExitCodes[code], blame |-> blame]

(* Thrown while main declares its options, *)
PositionalFlag(name)     == Error("IncorrectConstruction", "IncorrectConstruction", <<name>>)
OptionAlreadyAdded(name) == Error("OptionAlreadyAdded", "OptionAlreadyAdded", <<name>>)

(* and while the App parses. *)
InvalidError(name)             == Error("InvalidError", "InvalidError", <<name>>)
CallForHelp                    == Error("CallForHelp", "Success", <<>>)
ConversionError(name, results) == Error("ConversionError", "ConversionError", <<name, results>>)
ValidationError(name, result)  == Error("ValidationError", "ValidationError", <<name, result>>)
RequiredError(name)            == Error("RequiredError", "RequiredError", <<name>>)
ExtrasError(arguments)         == Error("ExtrasError", "ExtrasError", arguments)
=============================================================================
