----------------------------- MODULE DccPromise -----------------------------
(***************************************************************************)
(* What dcc promises to who types its command line, in one step: from the  *)
(* arguments and the program, the exit status and what is left of the      *)
(* files beside the input.                                                 *)
(***************************************************************************)
EXTENDS Usage

CONSTANTS CSources  (* the paths with the extension .c *)

VARIABLES
  argv,
  program,   (* what was found wrong with the program, if anything           *)
  exit,      (* the exit status                                              *)
  shelf,     (* the contents of x.i, x.s and x                               *)
  trouble    (* what went wrong outside dcc                                  *)

promise_vars == <<argv, program, exit, shelf, trouble>>

Running == -1
Aborted == 134   (* by SIGABRT, of an assertion or an exception             *)
Crashed == 139   (* by SIGSEGV                                              *)

ExitCode ==
  [CallForHelp |-> 0, ConversionError |-> 104, ValidationError |-> 105,
   RequiredError |-> 106, ExtrasError |-> 109]

Beside == {".i", ".s", "exe"}
Program == {"valid", "empty", "lexical error", "syntax error", "semantic error",
            "null expression"}

Init ==
  /\ exit = Running
  /\ program = "unread"
  /\ shelf \in [Beside -> {"none", "old"}]
  /\ trouble = {}

-----------------------------------------------------------------------------
(* Of several options the one that stops earliest counts. *)
Only(o) == Asks(argv).asked \subseteq {o}
Stops(o) == o \in Asks(argv).asked

Wanted ==
  CASE Stops("preprocess_only")                       -> ".i"
    [] ~Stops("preprocess_only") /\ ~Only("assemble_only") -> "nothing"
    [] Only("assemble_only") /\ Stops("assemble_only") -> ".s"
    [] Asks(argv).asked = {}                          -> "exe"

(* The errors that are found before the run stops; one of the syntax may   *)
(* show in the first token.                                                *)
Fatal ==
  IF Stops("preprocess_only") THEN {}
  ELSE IF Stops("lex") THEN {"empty", "lexical error"}
  ELSE IF Stops("parse") THEN {"empty", "lexical error", "syntax error"}
  ELSE Program \ {"valid"}

Suspect == IF Stops("lex") THEN Fatal \cup {"syntax error"} ELSE Fatal

(* The files that the run makes on its way. *)
InScope == {".i"} \cup (IF Wanted \in {".s", "exe"} THEN {".s"} ELSE {})
                  \cup (IF Wanted = "exe" THEN {"exe"} ELSE {})

Refused == Asks(argv).outcome # "parsed"
IsC     == Asks(argv).input \in CSources

(* The command line is refused, or the input is no .c file: no file is     *)
(* touched.                                                                *)
Refuse ==
  /\ Refused
  /\ exit' = ExitCode[Asks(argv).outcome]
  /\ trouble' = {}
  /\ UNCHANGED <<program, shelf>>

RefuseInput ==
  /\ ~Refused /\ ~IsC
  /\ exit' = 1
  /\ trouble' = {}
  /\ UNCHANGED shelf

(* Success: what was asked for is there and whole, the files made on the   *)
(* way are gone, and all others are as they were.  Only a write that went  *)
(* wrong unnoticed may have spoilt the result.                             *)
Deliver ==
  /\ ~Refused /\ IsC
  /\ program' \in Program \ Fatal
  /\ exit' = 0
  /\ \A p \in Beside :
       CASE p = Wanted ->
              (shelf'[p] = "whole" \/ ("write" \in trouble' /\ shelf'[p] \in {"part", "broken"}))
         [] p \in InScope \ {Wanted} -> shelf'[p] = "none"
         [] p \notin InScope -> shelf'[p] = shelf[p]

(* Failure is possible at any time, because gcc may fail: no result is     *)
(* there that was not there before, and an intermediate file only if gcc   *)
(* was killed, or that file or the assembly file could not be opened.      *)
Fail ==
  /\ ~Refused /\ IsC
  /\ program' \in Program
  /\ exit' = 1
  /\ \A p \in Beside :
       \/ shelf'[p] = shelf[p]
       \/ p \in InScope /\ shelf'[p] = "none"
       \/ p = ".i" /\ shelf'[p] = "part" /\ "signal" \in trouble'
       \/ p = ".i" /\ shelf'[p] = "whole" /\ trouble' \cap {"pp file", "asm file"} # {}

(* An error in the program may abort dcc, and a null expression makes it   *)
(* crash; either leaves the preprocessed file and nothing else.            *)
Abort ==
  /\ ~Refused /\ IsC
  /\ program' \in Suspect
  /\ exit' = IF program' = "null expression" THEN Crashed ELSE Aborted
  /\ shelf' = [shelf EXCEPT ![".i"] = "whole"]

Next ==
  /\ exit = Running
  /\ Refuse \/ RefuseInput \/ Deliver \/ Fail \/ Abort
  /\ UNCHANGED argv

Spec == Init /\ [][Next]_promise_vars
=============================================================================
