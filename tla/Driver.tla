------------------------------- MODULE Driver -------------------------------
(***************************************************************************)
(* main and run_command (tools/dcc.cpp): runs of the driver on one input   *)
(* x.c, each with the gcc processes that it forks, over the files x.i, x.s *)
(* and x beside the input.  Runs may overlap: the files are named after    *)
(* the input and nothing locks them.                                       *)
(*                                                                         *)
(* A step is a system call, or the part of main between two of them.  gcc  *)
(* is external: the model has what main can see of it.                     *)
(***************************************************************************)
EXTENDS Naturals, Sequences

CONSTANTS Drivers,    (* the runs of the driver                          *)
          OptionSets  (* the sets of options that each may be given      *)

(* The variables of main that the command line sets. *)
Option == {"preprocess_only", "assemble_only", "lex", "parse", "tacky", "validate", "codegen"}

ASSUME OptionAssumption == OptionSets \in [Drivers -> SUBSET SUBSET Option]

VARIABLES
  input,     (* what is wrong with the input, if anything                    *)
  asked, stage, result,  (* of every run: its options, where main is, how *)
                         (* it ended                                         *)
  child,     (* the process that run_command forked                          *)
  text,      (* what was read last: x.i by the lexer, x.s by gcc             *)
  held,      (* the file that is open for writing                            *)
  dir, data, (* the directory: path to file; the files' contents             *)
  listing, printed,        (* the token listing: in the buffer of stdout (a  *)
             (* file or a pipe, which exit flushes), and written             *)
  faults     (* ghost: what went wrong outside the driver                    *)

files   == <<dir, data, held>>
output  == <<listing, printed>>
given   == <<input, asked>>
vars    == <<given, stage, result, child, text, files, output, faults>>

Input  == {"valid", "other extension", "empty", "lexical error", "syntax error",
           "semantic error", "null expression"}
Stage  == {"start", "preprocess", "preprocessing", "open", "lex", "parse", "analyse",
           "tacky", "codegen", "write", "writing", "stop", "link", "linking",
           "clean .i", "clean .s", "ended"}
Child  == {"none", "forked", "gcc", "gcc writes", "gcc links", "main", "main .s",
           "exit 0", "exit 1", "signal"}
Result == {"running", "success", "failure", "abort", "crash"}
Path   == {".i", ".s", "exe"}
Text   == {"old", "part", "whole", "broken"}

NoFile == 0

-----------------------------------------------------------------------------
(* The files: earlier ones may be there.  Creating a file that exists      *)
(* truncates it in place; removing a path leaves an open file usable.      *)

Exists(p) == dir[p] # NoFile
Content(p) == IF Exists(p) THEN data[dir[p]] ELSE "none"

(* Mutant: a file that is not there is not created. *)
Truncate_NotCreated(d, p) ==
  LET f == IF Exists(p) THEN dir[p] ELSE Len(data) + 1
  IN  /\ dir' = [dir EXCEPT ![p] = f]
      /\ held' = [held EXCEPT ![d] = f]
      /\ UNCHANGED data

Truncate(d, p) ==
  LET f == IF Exists(p) THEN dir[p] ELSE Len(data) + 1
  IN  /\ dir' = [dir EXCEPT ![p] = f]
      /\ data' = IF Exists(p) THEN [data EXCEPT ![f] = "part"] ELSE Append(data, "part")
      /\ held' = [held EXCEPT ![d] = f]

Finish(d, t) == data' = [data EXCEPT ![held[d]] = t] /\ UNCHANGED <<dir, held>>
Remove(p)    == dir' = [dir EXCEPT ![p] = NoFile] /\ UNCHANGED <<data, held>>

NotStarted ==
  /\ stage = [d \in Drivers |-> "start"]
  /\ result = [d \in Drivers |-> "running"]
  /\ child = [d \in Drivers |-> "none"]
  /\ text = [d \in Drivers |-> "old"]
  /\ held = [d \in Drivers |-> NoFile]
  /\ data = <<"old", "old", "old">>
  /\ listing = [d \in Drivers |-> 0]
  /\ printed = [d \in Drivers |-> 0]
  /\ faults = [d \in Drivers |-> {}]

Init ==
  /\ input \in Input
  /\ asked \in {o \in [Drivers -> SUBSET Option] : \A d \in Drivers : o[d] \in OptionSets[d]}
  /\ dir \in {f \in [Path -> 0..3] : f[".i"] \in {0, 1} /\ f[".s"] \in {0, 2} /\ f["exe"] \in {0, 3}}
  /\ NotStarted

-----------------------------------------------------------------------------
At(d, s)   == result[d] = "running" /\ stage[d] = s
GoTo(d, s) == stage' = [stage EXCEPT ![d] = s]
Suffer(d, f) == faults' = [faults EXCEPT ![d] = @ \cup {f}]

Exit(d, how) == result' = [result EXCEPT ![d] = how] /\ GoTo(d, "ended")

(* return from main: exit flushes the buffer of stdout.  abort does not.   *)
Return(d, how) ==
  /\ Exit(d, how)
  /\ printed' = [printed EXCEPT ![d] = @ + listing[d]]
  /\ listing' = [listing EXCEPT ![d] = 0]
  /\ UNCHANGED <<given, child, text>>

Continue(d, s) == GoTo(d, s) /\ UNCHANGED <<given, result, text, output>>

(* The input has to be a .c file.  faults notes the runs that overlap.     *)
InProgress(d) == stage[d] \notin {"start", "ended"}

Overlap(d) ==
  LET others == {e \in Drivers \ {d} : InProgress(e)}
  IN  faults' = [e \in Drivers |->
                   IF e \in others \/ (e = d /\ others # {})
                   THEN faults[e] \cup {"overlap"} ELSE faults[e]]

Start(d) ==
  /\ At(d, "start")
  /\ input # "other extension"
  /\ Continue(d, "preprocess")
  /\ Overlap(d)
  /\ UNCHANGED <<child, files>>

WrongExtension(d) ==
  /\ At(d, "start")
  /\ input = "other extension"
  /\ Return(d, "failure")
  /\ UNCHANGED <<files, faults>>

-----------------------------------------------------------------------------
(* run_command *)

Fork(d, from, to) ==
  /\ At(d, from)
  /\ child' = [child EXCEPT ![d] = "forked"]
  /\ Continue(d, to)
  /\ UNCHANGED <<files, faults>>

Ended(d) == child[d] \in {"exit 0", "exit 1", "signal"}

(* waitpid returned; anything but an exit with 0 counts as a failure. *)
Waited(d, s) == At(d, s) /\ Ended(d)

(* The child: exec, or what main does in the child when exec fails. *)
InChild(d, c) == child[d] = c /\ ~Ended(d)
ChildIs(d, c) == child' = [child EXCEPT ![d] = c]
ChildOnly == UNCHANGED <<given, stage, result, text, output>>

Exec(d)     == InChild(d, "forked") /\ ChildIs(d, "gcc") /\ ChildOnly /\ UNCHANGED <<files, faults>>
ExecFails(d) ==
  /\ InChild(d, "forked")
  /\ ChildIs(d, "main")
  /\ Suffer(d, "exec")
  /\ ChildOnly /\ UNCHANGED files

(* The child returns FAILED from run_command and goes on in main: it has a *)
(* copy of the buffer of stdout, which its own exit flushes.               *)
ChildReturns(d) ==
  /\ ChildIs(d, "exit 1")
  /\ printed' = [printed EXCEPT ![d] = @ + listing[d]]
  /\ UNCHANGED <<given, stage, result, text, listing, faults>>

ChildMain(d) ==
  /\ InChild(d, "main")
  /\ \/ stage[d] = "preprocessing" /\ ChildReturns(d) /\ UNCHANGED files
     \/ stage[d] = "linking" /\ ChildIs(d, "main .s") /\ Remove(".i")
        /\ ChildOnly /\ UNCHANGED faults

ChildMainCleans(d) ==
  InChild(d, "main .s") /\ ChildReturns(d) /\ Remove(".s")

-----------------------------------------------------------------------------
(* gcc -E -P x.c -o x.i *)

GccOpens(d) ==
  /\ InChild(d, "gcc") /\ stage[d] = "preprocessing"
  /\ ChildIs(d, "gcc writes")
  /\ Truncate(d, ".i")
  /\ ChildOnly /\ UNCHANGED faults

GccPreprocesses(d) ==
  /\ InChild(d, "gcc writes")
  /\ ChildIs(d, "exit 0")
  /\ Finish(d, "whole")
  /\ ChildOnly /\ UNCHANGED faults

(* gcc x.s -o x: the assembler reads x.s, and the linker makes a new file. *)
GccAssembles(d) ==
  /\ InChild(d, "gcc") /\ stage[d] = "linking"
  /\ IF Exists(".s")
     THEN ChildIs(d, "gcc links") /\ text' = [text EXCEPT ![d] = Content(".s")]
     ELSE ChildIs(d, "exit 1") /\ UNCHANGED text
  /\ UNCHANGED <<given, stage, result, files, output, faults>>

(* Truncated assembly may still assemble and link. *)
GccLinks(d) ==
  /\ InChild(d, "gcc links")
  /\ ChildIs(d, "exit 0")
  /\ data' = Append(data, IF text[d] = "whole" THEN "whole" ELSE "broken")
  /\ dir' = [dir EXCEPT !["exe"] = Len(data) + 1]
  /\ ChildOnly /\ UNCHANGED <<held, faults>>

(* gcc finds an error and removes its output. *)
GccFails(d) ==
  /\ child[d] \in {"gcc", "gcc writes", "gcc links"}
  /\ ChildIs(d, "exit 1")
  /\ CASE child[d] = "gcc"        -> UNCHANGED files
       [] child[d] = "gcc writes" -> Remove(".i")
       [] child[d] = "gcc links"  -> Remove("exe")
  /\ ChildOnly /\ UNCHANGED faults

(* gcc is killed, and removes nothing. *)
GccKilled(d) ==
  /\ child[d] \in {"gcc", "gcc writes", "gcc links"}
  /\ ChildIs(d, "signal")
  /\ Suffer(d, "signal")
  /\ ChildOnly /\ UNCHANGED files

-----------------------------------------------------------------------------
(* Phase 1: preprocessing. *)

(* Mutant: a preprocessed file that is there is taken as it is. *)
Preprocess_IfMissing(d) ==
  IF Exists(".i")
  THEN At(d, "preprocess") /\ Continue(d, "open") /\ UNCHANGED <<child, files, faults>>
  ELSE Fork(d, "preprocess", "preprocessing")

Preprocess(d) == Fork(d, "preprocess", "preprocessing")

PreprocessFails(d) ==
  /\ \/ At(d, "preprocess")  (* fork failed *)
     \/ Waited(d, "preprocessing") /\ child[d] # "exit 0"
  /\ Return(d, "failure")
  /\ UNCHANGED <<files, faults>>

(* Mutant: main goes back to the command that it has just run. *)
Preprocessed_Again(d) ==
  /\ Waited(d, "preprocessing") /\ child[d] = "exit 0"
  /\ Continue(d, "preprocess")
  /\ UNCHANGED <<child, files, faults>>

Preprocessed(d) ==
  /\ Waited(d, "preprocessing") /\ child[d] = "exit 0"
  /\ Continue(d, "open")
  /\ UNCHANGED <<child, files, faults>>

(* Open x.i, and read it unless preprocess_only stops here.  What cannot   *)
(* be opened although it is there is left.                                 *)
CannotOpen(d) ==
  /\ At(d, "open")
  /\ IF Exists(".i") THEN Suffer(d, "pp file") ELSE UNCHANGED faults
  /\ Return(d, "failure")
  /\ UNCHANGED files

StopPreprocessed(d) ==
  /\ At(d, "open") /\ Exists(".i") /\ "preprocess_only" \in asked[d]
  /\ Return(d, "success")
  /\ UNCHANGED <<files, faults>>

ReadSource(d) ==
  /\ At(d, "open") /\ Exists(".i") /\ "preprocess_only" \notin asked[d]
  /\ text' = [text EXCEPT ![d] = Content(".i")]
  /\ GoTo(d, "lex")
  /\ UNCHANGED <<given, result, child, files, output, faults>>

-----------------------------------------------------------------------------
(* Phases 2 to 4 on the text that was read.  A part of a valid program is  *)
(* no program: it ends in any of the errors of the lexer and the parser.   *)
Cut(d) == text[d] # "whole"

Advance(d, to, stop) == GoTo(d, IF stop \in asked[d] THEN "stop" ELSE to)

(* Mutant: x.i stays. *)
LexError_KeepsFile(d) ==
  /\ At(d, "lex")
  /\ input = "lexical error" \/ Cut(d)
  /\ Return(d, "failure")
  /\ UNCHANGED <<files, faults>>

(* The lexer reports an invalid token, *)
LexError(d) ==
  /\ At(d, "lex")
  /\ input = "lexical error" \/ Cut(d)
  /\ Return(d, "failure")
  /\ Remove(".i")
  /\ UNCHANGED faults

(* or the tokens are listed. *)
Lex(d) ==
  /\ At(d, "lex")
  /\ input # "empty"
  /\ input # "lexical error" \/ Cut(d)
  /\ Advance(d, "parse", "lex")
  /\ listing' = [listing EXCEPT ![d] = 1]
  /\ UNCHANGED <<given, result, child, text, files, printed, faults>>

(* No phase is guarded by a handler: an assertion or an exception aborts.  *)
(* The lexer has an assertion, which an empty source violates, and throws  *)
(* when the text of a wrong first token starts before the source.          *)
Abort(d) ==
  /\ \/ At(d, "lex") /\ (input \in {"empty", "lexical error", "syntax error"} \/ Cut(d))
     \/ At(d, "parse") /\ (input = "syntax error" \/ Cut(d))
     \/ At(d, "analyse") /\ input = "semantic error"
  /\ Exit(d, "abort")
  /\ UNCHANGED <<given, child, text, files, output, faults>>

(* The analyser visits the expression that return; does not have.          *)
Crash(d) ==
  /\ At(d, "analyse") /\ input = "null expression"
  /\ Exit(d, "crash")
  /\ UNCHANGED <<given, child, text, files, output, faults>>

Passes(d, from, stop, to, errors) ==
  /\ At(d, from)
  /\ input \notin errors
  /\ Advance(d, to, stop)
  /\ UNCHANGED <<given, result, child, text, files, output, faults>>

Parse(d)    == ~Cut(d) /\ Passes(d, "parse", "parse", "analyse", {"syntax error"})
Analyse(d)  == Passes(d, "analyse", "validate", "tacky", {"semantic error", "null expression"})
MakeTacky(d) == Passes(d, "tacky", "tacky", "codegen", {})
Generate(d) == Passes(d, "codegen", "codegen", "write", {})

(* An option stops the run: x.i is removed. *)
StopEarly(d) ==
  /\ At(d, "stop")
  /\ Remove(".i")
  /\ Return(d, "success")
  /\ UNCHANGED faults

-----------------------------------------------------------------------------
(* The assembly file. *)

OpenAsm(d) ==
  /\ At(d, "write")
  /\ Truncate(d, ".s")
  /\ Continue(d, "writing")
  /\ UNCHANGED <<child, faults>>

CannotOpenAsm(d) ==
  /\ At(d, "write")
  /\ Return(d, "failure")
  /\ Suffer(d, "asm file")
  /\ UNCHANGED files

(* Mutant: the stream is not closed before the link. *)
WriteAsm_Open(d) ==
  /\ At(d, "writing")
  /\ Advance(d, "link", "assemble_only")
  /\ UNCHANGED <<given, result, child, text, files, output, faults>>

WriteAsm(d) ==
  /\ At(d, "writing")
  /\ Finish(d, "whole")
  /\ Advance(d, "link", "assemble_only")
  /\ UNCHANGED <<given, result, child, text, output, faults>>

(* A write that fails is not noticed. *)
WriteAsmShort(d) ==
  /\ At(d, "writing")
  /\ Finish(d, "part")
  /\ Suffer(d, "write")
  /\ Advance(d, "link", "assemble_only")
  /\ UNCHANGED <<given, result, child, text, output>>

(* Phase 5: linking, and the clean-up whatever its result. *)
Link(d) == Fork(d, "link", "linking")

LinkForkFails(d) ==
  /\ At(d, "link")
  /\ ChildIs(d, "none")
  /\ Continue(d, "clean .i")
  /\ UNCHANGED <<files, faults>>

(* Mutant: a child that was killed is waited for again. *)
Linked_OnlyExit(d) ==
  /\ At(d, "linking")
  /\ child[d] \in {"exit 0", "exit 1"}
  /\ Continue(d, "clean .i")
  /\ UNCHANGED <<child, files, faults>>

Linked(d) ==
  /\ Waited(d, "linking")
  /\ Continue(d, "clean .i")
  /\ UNCHANGED <<child, files, faults>>

CleanPreprocessed(d) ==
  /\ At(d, "clean .i")
  /\ Remove(".i")
  /\ Continue(d, "clean .s")
  /\ UNCHANGED <<child, faults>>

CleanAsm(d) ==
  /\ At(d, "clean .s")
  /\ Remove(".s")
  /\ Return(d, IF child[d] = "exit 0" THEN "success" ELSE "failure")
  /\ UNCHANGED faults

-----------------------------------------------------------------------------
Main(d) ==
  \/ Start(d) \/ WrongExtension(d) \/ Preprocess(d) \/ PreprocessFails(d) \/ Preprocessed(d)
  \/ CannotOpen(d) \/ StopPreprocessed(d) \/ ReadSource(d)
  \/ LexError(d) \/ Lex(d) \/ Abort(d) \/ Parse(d) \/ Crash(d) \/ Analyse(d)
  \/ MakeTacky(d) \/ Generate(d) \/ StopEarly(d) \/ OpenAsm(d) \/ CannotOpenAsm(d) \/ WriteAsm(d)
  \/ WriteAsmShort(d) \/ Link(d) \/ LinkForkFails(d) \/ Linked(d)
  \/ CleanPreprocessed(d) \/ CleanAsm(d)

ChildProcess(d) ==
  \/ Exec(d) \/ ExecFails(d) \/ ChildMain(d) \/ ChildMainCleans(d)
  \/ GccOpens(d) \/ GccPreprocesses(d) \/ GccAssembles(d) \/ GccLinks(d)
  \/ GccFails(d) \/ GccKilled(d)

Next == \E d \in Drivers : Main(d) \/ ChildProcess(d)

Spec == Init /\ [][Next]_vars

Fairness == \A d \in Drivers : WF_vars(Main(d)) /\ WF_vars(ChildProcess(d))
FairSpec == Spec /\ Fairness

-----------------------------------------------------------------------------
TypeOK ==
  /\ input \in Input
  /\ asked \in [Drivers -> SUBSET Option]
  /\ stage \in [Drivers -> Stage]
  /\ result \in [Drivers -> Result]
  /\ child \in [Drivers -> Child]
  /\ text \in [Drivers -> Text]
  /\ data \in Seq(Text)
  /\ dir \in [Path -> 0..Len(data)]
  /\ held \in [Drivers -> 0..Len(data)]
  /\ listing \in [Drivers -> 0..1]
  /\ printed \in [Drivers -> 0..2]

(* What options ask for: of several, the one that stops earliest.          *)
Delivers(o) ==
  IF "preprocess_only" \in o THEN ".i"
  ELSE IF o \ {"assemble_only"} # {} THEN "nothing"
  ELSE IF o = {"assemble_only"} THEN ".s" ELSE "exe"

(* A file that was made by the runs, and was not there before them. *)
Made(p) == Content(p) \notin {"none", "old"}

(* When a run returns 0, what it was asked for is there, whole, and no     *)
(* other intermediate file is that a run was not asked for.  That holds    *)
(* whatever files an earlier run left, one that failed or died included; a *)
(* run that overlapped another one, or whose write failed unnoticed, is    *)
(* not judged.                                                             *)
Delivered(d) ==
  CASE Delivers(asked[d]) = ".i"      -> Content(".i") = "whole"
    [] Delivers(asked[d]) = "nothing" ->
         ~Exists(".i") /\ (Made(".s") => \E e \in Drivers : Delivers(asked[e]) = ".s")
    [] Delivers(asked[d]) = ".s"      -> Content(".s") = "whole" /\ ~Exists(".i")
    [] Delivers(asked[d]) = "exe"     -> Content("exe") = "whole" /\ ~Exists(".i") /\ ~Exists(".s")

SuccessIsTrue ==
  [][\A d \in Drivers :
       /\ result[d] = "running" /\ result'[d] = "success"
       /\ faults[d] \cap {"write", "overlap"} = {}
       => Delivered(d)']_vars

(* When all runs have returned, overlapping or not, an intermediate file   *)
(* is left only if a run was asked for it: unless x.i, which is there, or  *)
(* x.s could not be opened or gcc was killed, the paths on which the       *)
(* driver (and gcc) do not clean up.                                       *)
NothingLeftBehind ==
  (\A d \in Drivers :
     /\ result[d] \in {"success", "failure"}
     /\ faults[d] \cap {"pp file", "asm file", "signal"} = {})
  => \A p \in {".i", ".s"} : Made(p) => \E d \in Drivers : Delivers(asked[d]) = p

(* An executable is made only of a valid program, and only of the whole of *)
(* its assembly unless a write failed or two runs overlapped.              *)
ExecutableIsSound ==
  Made("exe") =>
    /\ input = "valid"
    /\ Content("exe") = "whole"
       \/ \E d \in Drivers : faults[d] \cap {"write", "overlap"} # {}

(* Every run ends: main never waits for a child that does not end.         *)
EveryRunEnds == \A d \in Drivers : <>(stage[d] = "ended")

(* The child of run_command runs gcc, and nothing of main: the listing of  *)
(* the tokens, which only main writes, is written once.                    *)
ListingOnce == \A d \in Drivers : printed[d] <= 1
=============================================================================
