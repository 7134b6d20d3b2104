---------------------------- MODULE DriverProofs -----------------------------
(***************************************************************************)
(* Theorems about Driver, for any number of runs and any options.          *)
(***************************************************************************)
EXTENDS Driver, SequenceTheorems, TLAPS

-----------------------------------------------------------------------------
(* The inductive invariant. *)

Fault == {"overlap", "exec", "signal", "pp file", "asm file", "write"}

Typed == TypeOK /\ faults \in [Drivers -> SUBSET Fault]

(***************************************************************************)
(* What holds of a run by itself.                                          *)
(***************************************************************************)

RunsToEnd(d) == result[d] = "running" <=> stage[d] # "ended"

(* A child that has not ended is one that main waits for. *)
MainWaits(d) ==
  /\ child[d] \in {"forked", "gcc", "main"} => stage[d] \in {"preprocessing", "linking"}
  /\ child[d] = "gcc writes" => stage[d] = "preprocessing"
  /\ child[d] \in {"gcc links", "main .s"} => stage[d] = "linking"

(* The listing is written by main at its end, and by a child whose exec    *)
(* failed.                                                                 *)
ListedBy(d) ==
  /\ stage[d] \in {"start", "preprocess", "preprocessing", "open", "lex"} => listing[d] = 0
  /\ stage[d] # "ended" => printed[d] <= 1
  /\ \/ stage[d] \in {"clean .i", "clean .s", "ended"}
     \/ stage[d] = "linking" /\ Ended(d)
     \/ printed[d] = 0

(* The options that have not stopped main. *)
NotAsked(s) ==
  CASE s \in {"lex", "stop"} -> {"preprocess_only"}
    [] s = "parse"   -> {"preprocess_only", "lex"}
    [] s = "analyse" -> {"preprocess_only", "lex", "parse"}
    [] s = "tacky"   -> {"preprocess_only", "lex", "parse", "validate"}
    [] s = "codegen" -> {"preprocess_only", "lex", "parse", "validate", "tacky"}
    [] s \in {"write", "writing"} -> Option \ {"assemble_only"}
    [] s \in {"link", "linking", "clean .i", "clean .s"} -> Option
    [] OTHER -> {}

Goes(d) ==
  /\ asked[d] \cap NotAsked(stage[d]) = {}
  /\ stage[d] = "stop" => asked[d] # {}

(* What is wrong with the input is found before the end. *)
Judged(d) ==
  /\ InProgress(d) => input # "other extension"
  /\ stage[d] = "parse" => input # "empty" /\ (input = "lexical error" => Cut(d))
  /\ stage[d] = "analyse" => input \in {"valid", "semantic error", "null expression"}
  /\ stage[d] \in {"tacky", "codegen", "write", "writing", "link", "linking",
                   "clean .i", "clean .s"} => input = "valid"

RunOK(d) == RunsToEnd(d) /\ MainWaits(d) /\ ListedBy(d) /\ Goes(d) /\ Judged(d)

Local == \A d \in Drivers : RunOK(d)

(***************************************************************************)
(* The files.                                                              *)
(***************************************************************************)

(* No file has two paths, and none is written that is at another path than *)
(* the writer's.                                                           *)
Apart ==
  /\ \A p, q \in Path : Exists(p) /\ dir[p] = dir[q] => p = q
  /\ \A d \in Drivers :
       /\ held[d] # NoFile => held[d] # dir["exe"]
       /\ child[d] = "gcc writes" => held[d] # NoFile /\ held[d] # dir[".s"]
       /\ stage[d] = "writing" => held[d] # NoFile /\ held[d] # dir[".i"]

Overlaps ==
  \A d, e \in Drivers : d # e /\ InProgress(d) /\ InProgress(e) => "overlap" \in faults[d]

(* The files of a run that overlaps no other one, while it is in progress. *)
Preprocessing(d) ==
  /\ child[d] = "gcc writes" => held[d] = dir[".i"]
  /\ (stage[d] = "preprocessing" /\ child[d] = "exit 0") \/ stage[d] = "open" =>
       Content(".i") = "whole"
  /\ stage[d] = "clean .s" => ~Exists(".i")

Assembly(d) ==
  /\ stage[d] = "writing" => held[d] = dir[".s"]
  /\ "write" \notin faults[d] =>
       /\ \/ stage[d] = "stop" /\ asked[d] = {"assemble_only"}
          \/ stage[d] = "link"
          \/ stage[d] = "linking" /\ child[d] \in {"forked", "gcc"}
          => Content(".s") = "whole"
       /\ child[d] = "gcc links" => text[d] = "whole"
       /\ stage[d] \in {"linking", "clean .i", "clean .s"} /\ child[d] = "exit 0" =>
            Content("exe") = "whole"

Alone == \A d \in Drivers : "overlap" \notin faults[d] => Preprocessing(d) /\ Assembly(d)

(* Who will remove, or has been asked for, a file that was made. *)
WillRemove(d, p) ==
  \/ Delivers(asked[d]) = p
  \/ /\ p = ".i"
     /\ \/ stage[d] \in {"open", "lex", "parse", "analyse", "tacky", "codegen", "write",
                         "writing", "stop", "link", "linking", "clean .i"}
        \/ stage[d] = "preprocessing" /\ child[d] \in {"gcc writes", "exit 0"}
        \/ result[d] \in {"abort", "crash"}
        \/ faults[d] \cap {"pp file", "asm file", "signal"} # {}
  \/ /\ p = ".s"
     /\ stage[d] \in {"writing", "link", "linking", "clean .i", "clean .s"}

Accounted == \A p \in {".i", ".s"} : Made(p) => \E d \in Drivers : WillRemove(d, p)

IInv ==
  /\ Typed
  /\ Local
  /\ Apart
  /\ Overlaps
  /\ Alone
  /\ Accounted
  /\ ExecutableIsSound

-----------------------------------------------------------------------------
(* A step of a run leaves the others where they are. *)

Kept(d) ==
  /\ stage'[d] = stage[d] /\ result'[d] = result[d] /\ child'[d] = child[d]
  /\ text'[d] = text[d] /\ held'[d] = held[d]
  /\ listing'[d] = listing[d] /\ printed'[d] = printed[d]
  /\ faults[d] \subseteq faults'[d]

LEMMA OthersKept ==
  ASSUME Typed, NEW e \in Drivers, Main(e) \/ ChildProcess(e), NEW d \in Drivers, d # e
  PROVE  UNCHANGED given /\ Kept(d)
<1> USE DEF Typed, TypeOK, Kept, given, output, files
<1>1. CASE Start(e)
  BY <1>1 DEF Start, Continue, GoTo, Overlap
<1>2. CASE Preprocess(e) \/ Link(e)
  BY <1>2 DEF Preprocess, Link, Fork, Continue, GoTo
<1>3. CASE WrongExtension(e) \/ PreprocessFails(e) \/ CannotOpen(e) \/ StopPreprocessed(e)
  <2>1. CASE CannotOpen(e)
    <3>1. UNCHANGED faults \/ Suffer(e, "pp file")
      BY <2>1 DEF CannotOpen
    <3>2. faults[d] \subseteq faults'[d]
      BY <3>1 DEF Suffer
    <3> QED
      BY <2>1, <3>2 DEF CannotOpen, Return, Exit, GoTo
  <2> QED
    BY <1>3, <2>1 DEF WrongExtension, PreprocessFails, StopPreprocessed, Return, Exit, GoTo
<1>4. CASE LexError(e) \/ StopEarly(e) \/ CleanAsm(e)
  BY <1>4 DEF LexError, StopEarly, CleanAsm, Return, Exit, GoTo, Remove
<1>5. CASE Preprocessed(e) \/ LinkForkFails(e) \/ Linked(e)
  BY <1>5 DEF Preprocessed, LinkForkFails, Linked, ChildIs, Continue, GoTo
<1>6. CASE ReadSource(e) \/ Lex(e) \/ Abort(e) \/ Crash(e)
  BY <1>6 DEF ReadSource, Lex, Abort, Crash, Advance, Exit, GoTo
<1>7. CASE Parse(e) \/ Analyse(e) \/ MakeTacky(e) \/ Generate(e)
  BY <1>7 DEF Parse, Analyse, MakeTacky, Generate, Passes, Advance, GoTo
<1>8. CASE OpenAsm(e) \/ CannotOpenAsm(e)
  BY <1>8 DEF OpenAsm, CannotOpenAsm, Truncate, Return, Exit, Suffer, Continue, GoTo
<1>9. CASE WriteAsm(e) \/ WriteAsmShort(e)
  BY <1>9 DEF WriteAsm, WriteAsmShort, Finish, Advance, Suffer, GoTo
<1>10. CASE CleanPreprocessed(e)
  BY <1>10 DEF CleanPreprocessed, Remove, Continue, GoTo
<1>11. CASE Exec(e) \/ ExecFails(e) \/ GccKilled(e)
  BY <1>11 DEF Exec, ExecFails, GccKilled, ChildIs, ChildOnly, Suffer
<1>12. CASE ChildMain(e) \/ ChildMainCleans(e)
  BY <1>12 DEF ChildMain, ChildMainCleans, ChildReturns, ChildIs, ChildOnly, Remove
<1>13. CASE GccOpens(e) \/ GccPreprocesses(e)
  BY <1>13 DEF GccOpens, GccPreprocesses, ChildIs, ChildOnly, Truncate, Finish
<1>14. CASE GccAssembles(e)
  BY <1>14 DEF GccAssembles, ChildIs
<1>15. CASE GccLinks(e)
  BY <1>15 DEF GccLinks, ChildIs, ChildOnly
<1>16. CASE GccFails(e)
  BY <1>16 DEF GccFails, ChildIs, ChildOnly, Remove
<1> QED
  BY <1>1, <1>2, <1>3, <1>4, <1>5, <1>6, <1>7, <1>8, <1>9, <1>10, <1>11, <1>12, <1>13, <1>14,
     <1>15, <1>16 DEF Main, ChildProcess

-----------------------------------------------------------------------------
(* What holds of a run by itself stays true. *)

LEMMA RunKept ==
  ASSUME NEW d \in Drivers, RunOK(d), UNCHANGED given, Kept(d)
  PROVE  RunOK(d)'
BY DEF RunOK, RunsToEnd, MainWaits, ListedBy, Ended, Goes, Judged, InProgress, Cut, Kept, given

(* Main passes the options one at a time. *)
LEMMA AdvanceGoes ==
  ASSUME Typed, NEW e \in Drivers, Goes(e), UNCHANGED asked,
         NEW from \in Stage, NEW to \in Stage, NEW option \in Option,
         NotAsked(to) \subseteq NotAsked(from) \cup {option},
         "preprocess_only" \in NotAsked(from), to # "stop",
         stage[e] = from, Advance(e, to, option)
  PROVE  Goes(e)'
<1>1. NotAsked("stop") = {"preprocess_only"}
  BY DEF NotAsked
<1>2. stage'[e] = IF option \in asked[e] THEN "stop" ELSE to
  BY DEF Typed, TypeOK, Advance, GoTo
<1>3. CASE option \in asked[e]
  BY <1>1, <1>2, <1>3 DEF Goes
<1>4. CASE option \notin asked[e]
  BY <1>2, <1>4 DEF Goes
<1> QED
  BY <1>3, <1>4

(* A child of which exec failed writes the listing once. *)
LEMMA SmallSum == 0 \in 0..1 /\ \A m, n \in 0..1 : m <= 1 /\ (m = 0 => m + n = n)
OBVIOUS

LEMMA ChildMainLists ==
  ASSUME NEW e \in Drivers, ListedBy(e), listing[e] \in 0..1,
         child[e] \in {"main", "main .s"}, stage[e] \in {"preprocessing", "linking"},
         UNCHANGED <<stage, listing>>,
         \/ child'[e] = "exit 1" /\ printed'[e] = printed[e] + listing[e]
         \/ child'[e] = "main .s" /\ stage[e] = "linking" /\ printed'[e] = printed[e]
  PROVE  ListedBy(e)'
<1>1. printed[e] = 0 /\ (stage[e] = "preprocessing" => listing[e] = 0)
  BY DEF ListedBy, Ended
<1>2. printed'[e] \in 0..1
  BY <1>1, SmallSum, Zenon
<1>3. printed'[e] <= 1
  BY <1>2, SmallSum, Zenon
<1>4. stage[e] = "preprocessing" => printed'[e] = 0
  BY <1>1, SmallSum
<1>5. stage[e] = "linking" => Ended(e)' \/ printed'[e] = 0
  BY <1>1 DEF Ended
<1> QED
  BY <1>1, <1>3, <1>4, <1>5 DEF ListedBy

LEMMA RunSteps ==
  ASSUME Typed, NEW e \in Drivers, RunOK(e), Main(e) \/ ChildProcess(e)
  PROVE  RunOK(e)'
<1> USE DEF Typed, TypeOK, given, output, files, At, GoTo
<1> USE DEF RunOK, RunsToEnd, MainWaits, ListedBy, Ended, Goes, NotAsked, Judged, InProgress, Cut,
            Input, Option
<1>1. CASE Start(e)
  BY <1>1 DEF Start, Continue, Overlap
<1>2. CASE Preprocess(e) \/ Link(e)
  BY <1>2 DEF Preprocess, Link, Fork, Continue
<1>3. CASE WrongExtension(e) \/ PreprocessFails(e) \/ CannotOpen(e) \/ StopPreprocessed(e)
  BY <1>3 DEF WrongExtension, PreprocessFails, CannotOpen, StopPreprocessed, Waited, Return, Exit
<1>4. CASE LexError(e) \/ StopEarly(e) \/ CleanAsm(e)
  BY <1>4 DEF LexError, StopEarly, CleanAsm, Return, Exit
<1>5. CASE Preprocessed(e) \/ LinkForkFails(e) \/ Linked(e)
  BY <1>5 DEF Preprocessed, LinkForkFails, Linked, Waited, ChildIs, Continue
<1>6. CASE ReadSource(e) \/ Lex(e) \/ Abort(e) \/ Crash(e)
  <2>1. CASE ReadSource(e)
    BY <2>1 DEF ReadSource
  <2>2. CASE Lex(e)
    <3>1. Goes(e)'
      BY <2>2 DEF Lex, Advance
    <3> QED
      BY <2>2, <3>1 DEF Lex, Advance
  <2>3. CASE Abort(e) \/ Crash(e)
    BY <2>3 DEF Abort, Crash, Exit
  <2> QED
    BY <1>6, <2>1, <2>2, <2>3
<1>7. CASE Parse(e) \/ Analyse(e) \/ MakeTacky(e) \/ Generate(e)
  <2>1. Goes(e)'
    <3>1. \/ stage[e] = "parse" /\ Advance(e, "analyse", "parse")
          \/ stage[e] = "analyse" /\ Advance(e, "tacky", "validate")
          \/ stage[e] = "tacky" /\ Advance(e, "codegen", "tacky")
          \/ stage[e] = "codegen" /\ Advance(e, "write", "codegen")
      BY <1>7 DEF Parse, Analyse, MakeTacky, Generate, Passes
    <3>2. UNCHANGED asked
      BY <1>7 DEF Parse, Analyse, MakeTacky, Generate, Passes
    <3>3. Goes(e)
      OBVIOUS
    <3>4. /\ NotAsked("analyse") \subseteq NotAsked("parse") \cup {"parse"}
          /\ NotAsked("tacky") \subseteq NotAsked("analyse") \cup {"validate"}
          /\ NotAsked("codegen") \subseteq NotAsked("tacky") \cup {"tacky"}
          /\ NotAsked("write") \subseteq NotAsked("codegen") \cup {"codegen"}
          /\ \A s \in {"parse", "analyse", "tacky", "codegen"} : "preprocess_only" \in NotAsked(s)
      OBVIOUS
    <3>5. {"parse", "analyse", "tacky", "codegen", "write"} \subseteq Stage
      BY DEF Stage
    <3>6. {"parse", "tacky", "validate", "codegen"} \subseteq Option
      OBVIOUS
    <3> HIDE DEF Goes, GoTo, NotAsked, Option, RunOK, Typed
    <3> QED
      BY <3>1, <3>2, <3>3, <3>4, <3>5, <3>6, AdvanceGoes
  <2>2. Judged(e)'
    BY <1>7 DEF Parse, Analyse, MakeTacky, Generate, Passes, Advance
  <2> QED
    BY <1>7, <2>1, <2>2 DEF Parse, Analyse, MakeTacky, Generate, Passes, Advance
<1>8. CASE OpenAsm(e) \/ CannotOpenAsm(e)
  BY <1>8, ZenonT(60) DEF OpenAsm, CannotOpenAsm, Return, Exit, Continue
<1>9. CASE WriteAsm(e) \/ WriteAsmShort(e)
  <2>1. Goes(e)'
    <3>1. stage[e] = "writing" /\ Advance(e, "link", "assemble_only") /\ UNCHANGED asked
      BY <1>9 DEF WriteAsm, WriteAsmShort
    <3>2. Goes(e)
      OBVIOUS
    <3> HIDE DEF Goes, GoTo
    <3> QED
      BY <3>1, <3>2, AdvanceGoes DEF Stage
  <2>2. stage'[e] \in {"stop", "link"}
    BY <1>9 DEF WriteAsm, WriteAsmShort, Advance
  <2>3. UNCHANGED <<given, result, child, text, printed>>
    BY <1>9 DEF WriteAsm, WriteAsmShort
  <2> HIDE DEF Goes
  <2> QED
    BY <1>9, <2>1, <2>2, <2>3 DEF WriteAsm, WriteAsmShort
<1>10. CASE CleanPreprocessed(e)
  BY <1>10 DEF CleanPreprocessed, Continue
<1>11. CASE Exec(e) \/ ExecFails(e) \/ GccKilled(e)
  BY <1>11 DEF Exec, ExecFails, GccKilled, InChild, ChildIs, ChildOnly
<1>12. CASE ChildMain(e) \/ ChildMainCleans(e)
  <2>1. UNCHANGED <<given, stage, result, text, listing>>
    BY <1>12 DEF ChildMain, ChildMainCleans, ChildReturns, ChildOnly
  <2>2. \/ child'[e] = "exit 1" /\ printed'[e] = printed[e] + listing[e]
        \/ child'[e] = "main .s" /\ stage[e] = "linking" /\ printed'[e] = printed[e]
    BY <1>12 DEF ChildMain, ChildMainCleans, ChildReturns, ChildOnly, ChildIs
  <2>3. child[e] \in {"main", "main .s"} /\ stage[e] \in {"preprocessing", "linking"}
    BY <1>12 DEF ChildMain, ChildMainCleans, InChild
  <2> HIDE DEF Goes, NotAsked, Judged
  <2>4. Goes(e)' /\ Judged(e)' /\ RunsToEnd(e)' /\ MainWaits(e)'
    BY <2>1, <2>2, <2>3 DEF Goes, Judged
  <2>5. ListedBy(e) /\ listing[e] \in 0..1
    OBVIOUS
  <2>6. ListedBy(e)'
    BY <2>1, <2>2, <2>3, <2>5, ChildMainLists
  <2> QED
    BY <2>4, <2>6
<1>13. CASE GccOpens(e) \/ GccPreprocesses(e)
  BY <1>13 DEF GccOpens, GccPreprocesses, InChild, ChildIs, ChildOnly
<1>14. CASE GccAssembles(e)
  BY <1>14 DEF GccAssembles, InChild, ChildIs
<1>15. CASE GccLinks(e)
  BY <1>15 DEF GccLinks, InChild, ChildIs, ChildOnly
<1>16. CASE GccFails(e)
  BY <1>16 DEF GccFails, ChildIs, ChildOnly
<1> QED
  BY <1>1, <1>2, <1>3, <1>4, <1>5, <1>6, <1>7, <1>8, <1>9, <1>10, <1>11, <1>12, <1>13, <1>14, <1>15, <1>16 DEF Main, ChildProcess

-----------------------------------------------------------------------------
(* Types. *)

(* What a step does to the files. *)
NewExecutable ==
  /\ \E t \in {"whole", "broken"} : data' = Append(data, t)
  /\ dir' = [dir EXCEPT !["exe"] = Len(data) + 1]
  /\ UNCHANGED held

FileStep(e) ==
  \/ UNCHANGED files
  \/ \E p \in {".i", ".s"} : Truncate(e, p)
  \/ \E t \in Text : Finish(e, t)
  \/ \E p \in Path : Remove(p)
  \/ GccLinks(e) /\ NewExecutable

LEMMA FileSteps ==
  ASSUME NEW e \in Drivers, Main(e) \/ ChildProcess(e)
  PROVE  FileStep(e)
<1> USE DEF FileStep, files
<1>1. CASE Main(e)
  <2>1. CASE OpenAsm(e)
    BY <2>1 DEF OpenAsm
  <2>2. CASE WriteAsm(e) \/ WriteAsmShort(e)
    BY <2>2 DEF WriteAsm, WriteAsmShort, Text
  <2>3. CASE LexError(e) \/ StopEarly(e) \/ CleanPreprocessed(e) \/ CleanAsm(e)
    BY <2>3 DEF LexError, StopEarly, CleanPreprocessed, CleanAsm, Path
  <2> QED
    BY <1>1, <2>1, <2>2, <2>3
    DEF Main, Start, WrongExtension, Preprocess, Link, Fork, PreprocessFails, Preprocessed,
        CannotOpen, StopPreprocessed, ReadSource, Lex, Abort, Crash, Parse, Analyse, MakeTacky,
        Generate, Passes, CannotOpenAsm, LinkForkFails, Linked
<1>2. CASE ChildProcess(e)
  <2>1. CASE GccOpens(e) \/ GccPreprocesses(e)
    BY <2>1 DEF GccOpens, GccPreprocesses, Text
  <2>2. CASE GccLinks(e)
    BY <2>2 DEF GccLinks, NewExecutable
  <2>3. CASE GccFails(e)
    BY <2>3 DEF GccFails, Path
  <2>4. CASE ChildMain(e) \/ ChildMainCleans(e)
    BY <2>4 DEF ChildMain, ChildMainCleans, Path
  <2> QED
    BY <1>2, <2>1, <2>2, <2>3, <2>4 DEF ChildProcess, Exec, ExecFails, GccAssembles, GccKilled
<1> QED
  BY <1>1, <1>2

(* The files keep their numbers, and a file that is named is there. *)
FilesTyped ==
  /\ data \in Seq(Text)
  /\ dir \in [Path -> 0..Len(data)]
  /\ held \in [Drivers -> 0..Len(data)]

LEMMA MoreFiles == \A m \in Nat : 0..m \subseteq 0..(m + 1) /\ m + 1 \in 0..(m + 1) /\ 0 \in 0..m
OBVIOUS

LEMMA FileTypes ==
  ASSUME FilesTyped, NEW e \in Drivers, FileStep(e)
  PROVE  FilesTyped'
<1> DEFINE n == Len(data)
<1>1. n \in Nat /\ 0..n \subseteq 0..(n + 1) /\ n + 1 \in 0..(n + 1) /\ 0 \in 0..n
  BY MoreFiles, LenProperties DEF FilesTyped
<1>2. \A t \in Text : Append(data, t) \in Seq(Text) /\ Len(Append(data, t)) = n + 1
  BY AppendProperties DEF FilesTyped
<1>3. \A f, t : t \in Text => LET d == [data EXCEPT ![f] = t] IN d \in Seq(Text) /\ Len(d) = n
  <2> SUFFICES ASSUME NEW f, NEW t \in Text, NEW d, d = [data EXCEPT ![f] = t]
               PROVE  d \in Seq(Text) /\ Len(d) = n
    OBVIOUS
  <2>1. CASE f \in 1..n
    BY <2>1, ExceptSeq DEF FilesTyped
  <2>2. CASE f \notin 1..n
    <3>1. DOMAIN data = 1..n
      BY LenProperties DEF FilesTyped
    <3>2. d = data
      BY <2>2, <3>1 DEF FilesTyped
    <3> QED
      BY <3>2 DEF FilesTyped
  <2> QED
    BY <2>1, <2>2
<1>4. CASE UNCHANGED files
  BY <1>4 DEF FilesTyped, files
<1>5. ASSUME NEW p \in {".i", ".s"}, Truncate(e, p)
      PROVE  FilesTyped'
  <2>1. p \in Path /\ "part" \in Text
    BY DEF Path, Text
  <2>2. CASE Exists(p)
    BY <1>1, <1>3, <1>5, <2>1, <2>2 DEF Truncate, FilesTyped
  <2>3. CASE ~Exists(p)
    <3>1. data' \in Seq(Text) /\ Len(data') = n + 1
      BY <1>2, <1>5, <2>1, <2>3 DEF Truncate
    <3>2. dir' = [dir EXCEPT ![p] = n + 1] /\ held' = [held EXCEPT ![e] = n + 1]
      BY <1>5, <2>3 DEF Truncate
    <3> HIDE DEF n
    <3>3. dir' \in [Path -> 0..(n + 1)] /\ held' \in [Drivers -> 0..(n + 1)]
      BY <1>1, <2>1, <3>2 DEF FilesTyped, n
    <3> QED
      BY <3>1, <3>3 DEF FilesTyped
  <2> QED
    BY <2>2, <2>3
<1>6. ASSUME NEW t \in Text, Finish(e, t)
      PROVE  FilesTyped'
  BY <1>3, <1>6 DEF Finish, FilesTyped
<1>7. ASSUME NEW p \in Path, Remove(p)
      PROVE  FilesTyped'
  BY <1>1, <1>7 DEF Remove, NoFile, FilesTyped
<1>8. CASE NewExecutable
  <2>1. data' \in Seq(Text) /\ Len(data') = n + 1
    BY <1>2, <1>8 DEF NewExecutable, Text
  <2>2. dir' = [dir EXCEPT !["exe"] = n + 1] /\ UNCHANGED held
    BY <1>8 DEF NewExecutable
  <2> HIDE DEF n
  <2>3. dir' \in [Path -> 0..(n + 1)] /\ held' \in [Drivers -> 0..(n + 1)]
    BY <1>1, <2>2 DEF FilesTyped, n, Path
  <2> QED
    BY <2>1, <2>3 DEF FilesTyped
<1> QED
  BY <1>4, <1>5, <1>6, <1>7, <1>8 DEF FileStep

LEMMA ContentTyped ==
  ASSUME FilesTyped, NEW p \in Path, Exists(p)
  PROVE  dir[p] \in 1..Len(data) /\ Content(p) \in Text /\ Content(p) = data[dir[p]]
<1>1. dir[p] \in 0..Len(data) /\ dir[p] # 0 /\ Len(data) \in Nat
  BY LenProperties DEF FilesTyped, Exists, NoFile
<1>2. dir[p] \in 1..Len(data)
  BY <1>1
<1> QED
  BY <1>2, ElementOfSeq DEF FilesTyped, Content

(* The listing is written once by main, and once more by a child whose     *)
(* exec failed.                                                            *)
LEMMA PrintedSum ==
  \A m \in 0..2 : \A n \in 0..1 : m <= 1 => m + n \in 0..2
OBVIOUS

LEMMA ListingTyped ==
  ASSUME Typed, NEW e \in Drivers, RunOK(e), Main(e) \/ ChildProcess(e)
  PROVE  listing' \in [Drivers -> 0..1] /\ printed' \in [Drivers -> 0..2]
<1>1. listing \in [Drivers -> 0..1] /\ printed \in [Drivers -> 0..2]
  BY DEF Typed, TypeOK
<1>2. result[e] = "running" => printed[e] <= 1
  BY DEF RunOK, RunsToEnd, ListedBy
<1>3. child[e] \in {"main", "main .s"} => printed[e] <= 1
  BY DEF RunOK, MainWaits, ListedBy
<1>4. 0 \in 0..1 /\ 1 \in 0..1
  BY SmallSum
<1>5. (printed[e] <= 1) => printed[e] + listing[e] \in 0..2
  BY <1>1, PrintedSum, Zenon
<1>6. \/ UNCHANGED <<listing, printed>>
      \/ /\ printed[e] <= 1
         /\ printed' = [printed EXCEPT ![e] = @ + listing[e]]
         /\ listing' = listing \/ listing' = [listing EXCEPT ![e] = 0]
      \/ listing' = [listing EXCEPT ![e] = 1] /\ printed' = printed
  <2>1. CASE Main(e)
    BY <1>2, <2>1
    DEF Main, Start, WrongExtension, Preprocess, Link, Fork, PreprocessFails, Preprocessed,
        CannotOpen, StopPreprocessed, ReadSource, LexError, Lex, Abort, Crash, Parse, Analyse,
        MakeTacky, Generate, Passes, StopEarly, OpenAsm, CannotOpenAsm, WriteAsm,
        WriteAsmShort, LinkForkFails, Linked, CleanPreprocessed, CleanAsm, Return, Continue,
        Waited, At, output
  <2>2. CASE ChildProcess(e)
    BY <1>3, <2>2
    DEF ChildProcess, Exec, ExecFails, ChildMain, ChildMainCleans, GccOpens, GccPreprocesses,
        GccAssembles, GccLinks, GccFails, GccKilled, ChildReturns, ChildOnly, InChild, output
  <2> QED
    BY <2>1, <2>2
<1>7. CASE UNCHANGED <<listing, printed>>
  BY <1>1, <1>7
<1>8. CASE /\ printed[e] <= 1
           /\ printed' = [printed EXCEPT ![e] = @ + listing[e]]
           /\ listing' = listing \/ listing' = [listing EXCEPT ![e] = 0]
  <2>1. printed[e] + listing[e] \in 0..2
    BY <1>5, <1>8
  <2> QED
    BY <1>1, <1>4, <1>8, <2>1, Zenon
<1>9. CASE listing' = [listing EXCEPT ![e] = 1] /\ printed' = printed
  BY <1>1, <1>4, <1>9, Zenon
<1> QED
  BY <1>6, <1>7, <1>8, <1>9

LEMMA RunTypes ==
  ASSUME Typed, NEW e \in Drivers, Main(e) \/ ChildProcess(e)
  PROVE  /\ UNCHANGED given
         /\ stage' \in [Drivers -> Stage]
         /\ result' \in [Drivers -> Result]
         /\ child' \in [Drivers -> Child]
         /\ text' \in [Drivers -> Text]
         /\ faults' \in [Drivers -> SUBSET Fault]
         /\ faults' = faults \/ (\E f \in Fault : Suffer(e, f)) \/ Overlap(e)
<1>1. \A p \in {".i", ".s"} : Exists(p) => Content(p) \in Text
  BY ContentTyped DEF Typed, TypeOK, FilesTyped, Path
<1>2. /\ stage \in [Drivers -> Stage]
      /\ result \in [Drivers -> Result]
      /\ child \in [Drivers -> Child]
      /\ text \in [Drivers -> Text]
      /\ faults \in [Drivers -> SUBSET Fault]
  BY DEF Typed, TypeOK
<1>3. /\ UNCHANGED given
      /\ stage' = stage \/ \E s \in Stage : stage' = [stage EXCEPT ![e] = s]
      /\ result' = result \/ \E r \in Result : result' = [result EXCEPT ![e] = r]
      /\ child' = child \/ \E c \in Child : child' = [child EXCEPT ![e] = c]
      /\ text' = text \/ \E t \in Text : text' = [text EXCEPT ![e] = t]
      /\ faults' = faults \/ (\E f \in Fault : Suffer(e, f)) \/ Overlap(e)
  <2> USE DEF Main, Start, WrongExtension, Preprocess, Link, Fork, PreprocessFails, Preprocessed,
              CannotOpen, StopPreprocessed, ReadSource, LexError, Lex, Abort, Crash, Parse, Analyse,
              MakeTacky, Generate, Passes, StopEarly, OpenAsm, CannotOpenAsm, WriteAsm,
              WriteAsmShort, LinkForkFails, Linked, CleanPreprocessed, CleanAsm, Return, Continue,
              ChildProcess, Exec, ExecFails, ChildMain, ChildMainCleans, GccOpens, GccPreprocesses,
              GccAssembles, GccLinks, GccFails, GccKilled, ChildReturns, ChildOnly
  <2>1. UNCHANGED given
    OBVIOUS
  <2>2. stage' = stage \/ \E s \in Stage : stage' = [stage EXCEPT ![e] = s]
    BY DEF Advance, Exit, GoTo, Stage
  <2>3. result' = result \/ \E r \in Result : result' = [result EXCEPT ![e] = r]
    BY DEF Exit, Result
  <2>4. child' = child \/ \E c \in Child : child' = [child EXCEPT ![e] = c]
    BY DEF ChildIs, Child
  <2>5. text' = text \/ \E t \in Text : text' = [text EXCEPT ![e] = t]
    BY <1>1
  <2>6. faults' = faults \/ (\E f \in Fault : Suffer(e, f)) \/ Overlap(e)
    BY DEF Fault
  <2> HIDE DEF Main, ChildProcess
  <2> QED
    BY <2>1, <2>2, <2>3, <2>4, <2>5, <2>6
<1>4. faults' \in [Drivers -> SUBSET Fault]
  <2>1. CASE faults' = faults
    BY <1>2, <2>1
  <2>2. ASSUME NEW f \in Fault, Suffer(e, f)
        PROVE  faults' \in [Drivers -> SUBSET Fault]
    <3>1. faults[e] \cup {f} \in SUBSET Fault
      BY <1>2
    <3> QED
      BY <1>2, <2>2, <3>1 DEF Suffer
  <2>3. CASE Overlap(e)
    <3>1. \A d \in Drivers : faults[d] \in SUBSET Fault /\ faults[d] \cup {"overlap"} \in SUBSET Fault
      BY <1>2 DEF Fault
    <3> QED
      BY <2>3, <3>1 DEF Overlap
  <2> QED
    BY <1>3, <2>1, <2>2, <2>3
<1> QED
  BY <1>2, <1>3, <1>4

LEMMA TypedStep ==
  ASSUME Typed, NEW e \in Drivers, RunOK(e), Main(e) \/ ChildProcess(e)
  PROVE  Typed'
<1>1. FilesTyped'
  BY FileSteps, FileTypes DEF Typed, TypeOK, FilesTyped
<1> QED
  BY <1>1, RunTypes, ListingTyped DEF Typed, TypeOK, FilesTyped, given

-----------------------------------------------------------------------------
(* Overlaps are noted with both runs. *)

LEMMA FaultsGrow ==
  ASSUME Typed, NEW e \in Drivers, Main(e) \/ ChildProcess(e), NEW d \in Drivers
  PROVE  faults[d] \subseteq faults'[d]
<1>1. faults \in [Drivers -> SUBSET Fault]
  BY DEF Typed
<1>2. faults' = faults \/ (\E f \in Fault : Suffer(e, f)) \/ Overlap(e)
  BY RunTypes
<1> QED
  BY <1>1, <1>2 DEF Suffer, Overlap

(* The steps of main by the stage that they lead to. *)
LEMMA MainReaches ==
  ASSUME Typed, NEW e \in Drivers, Main(e)
  PROVE  /\ stage'[e] # "start"
         /\ stage'[e] = "preprocessing" => Preprocess(e)
         /\ stage'[e] = "open" => Preprocessed(e)
         /\ stage'[e] = "writing" => OpenAsm(e)
         /\ stage'[e] = "stop" => \/ Lex(e) \/ Parse(e) \/ Analyse(e) \/ MakeTacky(e)
                                 \/ Generate(e) \/ WriteAsm(e) \/ WriteAsmShort(e)
         /\ stage'[e] = "link" => WriteAsm(e) \/ WriteAsmShort(e)
         /\ stage'[e] = "linking" => Link(e)
         /\ stage'[e] = "clean .i" => Linked(e) \/ LinkForkFails(e)
         /\ stage'[e] = "clean .s" => CleanPreprocessed(e)
<1>1. stage \in [Drivers -> Stage]
  BY DEF Typed, TypeOK
<1> QED
  BY <1>1
  DEF Main, Start, WrongExtension, Preprocess, Link, Fork, PreprocessFails, Preprocessed,
      CannotOpen, StopPreprocessed, ReadSource, LexError, Lex, Abort, Crash, Parse, Analyse,
      MakeTacky, Generate, Passes, StopEarly, OpenAsm, CannotOpenAsm, WriteAsm,
      WriteAsmShort, LinkForkFails, Linked, CleanPreprocessed, CleanAsm, Return, Exit,
      Continue, Advance, GoTo

(* Main goes on when no child runs, and only run_command makes one. *)
LEMMA MainAwaits ==
  ASSUME Typed, NEW e \in Drivers, RunOK(e), Main(e)
  PROVE  child[e] \in {"none", "exit 0", "exit 1", "signal"} /\ child'[e] \in {child[e], "forked", "none"}
<1>1. child \in [Drivers -> Child]
  BY DEF Typed, TypeOK
<1>2. child[e] \in {"none", "exit 0", "exit 1", "signal"}
  <2>1. \/ Ended(e) \/ stage[e] \notin {"preprocessing", "linking"}
    BY DEF Main, Start, WrongExtension, Preprocess, Link, Fork, PreprocessFails, Preprocessed,
           CannotOpen, StopPreprocessed, ReadSource, LexError, Lex, Abort, Crash, Parse, Analyse,
           MakeTacky, Generate, Passes, StopEarly, OpenAsm, CannotOpenAsm, WriteAsm,
           WriteAsmShort, LinkForkFails, Linked, CleanPreprocessed, CleanAsm, At, Waited
  <2> QED
    BY <1>1, <2>1 DEF RunOK, MainWaits, Ended, Child
<1>3. child'[e] \in {child[e], "forked", "none"}
  BY <1>1
  DEF Main, Start, WrongExtension, Preprocess, Link, Fork, PreprocessFails, Preprocessed,
      CannotOpen, StopPreprocessed, ReadSource, LexError, Lex, Abort, Crash, Parse, Analyse,
      MakeTacky, Generate, Passes, StopEarly, OpenAsm, CannotOpenAsm, WriteAsm,
      WriteAsmShort, LinkForkFails, Linked, CleanPreprocessed, CleanAsm, Return, Continue,
      ChildIs
<1> QED
  BY <1>2, <1>3

(* A child runs while main waits for it. *)
LEMMA ChildRuns ==
  ASSUME NEW e \in Drivers, RunOK(e), ChildProcess(e)
  PROVE  /\ stage' = stage /\ result' = result
         /\ stage[e] \in {"preprocessing", "linking"}
         /\ child[e] \in {"forked", "gcc", "main", "gcc writes", "gcc links", "main .s"}
<1>1. child[e] \in {"forked", "gcc", "main", "gcc writes", "gcc links", "main .s"}
  BY DEF ChildProcess, Exec, ExecFails, ChildMain, ChildMainCleans, GccOpens, GccPreprocesses,
         GccAssembles, GccLinks, GccFails, GccKilled, InChild
<1>2. stage' = stage /\ result' = result
  BY DEF ChildProcess, Exec, ExecFails, ChildMain, ChildMainCleans, GccOpens, GccPreprocesses,
         GccAssembles, GccLinks, GccFails, GccKilled, ChildReturns, ChildOnly
<1> QED
  BY <1>1, <1>2 DEF RunOK, MainWaits

(* Only the runs that are in progress do anything but start. *)
LEMMA Acting ==
  ASSUME Typed, NEW e \in Drivers, RunOK(e), Main(e) \/ ChildProcess(e)
  PROVE  Start(e) \/ WrongExtension(e) \/ InProgress(e)
<1>1. CASE Main(e)
  BY <1>1
  DEF Main, Preprocess, Link, Fork, PreprocessFails, Preprocessed, CannotOpen, StopPreprocessed,
      ReadSource, LexError, Lex, Abort, Crash, Parse, Analyse, MakeTacky, Generate, Passes, StopEarly,
      OpenAsm, CannotOpenAsm, WriteAsm, WriteAsmShort, LinkForkFails, Linked,
      CleanPreprocessed, CleanAsm, Waited, At, InProgress
<1>2. CASE ChildProcess(e)
  BY <1>2, ChildRuns DEF InProgress
<1> QED
  BY <1>1, <1>2

LEMMA OverlapsStep ==
  ASSUME Typed, Overlaps, NEW e \in Drivers, RunOK(e), Main(e) \/ ChildProcess(e)
  PROVE  Overlaps'
<1> SUFFICES ASSUME NEW d \in Drivers, NEW f \in Drivers, d # f,
                    InProgress(d)', InProgress(f)'
             PROVE  "overlap" \in faults'[d]
  BY DEF Overlaps
<1>1. \A c \in Drivers \ {e} : InProgress(c)' <=> InProgress(c)
  BY OthersKept DEF Kept, InProgress
<1>2. CASE Start(e)
  <2>1. Overlap(e) /\ ~InProgress(e)
    BY <1>2 DEF Start, At, InProgress
  <2>2. CASE d = e
    BY <1>1, <2>1, <2>2 DEF Overlap
  <2>3. CASE d # e /\ f = e
    BY <1>1, <2>1, <2>3 DEF Overlap
  <2>4. CASE d # e /\ f # e
    BY <1>1, <2>4, FaultsGrow DEF Overlaps
  <2> QED
    BY <2>2, <2>3, <2>4
<1>3. CASE WrongExtension(e)
  <2>1. ~InProgress(e)'
    BY <1>3 DEF WrongExtension, Return, Exit, GoTo, InProgress, Typed, TypeOK
  <2> QED
    BY <1>1, <2>1, FaultsGrow DEF Overlaps
<1>4. CASE InProgress(e)
  BY <1>1, <1>4, FaultsGrow DEF Overlaps
<1> QED
  BY <1>2, <1>3, <1>4, Acting

(* A run that has overlapped none is alone while it is in progress. *)
LEMMA OthersIdle ==
  ASSUME Typed, Overlaps, NEW e \in Drivers, RunOK(e), Main(e) \/ ChildProcess(e),
         NEW d \in Drivers, d # e, RunOK(d), InProgress(d), "overlap" \notin faults'[d]
  PROVE  FALSE
<1>1. CASE Start(e)
  BY <1>1 DEF Start, Overlap
<1>2. CASE InProgress(e)
  BY <1>2, FaultsGrow DEF Overlaps
<1>3. CASE WrongExtension(e)
  BY <1>3 DEF WrongExtension, RunOK, Judged
<1> QED
  BY <1>1, <1>2, <1>3, Acting

-----------------------------------------------------------------------------
(* The paths stay apart. *)

(* A step moves one path at most, to a new file or to none. *)
LEMMA DirMoves ==
  ASSUME FilesTyped, NEW e \in Drivers, FileStep(e)
  PROVE  \/ dir' = dir
         \/ \E p \in Path : \E f \in {NoFile, Len(data) + 1} : dir' = [dir EXCEPT ![p] = f]
<1>1. {".i", ".s", "exe"} \subseteq Path
  BY DEF Path
<1>2. CASE UNCHANGED files \/ \E t \in Text : Finish(e, t)
  BY <1>2 DEF files, Finish
<1>3. ASSUME NEW p \in {".i", ".s"}, Truncate(e, p)
      PROVE  dir' = dir \/ dir' = [dir EXCEPT ![p] = Len(data) + 1]
  BY <1>1, <1>3 DEF Truncate, FilesTyped
<1> QED
  BY <1>1, <1>2, <1>3 DEF FileStep, Remove, NewExecutable

LEMMA NewFile ==
  ASSUME FilesTyped
  PROVE  /\ \A p \in Path : dir[p] # Len(data) + 1
         /\ \A d \in Drivers : held[d] # Len(data) + 1
         /\ Len(data) + 1 # NoFile
<1>1. \A n \in Nat : n + 1 \notin 0..n /\ n + 1 # 0
  OBVIOUS
<1> QED
  BY <1>1, LenProperties DEF FilesTyped, NoFile

(* Where main and gcc begin to write. *)
LEMMA Writers ==
  ASSUME Typed, NEW e \in Drivers, RunOK(e), Main(e) \/ ChildProcess(e)
  PROVE  /\ child'[e] = "gcc writes" => Truncate(e, ".i")
         /\ stage'[e] = "writing" => Truncate(e, ".s")
<1>1. child \in [Drivers -> Child] /\ stage \in [Drivers -> Stage]
  BY DEF Typed, TypeOK
<1>2. CASE Main(e)
  BY <1>2, MainAwaits, MainReaches DEF OpenAsm
<1>3. CASE ChildProcess(e)
  <2>1. child'[e] = "gcc writes" => GccOpens(e)
    BY <1>1, <1>3, ChildRuns
    DEF ChildProcess, Exec, ExecFails, ChildMain, ChildMainCleans, GccPreprocesses,
        GccAssembles, GccLinks, GccFails, GccKilled, ChildReturns, ChildIs
  <2> QED
    BY <1>3, <2>1, ChildRuns DEF GccOpens
<1> QED
  BY <1>2, <1>3

LEMMA HeldMoves ==
  ASSUME Typed, NEW e \in Drivers, FileStep(e), NEW d \in Drivers
  PROVE  held'[d] = held[d] \/ \E p \in {".i", ".s"} : Truncate(e, p) /\ d = e /\ held'[d] = dir'[p]
BY DEF FileStep, files, Truncate, Finish, Remove, NewExecutable, Typed, TypeOK, Path

LEMMA ApartStep ==
  ASSUME Typed, Apart, NEW e \in Drivers, RunOK(e), Main(e) \/ ChildProcess(e)
  PROVE  Apart'
<1>1. FilesTyped /\ FileStep(e) /\ {".i", ".s", "exe"} \subseteq Path
  BY FileSteps DEF Typed, TypeOK, FilesTyped, Path
<1>2. dir \in [Path -> 0..Len(data)]
  BY <1>1 DEF FilesTyped
<1>3. \/ dir' = dir
      \/ \E p \in Path : \E f \in {NoFile, Len(data) + 1} : dir' = [dir EXCEPT ![p] = f]
  BY <1>1, DirMoves
<1>4. \A p \in Path : dir'[p] \in {dir[p], NoFile, Len(data) + 1}
  BY <1>2, <1>3
<1>5. ASSUME NEW p \in Path, NEW q \in Path, dir'[p] # NoFile, dir'[p] = dir'[q]
      PROVE  p = q
  BY <1>1, <1>2, <1>3, <1>5, NewFile DEF Apart, Exists
<1>6. ASSUME NEW d \in Drivers, held'[d] # NoFile
      PROVE  held'[d] # dir'["exe"]
  <2>1. CASE held'[d] = held[d]
    BY <1>1, <1>4, <1>6, <2>1, NewFile DEF Apart
  <2>2. CASE \E p \in {".i", ".s"} : held'[d] = dir'[p]
    BY <1>1, <1>5, <1>6, <2>2
  <2> QED
    BY <1>1, <2>1, <2>2, HeldMoves
<1>7. ASSUME NEW d \in Drivers, child'[d] = "gcc writes"
      PROVE  held'[d] # NoFile /\ held'[d] # dir'[".s"]
  <2>1. CASE d = e
    <3>1. Truncate(e, ".i")
      BY <1>7, <2>1, Writers
    <3>2. held'[e] = dir'[".i"] /\ dir'[".i"] # NoFile
      BY <1>1, <1>2, <3>1, NewFile DEF Truncate, Exists, Typed, TypeOK
    <3> QED
      BY <1>1, <1>5, <2>1, <3>2
  <2>2. CASE d # e
    <3>1. held'[d] = held[d] /\ child[d] = "gcc writes"
      BY <1>7, <2>2, OthersKept DEF Kept
    <3> QED
      BY <1>1, <1>4, <3>1, NewFile DEF Apart
  <2> QED
    BY <2>1, <2>2
<1>8. ASSUME NEW d \in Drivers, stage'[d] = "writing"
      PROVE  held'[d] # NoFile /\ held'[d] # dir'[".i"]
  <2>1. CASE d = e
    <3>1. Truncate(e, ".s")
      BY <1>8, <2>1, Writers
    <3>2. held'[e] = dir'[".s"] /\ dir'[".s"] # NoFile
      BY <1>1, <1>2, <3>1, NewFile DEF Truncate, Exists, Typed, TypeOK
    <3> QED
      BY <1>1, <1>5, <2>1, <3>2
  <2>2. CASE d # e
    <3>1. held'[d] = held[d] /\ stage[d] = "writing"
      BY <1>8, <2>2, OthersKept DEF Kept
    <3> QED
      BY <1>1, <1>4, <3>1, NewFile DEF Apart
  <2> QED
    BY <2>1, <2>2
<1> QED
  BY <1>5, <1>6, <1>7, <1>8 DEF Apart, Exists

-----------------------------------------------------------------------------
(* The files of a run that is alone. *)

LEMMA FinishedFile ==
  ASSUME FilesTyped, NEW e \in Drivers, NEW p \in Path, NEW t \in Text, Finish(e, t),
         held[e] # NoFile, held[e] = dir[p]
  PROVE  Content(p)' = t
<1>1. dir[p] \in 1..Len(data) /\ Exists(p)
  BY ContentTyped DEF Exists
<1>2. DOMAIN data = 1..Len(data)
  BY LenProperties DEF FilesTyped
<1>3. data'[dir[p]] = t
  BY <1>1, <1>2 DEF Finish, FilesTyped
<1>4. dir' = dir
  BY DEF Finish
<1> QED
  BY <1>1, <1>3, <1>4 DEF Content, Exists

LEMMA LinkedFile ==
  ASSUME FilesTyped, NEW t \in Text, data' = Append(data, t),
         dir' = [dir EXCEPT !["exe"] = Len(data) + 1]
  PROVE  Content("exe")' = t
<1>1. dir'["exe"] = Len(data) + 1
  BY DEF FilesTyped, Path
<1>2. data'[Len(data) + 1] = t
  BY AppendProperties DEF FilesTyped
<1>3. Len(data) + 1 # NoFile
  BY NewFile
<1> QED
  BY <1>1, <1>2, <1>3 DEF Content, Exists

(* The steps after which the text of a run is judged. *)
LEMMA PreprocessingStep ==
  ASSUME Typed, Apart, NEW e \in Drivers, RunOK(e), Preprocessing(e),
         Main(e) \/ ChildProcess(e)
  PROVE  Preprocessing(e)'
<1>1. FilesTyped /\ child \in [Drivers -> Child] /\ stage \in [Drivers -> Stage]
  BY DEF Typed, TypeOK, FilesTyped
<1>2. child'[e] = "gcc writes" => held'[e] = dir'[".i"]
  BY <1>1, Writers DEF Truncate, Exists, FilesTyped, Path
<1>3. ASSUME stage'[e] = "preprocessing" /\ child'[e] = "exit 0"
      PROVE  Content(".i")' = "whole"
  <2>1. CASE Main(e)
    BY <1>1, <1>3, <2>1, MainReaches DEF Preprocess, Fork
  <2>2. CASE ChildProcess(e)
    <3>1. GccPreprocesses(e)
      BY <1>1, <1>3, <2>2, ChildRuns
      DEF ChildProcess, Exec, ExecFails, ChildMain, ChildMainCleans, GccOpens, GccAssembles,
          GccLinks, GccFails, GccKilled, ChildReturns, ChildIs, InChild, RunOK, MainWaits
    <3>2. held[e] = dir[".i"] /\ held[e] # NoFile /\ Finish(e, "whole")
      BY <3>1 DEF GccPreprocesses, InChild, Preprocessing, Apart
    <3> QED
      BY <1>1, <3>2, FinishedFile DEF Path, Text
  <2> QED
    BY <2>1, <2>2
<1>4. ASSUME stage'[e] = "open"
      PROVE  Content(".i")' = "whole"
  <2>1. Preprocessed(e)
    BY <1>4, MainReaches, ChildRuns
  <2>2. Content(".i") = "whole" /\ UNCHANGED files
    BY <2>1 DEF Preprocessed, Waited, At, Preprocessing
  <2> QED
    BY <2>2 DEF Content, Exists, files
<1>5. ASSUME stage'[e] = "clean .s"
      PROVE  ~Exists(".i")'
  <2>1. CleanPreprocessed(e)
    BY <1>5, MainReaches, ChildRuns
  <2> QED
    BY <1>1, <2>1 DEF CleanPreprocessed, Remove, Exists, FilesTyped, Path
<1> QED
  BY <1>2, <1>3, <1>4, <1>5 DEF Preprocessing

LEMMA AssemblyStep ==
  ASSUME Typed, Apart, NEW e \in Drivers, RunOK(e), Assembly(e), Main(e) \/ ChildProcess(e)
  PROVE  Assembly(e)'
<1>1. FilesTyped /\ child \in [Drivers -> Child] /\ stage \in [Drivers -> Stage]
  BY DEF Typed, TypeOK, FilesTyped
<1>2. stage'[e] = "writing" => held'[e] = dir'[".s"]
  BY <1>1, Writers, ZenonT(60) DEF Truncate, Exists, FilesTyped, Path
<1> SUFFICES ASSUME "write" \notin faults'[e]
             PROVE  /\ \/ stage'[e] = "stop" /\ asked'[e] = {"assemble_only"}
                       \/ stage'[e] = "link"
                       \/ stage'[e] = "linking" /\ child'[e] \in {"forked", "gcc"}
                       => Content(".s")' = "whole"
                    /\ child'[e] = "gcc links" => text'[e] = "whole"
                    /\ stage'[e] \in {"linking", "clean .i", "clean .s"} /\ child'[e] = "exit 0" =>
                         Content("exe")' = "whole"
  BY <1>2 DEF Assembly
<1>3. "write" \notin faults[e]
  BY FaultsGrow
<1>4. WriteAsm(e) => Content(".s")' = "whole"
  <2> SUFFICES ASSUME WriteAsm(e) PROVE Content(".s")' = "whole"
    OBVIOUS
  <2>1. held[e] # NoFile /\ held[e] = dir[".s"] /\ Finish(e, "whole")
    BY DEF WriteAsm, At, Assembly, Apart
  <2> QED
    BY <1>1, <2>1, FinishedFile DEF Path, Text
<1>5. ~WriteAsmShort(e)
  <2>1. "write" \notin faults'[e]
    OBVIOUS
  <2> QED
    BY <2>1 DEF WriteAsmShort, Suffer, Typed
<1>6. ASSUME stage'[e] = "stop", asked'[e] = {"assemble_only"}
      PROVE  Content(".s")' = "whole"
  <2>1. \/ Lex(e) \/ Parse(e) \/ Analyse(e) \/ MakeTacky(e) \/ Generate(e) \/ WriteAsm(e)
    BY <1>5, <1>6, MainReaches, ChildRuns
  <2>2. ~Lex(e) /\ ~Parse(e) /\ ~Analyse(e) /\ ~MakeTacky(e) /\ ~Generate(e)
    <3>1. ASSUME NEW to, to # "stop", NEW option, option # "assemble_only",
                 Advance(e, to, option), asked' = asked
          PROVE  FALSE
      BY <1>1, <1>6, <3>1 DEF Advance, GoTo
    <3> QED
      BY <3>1 DEF Lex, Parse, Analyse, MakeTacky, Generate, Passes, given
  <2> QED
    BY <1>4, <2>1, <2>2
<1>7. ASSUME stage'[e] = "link"
      PROVE  Content(".s")' = "whole"
  BY <1>4, <1>5, <1>7, MainReaches, ChildRuns
<1>8. ASSUME stage'[e] = "linking", child'[e] \in {"forked", "gcc"}
      PROVE  Content(".s")' = "whole"
  <2>1. Link(e) \/ Exec(e)
    BY <1>1, <1>8, MainReaches
    DEF ChildProcess, ExecFails, ChildMain, ChildMainCleans, GccOpens, GccPreprocesses,
        GccAssembles, GccLinks, GccFails, GccKilled, ChildReturns, ChildIs
  <2>2. UNCHANGED files
    BY <2>1 DEF Link, Fork, Exec
  <2>3. CASE Link(e)
    BY <1>3, <2>2, <2>3 DEF Link, Fork, At, Assembly, Content, Exists, files
  <2>4. CASE Exec(e)
    BY <1>3, <1>8, <2>2, <2>4
    DEF Exec, InChild, ChildOnly, Assembly, Content, Exists, files
  <2> QED
    BY <2>1, <2>3, <2>4
<1>9. ASSUME child'[e] = "gcc links"
      PROVE  text'[e] = "whole"
  <2>1. ChildProcess(e)
    BY <1>9, MainAwaits
  <2>2. GccAssembles(e)
    BY <1>1, <1>9, <2>1
    DEF ChildProcess, Exec, ExecFails, ChildMain, ChildMainCleans, GccOpens, GccPreprocesses,
        GccLinks, GccFails, GccKilled, ChildReturns, ChildIs
  <2>3. text' = [text EXCEPT ![e] = Content(".s")]
    BY <1>1, <1>9, <2>2 DEF GccAssembles, ChildIs
  <2>4. Content(".s") = "whole"
    BY <1>3, <2>2 DEF GccAssembles, InChild, Assembly
  <2> QED
    BY <2>3, <2>4 DEF Typed, TypeOK
<1>10. ASSUME stage'[e] \in {"linking", "clean .i", "clean .s"}, child'[e] = "exit 0"
       PROVE  Content("exe")' = "whole"
  <2>1. CASE Main(e)
    <3>1. Linked(e) \/ CleanPreprocessed(e)
      BY <1>1, <1>10, <2>1, MainReaches DEF Link, Fork, LinkForkFails, ChildIs
    <3>2. stage[e] \in {"linking", "clean .i"} /\ child[e] = "exit 0"
      BY <1>10, <3>1 DEF Linked, Waited, CleanPreprocessed, At
    <3>3. data' = data /\ dir'["exe"] = dir["exe"]
      BY <1>1, <3>1 DEF Linked, CleanPreprocessed, Remove, files, FilesTyped, Path
    <3> QED
      BY <1>3, <3>2, <3>3 DEF Assembly, Content, Exists
  <2>2. CASE ChildProcess(e)
    <3>1. GccLinks(e)
      BY <1>1, <1>10, <2>2, ChildRuns
      DEF ChildProcess, Exec, ExecFails, ChildMain, ChildMainCleans, GccOpens, GccPreprocesses,
          GccAssembles, GccFails, GccKilled, ChildReturns, ChildIs, InChild, RunOK, MainWaits
    <3>2. text[e] = "whole"
      BY <1>3, <3>1 DEF GccLinks, InChild, Assembly
    <3>3. data' = Append(data, "whole") /\ dir' = [dir EXCEPT !["exe"] = Len(data) + 1]
      BY <3>1, <3>2 DEF GccLinks
    <3> QED
      BY <1>1, <3>3, LinkedFile DEF Text
  <2> QED
    BY <2>1, <2>2
<1> QED
  BY <1>6, <1>7, <1>8, <1>9, <1>10

LEMMA AloneStep ==
  ASSUME Typed, Local, Apart, Overlaps, Alone, NEW e \in Drivers, Main(e) \/ ChildProcess(e),
         Local'
  PROVE  Alone'
<1> SUFFICES ASSUME NEW d \in Drivers, "overlap" \notin faults'[d]
             PROVE  Preprocessing(d)' /\ Assembly(d)'
  BY DEF Alone
<1>1. RunOK(d) /\ RunOK(e) /\ RunOK(d)'
  BY DEF Local
<1>2. CASE d = e
  BY <1>1, <1>2, FaultsGrow, PreprocessingStep, AssemblyStep DEF Alone
<1>3. CASE d # e
  <2>1. ~InProgress(d)
    BY <1>1, <1>3, OthersIdle
  <2>2. stage'[d] \in {"start", "ended"}
    BY <1>3, <2>1, OthersKept DEF Kept, InProgress
  <2> QED
    BY <1>1, <2>2 DEF RunOK, MainWaits, Preprocessing, Assembly
<1> QED
  BY <1>2, <1>3

-----------------------------------------------------------------------------
(* The executable. *)

(* Writing a file leaves the files at other paths alone. *)
LEMMA TruncateKeeps ==
  ASSUME FilesTyped, Apart, NEW e \in Drivers, NEW p \in Path, NEW q \in Path, p # q,
         Truncate(e, p)
  PROVE  Content(q)' = Content(q)
<1>1. dir'[q] = dir[q]
  BY DEF Truncate, FilesTyped
<1>2. Exists(q) => dir[q] \in 1..Len(data) /\ DOMAIN data = 1..Len(data)
  BY ContentTyped, LenProperties DEF FilesTyped
<1>3. Exists(q) /\ Exists(p) => dir[q] # dir[p]
  BY DEF Apart
<1>4. Exists(q) => data'[dir[q]] = data[dir[q]]
  <2>1. CASE Exists(p)
    BY <1>2, <1>3, <2>1 DEF Truncate
  <2>2. CASE ~Exists(p)
    BY <1>2, <2>2, AppendProperties DEF Truncate, FilesTyped, Text
  <2> QED
    BY <2>1, <2>2
<1> QED
  BY <1>1, <1>4 DEF Content, Exists

LEMMA FinishKeeps ==
  ASSUME FilesTyped, NEW e \in Drivers, NEW t \in Text, NEW q \in Path, Finish(e, t),
         Exists(q) => held[e] # dir[q]
  PROVE  Content(q)' = Content(q)
<1>1. Exists(q) => dir[q] \in DOMAIN data
  BY ContentTyped, LenProperties DEF FilesTyped
<1> QED
  BY <1>1 DEF Finish, Content, Exists

(* Only gcc's link step makes one: no other file is at its path. *)
LEMMA ExecutableKept ==
  ASSUME Typed, Apart, NEW e \in Drivers, FileStep(e), ~GccLinks(e)
  PROVE  Content("exe")' \in {Content("exe"), "none"}
<1>1. FilesTyped /\ {".i", ".s", "exe"} \subseteq Path
  BY DEF Typed, TypeOK, FilesTyped, Path
<1>2. CASE UNCHANGED files
  BY <1>2 DEF files, Content, Exists
<1>3. ASSUME NEW p \in Path, Remove(p)
      PROVE  Content("exe")' \in {Content("exe"), "none"}
  BY <1>1, <1>3 DEF Remove, Content, Exists, FilesTyped
<1>4. ASSUME NEW t \in Text, Finish(e, t)
      PROVE  Content("exe")' = Content("exe")
  <2>1. Exists("exe") => held[e] # dir["exe"]
    BY DEF Apart, Exists
  <2> QED
    BY <1>1, <1>4, <2>1, FinishKeeps
<1>5. ASSUME NEW p \in {".i", ".s"}, Truncate(e, p)
      PROVE  Content("exe")' = Content("exe")
  BY <1>1, <1>5, TruncateKeeps
<1> QED
  BY <1>2, <1>3, <1>4, <1>5 DEF FileStep

LEMMA ExecutableStep ==
  ASSUME Typed, Apart, Alone, ExecutableIsSound, NEW e \in Drivers, RunOK(e),
         Main(e) \/ ChildProcess(e)
  PROVE  ExecutableIsSound'
<1>1. FileStep(e) /\ FilesTyped /\ input' = input
  BY FileSteps, RunTypes DEF given, Typed, TypeOK, FilesTyped
<1>2. \A d \in Drivers : faults[d] \subseteq faults'[d]
  BY FaultsGrow
<1>3. CASE ~GccLinks(e)
  <2>1. Made("exe")' => Made("exe") /\ Content("exe")' = Content("exe")
    BY <1>1, <1>3, ExecutableKept DEF Made
  <2> QED
    BY <1>1, <1>2, <2>1 DEF ExecutableIsSound
<1>4. CASE GccLinks(e)
  <2>1. stage[e] = "linking" /\ child[e] = "gcc links"
    BY <1>4 DEF GccLinks, InChild, RunOK, MainWaits
  <2>2. input = "valid"
    BY <2>1 DEF RunOK, Judged
  <2>3. text[e] = "whole" \/ faults[e] \cap {"write", "overlap"} # {}
    BY <2>1 DEF Alone, Assembly
  <2>4. text[e] = "whole" => Content("exe")' = "whole"
    BY <1>1, <1>4, LinkedFile DEF GccLinks, Text
  <2> QED
    BY <1>1, <1>2, <2>2, <2>3, <2>4 DEF ExecutableIsSound
<1> QED
  BY <1>3, <1>4

-----------------------------------------------------------------------------
(* Who is to remove a file that was made. *)

(* The run that makes a file will remove it, or was asked for it, *)
LEMMA MakerRemoves ==
  ASSUME Typed, Apart, NEW e \in Drivers, RunOK(e), Main(e) \/ ChildProcess(e),
         NEW p \in {".i", ".s"}, Made(p)', ~Made(p)
  PROVE  WillRemove(e, p)'
<1>1. /\ FilesTyped /\ {".i", ".s", "exe"} \subseteq Path
      /\ child \in [Drivers -> Child] /\ stage \in [Drivers -> Stage]
      /\ asked \in [Drivers -> SUBSET Option]
  BY DEF Typed, TypeOK, FilesTyped, Path
<1>2. Content(p)' # Content(p) /\ Content(p)' # "none"
  BY DEF Made
<1>3. ~UNCHANGED files
  BY <1>2 DEF files, Content, Exists
<1>4. \A q \in Path : ~Remove(q)
  BY <1>1, <1>2 DEF Remove, Content, Exists, FilesTyped
<1>5. \/ OpenAsm(e) \/ WriteAsm(e) \/ WriteAsmShort(e)
      \/ GccOpens(e) \/ GccPreprocesses(e) \/ GccLinks(e)
  BY <1>1, <1>3, <1>4
  DEF Main, Start, WrongExtension, Preprocess, Link, Fork, PreprocessFails, Preprocessed,
      CannotOpen, StopPreprocessed, ReadSource, LexError, Lex, Abort, Crash, Parse, Analyse,
      MakeTacky, Generate, Passes, StopEarly, CannotOpenAsm, LinkForkFails, Linked,
      CleanPreprocessed, CleanAsm, Return, Continue, ChildProcess, Exec, ExecFails, ChildMain,
      ChildMainCleans, GccAssembles, GccFails, GccKilled
<1>6. CASE OpenAsm(e)
  BY <1>1, <1>6 DEF OpenAsm, Continue, GoTo, WillRemove
<1>7. CASE WriteAsm(e) \/ WriteAsmShort(e)
  <2>1. stage[e] = "writing" /\ Advance(e, "link", "assemble_only") /\ UNCHANGED given
    BY <1>7 DEF WriteAsm, WriteAsmShort, At
  <2>2. "assemble_only" \in asked[e] => Delivers(asked[e]) = ".s"
    BY <1>1, <2>1 DEF RunOK, Goes, NotAsked, Option, Delivers
  <2>3. stage'[e] = "link" \/ (stage'[e] = "stop" /\ "assemble_only" \in asked[e])
    BY <1>1, <2>1 DEF Advance, GoTo
  <2> QED
    BY <2>1, <2>2, <2>3 DEF WillRemove, given
<1>8. CASE GccOpens(e)
  <2>1. Truncate(e, ".i") /\ child'[e] = "gcc writes" /\ stage'[e] = "preprocessing"
    BY <1>1, <1>8 DEF GccOpens, ChildIs, ChildOnly
  <2>2. p = ".i"
    BY <1>1, <1>2, <2>1, TruncateKeeps
  <2> QED
    BY <2>1, <2>2 DEF WillRemove
<1>9. CASE GccPreprocesses(e)
  <2>1. /\ Finish(e, "whole") /\ child[e] = "gcc writes" /\ child'[e] = "exit 0"
        /\ stage'[e] = "preprocessing"
    BY <1>1, <1>9 DEF GccPreprocesses, InChild, ChildIs, ChildOnly, RunOK, MainWaits
  <2>2. p = ".i"
    BY <1>1, <1>2, <2>1, FinishKeeps DEF Apart, Text
  <2> QED
    BY <2>1, <2>2 DEF WillRemove
<1>10. CASE GccLinks(e)
  BY <1>10 DEF GccLinks, InChild, ChildOnly, RunOK, MainWaits, WillRemove
<1> QED
  BY <1>5, <1>6, <1>7, <1>8, <1>9, <1>10

(* and it stays so until the file is removed. *)
LEMMA RemovedFile ==
  ASSUME FilesTyped, NEW p \in Path, Remove(p)
  PROVE  ~Made(p)'
BY DEF FilesTyped, Remove, Made, Content, Exists

LEMMA MissingFile ==
  ASSUME NEW p \in Path, ~Exists(p), UNCHANGED files
  PROVE  ~Made(p)'
BY DEF Made, Content, Exists, files

LEMMA RemoverStays ==
  ASSUME Typed, NEW e \in Drivers, RunOK(e), Main(e) \/ ChildProcess(e),
         NEW p \in {".i", ".s"}, WillRemove(e, p), Made(p)'
  PROVE  WillRemove(e, p)'
<1>1. /\ FilesTyped /\ {".i", ".s"} \subseteq Path
      /\ child \in [Drivers -> Child] /\ stage \in [Drivers -> Stage]
      /\ result \in [Drivers -> Result] /\ faults \in [Drivers -> SUBSET Fault]
      /\ asked \in [Drivers -> SUBSET Option]
  BY DEF Typed, TypeOK, FilesTyped, Path
<1>2. UNCHANGED given /\ faults[e] \subseteq faults'[e]
  BY FaultsGrow, RunTypes
<1>3. ASSUME p = ".i", faults[e] \cap {"pp file", "asm file", "signal"} # {}
      PROVE  WillRemove(e, p)'
  BY <1>2, <1>3 DEF WillRemove, given
<1>4. ASSUME p = ".i", result[e] \in {"abort", "crash"}
      PROVE  WillRemove(e, p)'
  <2>1. stage[e] = "ended"
    BY <1>4 DEF RunOK, RunsToEnd
  <2>2. ~Main(e)
    BY <1>4
    DEF Main, Start, WrongExtension, Preprocess, Link, Fork, PreprocessFails, Preprocessed,
        CannotOpen, StopPreprocessed, ReadSource, LexError, Lex, Abort, Crash, Parse, Analyse,
        MakeTacky, Generate, Passes, StopEarly, OpenAsm, CannotOpenAsm, WriteAsm,
        WriteAsmShort, LinkForkFails, Linked, CleanPreprocessed, CleanAsm, Waited, At
  <2> QED
    BY <2>1, <2>2, ChildRuns
<1>5. ASSUME p = ".i",
             \/ stage[e] \in {"open", "lex", "parse", "analyse", "tacky", "codegen", "write",
                              "writing", "stop", "link", "linking", "clean .i"}
             \/ stage[e] = "preprocessing" /\ child[e] \in {"gcc writes", "exit 0"}
      PROVE  WillRemove(e, p)'
  <2>1. ~Remove(".i")
    BY <1>1, <1>5, RemovedFile
  <2>2. UNCHANGED files => Exists(".i")
    BY <1>1, <1>5, MissingFile
  <2>3. CASE Main(e)
    <3>1. /\ ~LexError(e) /\ ~StopEarly(e) /\ ~CleanPreprocessed(e)
      BY <2>1 DEF LexError, StopEarly, CleanPreprocessed
    <3>2. StopPreprocessed(e) => Delivers(asked[e]) = ".i"
      BY DEF StopPreprocessed, Delivers
    <3>3. /\ CannotOpenAsm(e) => "asm file" \in faults'[e]
          /\ CannotOpen(e) => "pp file" \in faults'[e]
      <4>1. CannotOpenAsm(e) => Suffer(e, "asm file")
        BY DEF CannotOpenAsm
      <4>2. CannotOpen(e) => Suffer(e, "pp file")
        BY <2>2 DEF CannotOpen
      <4> QED
        BY <1>1, <4>1, <4>2 DEF Suffer
    <3>4. Abort(e) \/ Crash(e) => result'[e] \in {"abort", "crash"}
      BY <1>1 DEF Abort, Crash, Exit
    <3>5. \/ StopPreprocessed(e) \/ CannotOpen(e) \/ CannotOpenAsm(e) \/ Abort(e) \/ Crash(e)
          \/ stage'[e] \in {"open", "lex", "parse", "analyse", "tacky", "codegen", "write",
                            "writing", "stop", "link", "linking", "clean .i"}
      <4>1. \/ StopPreprocessed(e) \/ CannotOpen(e) \/ CannotOpenAsm(e) \/ Abort(e) \/ Crash(e)
            \/ Preprocessed(e) \/ ReadSource(e) \/ Lex(e) \/ Parse(e) \/ Analyse(e)
            \/ MakeTacky(e) \/ Generate(e) \/ OpenAsm(e) \/ WriteAsm(e) \/ WriteAsmShort(e)
            \/ Link(e) \/ LinkForkFails(e) \/ Linked(e)
        BY <1>5, <2>3, <3>1
        DEF Main, Start, WrongExtension, Preprocess, Fork, PreprocessFails, CleanAsm, Waited, Ended, At
      <4> QED
        BY <1>1, <4>1
        DEF Preprocessed, ReadSource, Lex, Parse, Analyse, MakeTacky, Generate, Passes, OpenAsm,
            WriteAsm, WriteAsmShort, Link, Fork, LinkForkFails, Linked, Continue, Advance, GoTo
    <3> QED
      BY <1>2, <1>5, <3>2, <3>3, <3>4, <3>5 DEF WillRemove, given
  <2>4. CASE ChildProcess(e)
    <3>1. stage' = stage
      BY <2>4, ChildRuns
    <3>2. CASE stage[e] = "preprocessing"
      <4>1. child[e] = "gcc writes"
        BY <1>5, <2>4, <3>2, ChildRuns
      <4>2. GccPreprocesses(e) \/ GccKilled(e)
        BY <1>1, <2>1, <2>4, <4>1
        DEF ChildProcess, Exec, ExecFails, ChildMain, ChildMainCleans, GccOpens, GccAssembles,
            GccLinks, GccFails, InChild
      <4>3. child'[e] = "exit 0" \/ "signal" \in faults'[e]
        BY <1>1, <4>2 DEF GccPreprocesses, GccKilled, ChildIs, Suffer
      <4> QED
        BY <1>5, <3>1, <3>2, <4>3 DEF WillRemove
    <3> QED
      BY <1>5, <3>1, <3>2 DEF WillRemove
  <2> QED
    BY <2>3, <2>4
<1>6. ASSUME p = ".s", stage[e] \in {"writing", "link", "linking", "clean .i", "clean .s"}
      PROVE  WillRemove(e, p)'
  <2>1. ~Remove(".s")
    BY <1>1, <1>6, RemovedFile
  <2>2. CASE Main(e)
    <3>1. ~CleanAsm(e)
      BY <2>1 DEF CleanAsm
    <3>2. CASE WriteAsm(e) \/ WriteAsmShort(e)
      <4>1. stage[e] = "writing" /\ Advance(e, "link", "assemble_only")
        BY <3>2 DEF WriteAsm, WriteAsmShort, At
      <4>2. "assemble_only" \in asked[e] => Delivers(asked[e]) = ".s"
        BY <1>1, <4>1 DEF RunOK, Goes, NotAsked, Option, Delivers
      <4>3. stage'[e] = "link" \/ "assemble_only" \in asked[e]
        BY <1>1, <4>1 DEF Advance, GoTo
      <4> QED
        BY <1>2, <1>6, <4>2, <4>3 DEF WillRemove, given
    <3>3. CASE ~WriteAsm(e) /\ ~WriteAsmShort(e)
      <4>1. Link(e) \/ LinkForkFails(e) \/ Linked(e) \/ CleanPreprocessed(e)
        BY <1>6, <2>2, <3>1, <3>3
        DEF Main, Start, WrongExtension, Preprocess, Fork, PreprocessFails, Preprocessed,
            CannotOpen, StopPreprocessed, ReadSource, LexError, Lex, Abort, Crash, Parse, Analyse,
            MakeTacky, Generate, Passes, StopEarly, OpenAsm, CannotOpenAsm, Waited, At
      <4> QED
        BY <1>1, <1>6, <4>1
        DEF Link, Fork, LinkForkFails, Linked, CleanPreprocessed, Continue, GoTo, WillRemove
    <3> QED
      BY <3>2, <3>3
  <2>3. CASE ChildProcess(e)
    BY <1>6, <2>3, ChildRuns DEF WillRemove
  <2> QED
    BY <2>2, <2>3
<1>7. Delivers(asked[e]) = p => WillRemove(e, p)'
  BY <1>2 DEF WillRemove, given
<1> QED
  BY <1>3, <1>4, <1>5, <1>6, <1>7 DEF WillRemove

LEMMA AccountedStep ==
  ASSUME Typed, Apart, Accounted, NEW e \in Drivers, RunOK(e), Main(e) \/ ChildProcess(e)
  PROVE  Accounted'
<1> SUFFICES ASSUME NEW p \in {".i", ".s"}, Made(p)'
             PROVE  \E d \in Drivers : WillRemove(d, p)'
  BY DEF Accounted
<1>1. CASE Made(p)
  <2>1. PICK d \in Drivers : WillRemove(d, p)
    BY <1>1 DEF Accounted
  <2>2. CASE d = e
    BY <2>1, <2>2, RemoverStays
  <2>3. CASE d # e
    BY <2>1, <2>3, OthersKept DEF Kept, WillRemove, given
  <2> QED
    BY <2>2, <2>3
<1>2. CASE ~Made(p)
  BY <1>2, MakerRemoves
<1> QED
  BY <1>1, <1>2

-----------------------------------------------------------------------------
(* No run has started, and the files of earlier ones are three at most. *)
LEMMA InitEstablishes == Init => IInv
<1> SUFFICES ASSUME Init PROVE IInv
  OBVIOUS
<1> USE DEF Init, NotStarted
<1>1. data \in Seq(Text) /\ Len(data) = 3 /\ \A i \in 1..3 : data[i] = "old"
  BY DEF Text
<1>2. dir \in [Path -> 0..3] /\ \A p, q \in Path : dir[p] # 0 /\ dir[p] = dir[q] => p = q
  BY DEF Path
<1>3. \A p \in Path : Content(p) \in {"none", "old"}
  <2>1. \A n \in 0..3 : n # 0 => n \in 1..3
    OBVIOUS
  <2> QED
    BY <1>1, <1>2, <2>1 DEF Content, Exists, NoFile
<1>4. Typed
  BY <1>1, <1>2 DEF Typed, TypeOK, NoFile, Stage, Result, Child, Text
<1>5. Local
  <2> SUFFICES ASSUME NEW d \in Drivers PROVE RunOK(d)
    BY DEF Local
  <2>1. NotAsked("start") = {}
    BY DEF NotAsked
  <2>2. stage[d] = "start" /\ result[d] = "running" /\ child[d] = "none"
    OBVIOUS
  <2>3. listing[d] = 0 /\ printed[d] = 0 /\ printed[d] <= 1
    OBVIOUS
  <2>4. RunsToEnd(d) /\ MainWaits(d) /\ Judged(d)
    BY <2>2 DEF RunsToEnd, MainWaits, Judged, InProgress
  <2>5. ListedBy(d)
    BY <2>2, <2>3 DEF ListedBy
  <2>6. Goes(d)
    BY <2>1, <2>2 DEF Goes
  <2> QED
    BY <2>4, <2>5, <2>6 DEF RunOK
<1>6. Apart
  BY <1>2 DEF Apart, Exists, NoFile
<1>7. Overlaps /\ Alone
  BY DEF Overlaps, Alone, Preprocessing, Assembly, InProgress
<1>8. Accounted /\ ExecutableIsSound
  BY <1>3 DEF Accounted, ExecutableIsSound, Made, Path
<1> QED
  BY <1>4, <1>5, <1>6, <1>7, <1>8 DEF IInv

LEMMA LocalStep ==
  ASSUME Typed, Local, NEW e \in Drivers, Main(e) \/ ChildProcess(e)
  PROVE  Local'
<1> SUFFICES ASSUME NEW d \in Drivers PROVE RunOK(d)'
  BY DEF Local
<1>1. RunOK(d) /\ RunOK(e)
  BY DEF Local
<1>2. CASE d = e
  BY <1>1, <1>2, RunSteps
<1>3. CASE d # e
  BY <1>1, <1>3, OthersKept, RunKept
<1> QED
  BY <1>2, <1>3

(* Every step of every run keeps the invariant. *)
LEMMA NextPreserves == IInv /\ [Next]_vars => IInv'
<1> SUFFICES ASSUME IInv, [Next]_vars PROVE IInv'
  OBVIOUS
<1>1. ASSUME NEW e \in Drivers, Main(e) \/ ChildProcess(e)
      PROVE  IInv'
  <2>1. Typed /\ Local /\ Apart /\ Overlaps /\ Alone /\ Accounted /\ ExecutableIsSound /\ RunOK(e)
    BY DEF IInv, Local
  <2>2. Typed' /\ Local'
    BY <1>1, <2>1, TypedStep, LocalStep
  <2>3. Apart' /\ Overlaps'
    BY <1>1, <2>1, ApartStep, OverlapsStep
  <2>4. Alone'
    BY <1>1, <2>1, <2>2, AloneStep
  <2>5. Accounted' /\ ExecutableIsSound'
    BY <1>1, <2>1, AccountedStep, ExecutableStep
  <2> QED
    BY <2>2, <2>3, <2>4, <2>5 DEF IInv
<1>2. CASE UNCHANGED vars
  <2> USE <1>2 DEF vars, given, files, output
  <2>1. Typed' /\ Local'
    BY DEF IInv, Typed, TypeOK, Local, RunOK, RunsToEnd, MainWaits, ListedBy, Ended, Goes, Judged,
           InProgress, Cut
  <2>2. Apart' /\ Overlaps'
    BY DEF IInv, Apart, Overlaps, Exists, InProgress
  <2>3. Alone'
    BY DEF IInv, Alone, Preprocessing, Assembly, Content, Exists
  <2>4. Accounted' /\ ExecutableIsSound'
    BY DEF IInv, Accounted, WillRemove, ExecutableIsSound, Made, Content, Exists
  <2> QED
    BY <2>1, <2>2, <2>3, <2>4 DEF IInv
<1> QED
  BY <1>1, <1>2 DEF Next

(* The inductive invariant holds of every reachable state, for any number  *)
(* of runs with any options.                                               *)
THEOREM Inductive == Spec => []IInv
BY InitEstablishes, NextPreserves, PTL DEF Spec

(* Every variable always has its type: a path never names a file that is   *)
(* not there, main never writes to one that it has not opened, and no run  *)
(* writes the listing more than twice.                                     *)
THEOREM TypesHold == Spec => []TypeOK
<1>1. IInv => TypeOK
  BY DEF IInv, Typed
<1> QED
  BY <1>1, Inductive, PTL

(* However many runs there are and however they overlap, the intermediate  *)
(* files that are left when all have returned are those that a run was     *)
(* asked for, on every path of main but those that do not clean up.      *)
THEOREM NothingLeft == Spec => []NothingLeftBehind
<1>1. IInv => NothingLeftBehind
  <2> SUFFICES ASSUME IInv,
                      \A d \in Drivers : /\ result[d] \in {"success", "failure"}
                                          /\ faults[d] \cap {"pp file", "asm file", "signal"} = {},
                      NEW p \in {".i", ".s"}, Made(p)
               PROVE  \E d \in Drivers : Delivers(asked[d]) = p
    BY DEF NothingLeftBehind
  <2>1. PICK d \in Drivers : WillRemove(d, p)
    BY DEF IInv, Accounted
  <2>2. stage[d] = "ended"
    BY DEF IInv, Local, RunOK, RunsToEnd
  <2> QED
    BY <2>1, <2>2 DEF WillRemove
<1> QED
  BY <1>1, Inductive, PTL

(* No run, however it overlaps others, makes an executable of an invalid   *)
(* program, and one made of a part of the assembly needs a failed write or *)
(* an overlap.                                                             *)
THEOREM ExecutablesHold == Spec => []ExecutableIsSound
<1>1. IInv => ExecutableIsSound
  BY DEF IInv
<1> QED
  BY <1>1, Inductive, PTL
-----------------------------------------------------------------------------
(* A run that returns 0. *)

(* It has been stopped by an option, or has linked. *)
LEMMA Succeeds ==
  ASSUME Typed, NEW e \in Drivers, RunOK(e), Main(e) \/ ChildProcess(e), NEW d \in Drivers,
         result[d] = "running", result'[d] = "success"
  PROVE  /\ d = e /\ UNCHANGED <<given, faults>>
         /\ StopPreprocessed(d) \/ StopEarly(d) \/ (CleanAsm(d) /\ child[d] = "exit 0")
<1>1. result \in [Drivers -> Result]
  BY DEF Typed, TypeOK
<1>2. d = e
  BY OthersKept DEF Kept
<1>3. ~ChildProcess(e)
  BY <1>2, ChildRuns
<1>4. StopPreprocessed(e) \/ StopEarly(e) \/ (CleanAsm(e) /\ child[e] = "exit 0")
  BY <1>1, <1>2, <1>3
  DEF Main, Start, WrongExtension, Preprocess, Link, Fork, PreprocessFails, Preprocessed,
      CannotOpen, ReadSource, LexError, Lex, Abort, Crash, Parse, Analyse, MakeTacky, Generate, Passes,
      OpenAsm, CannotOpenAsm, WriteAsm, WriteAsmShort, LinkForkFails, Linked,
      CleanPreprocessed, CleanAsm, Return, Exit, Continue
<1> QED
  BY <1>2, <1>4 DEF StopPreprocessed, StopEarly, CleanAsm, Return

LEMMA RemoveKeeps ==
  ASSUME FilesTyped, NEW p \in Path, NEW q \in Path, Remove(p)
  PROVE  ~Exists(p)' /\ (q # p => Content(q)' = Content(q) /\ (Made(q)' => Made(q)))
BY DEF FilesTyped, Remove, Made, Content, Exists

LEMMA StopDelivers ==
  ASSUME IInv, NEW d \in Drivers, StopEarly(d), UNCHANGED <<given, faults>>,
         faults[d] \cap {"write", "overlap"} = {}
  PROVE  Delivered(d)'
<1>1. /\ FilesTyped /\ {".i", ".s"} \subseteq Path /\ RunOK(d)
      /\ asked[d] \in SUBSET Option /\ asked' = asked
  BY DEF IInv, Typed, TypeOK, FilesTyped, Path, Local, given
<1>2. stage[d] = "stop" /\ Remove(".i")
  BY DEF StopEarly, At
<1>3. NotAsked("stop") = {"preprocess_only"}
  BY DEF NotAsked
<1>4. "preprocess_only" \notin asked[d] /\ asked[d] # {}
  BY <1>1, <1>2, <1>3 DEF RunOK, Goes
<1>5. ~Exists(".i")' /\ Content(".s")' = Content(".s") /\ (Made(".s")' => Made(".s"))
  BY <1>1, <1>2, RemoveKeeps
<1>6. CASE asked[d] = {"assemble_only"}
  <2>1. Content(".s") = "whole"
    BY <1>2, <1>6 DEF IInv, Alone, Assembly
  <2>2. Delivers(asked'[d]) = ".s"
    BY <1>1, <1>6 DEF Delivers
  <2> QED
    BY <1>5, <2>1, <2>2 DEF Delivered
<1>7. CASE asked[d] # {"assemble_only"}
  <2>1. Delivers(asked'[d]) = "nothing"
    BY <1>1, <1>4, <1>7 DEF Delivers
  <2>2. ASSUME Made(".s")
        PROVE  \E f \in Drivers : Delivers(asked[f]) = ".s"
    <3>1. PICK f \in Drivers : WillRemove(f, ".s")
      BY <2>2 DEF IInv, Accounted
    <3>2. ASSUME stage[f] \in {"writing", "link", "linking", "clean .i", "clean .s"}
          PROVE  FALSE
      BY <1>2, <3>2 DEF IInv, Overlaps, InProgress
    <3> QED
      BY <3>1, <3>2 DEF WillRemove
  <2> QED
    BY <1>1, <1>5, <2>1, <2>2 DEF Delivered
<1> QED
  BY <1>6, <1>7

LEMMA SuccessStep ==
  ASSUME IInv, NEW e \in Drivers, Main(e) \/ ChildProcess(e), NEW d \in Drivers,
         result[d] = "running", result'[d] = "success",
         faults[d] \cap {"write", "overlap"} = {}
  PROVE  Delivered(d)'
<1>1. /\ FilesTyped /\ Path = {".i", ".s", "exe"} /\ RunOK(d) /\ RunOK(e) /\ Typed
      /\ asked[d] \in SUBSET Option
  BY DEF IInv, Typed, TypeOK, FilesTyped, Path, Local
<1>2. /\ UNCHANGED <<given, faults>>
      /\ StopPreprocessed(d) \/ StopEarly(d) \/ (CleanAsm(d) /\ child[d] = "exit 0")
  BY <1>1, Succeeds
<1>3. Preprocessing(d) /\ Assembly(d) /\ "write" \notin faults[d] /\ asked' = asked
  BY <1>2 DEF IInv, Alone, given
<1>4. CASE StopPreprocessed(d)
  <2>1. stage[d] = "open" /\ UNCHANGED files /\ "preprocess_only" \in asked[d]
    BY <1>4 DEF StopPreprocessed, At
  <2>2. Content(".i")' = "whole"
    BY <1>3, <2>1 DEF Preprocessing, Content, Exists, files
  <2>3. Delivers(asked'[d]) = ".i"
    BY <1>3, <2>1 DEF Delivers
  <2> QED
    BY <2>2, <2>3 DEF Delivered
<1>5. CASE StopEarly(d)
  BY <1>2, <1>5, StopDelivers
<1>6. CASE CleanAsm(d) /\ child[d] = "exit 0"
  <2>1. stage[d] = "clean .s" /\ Remove(".s")
    BY <1>6 DEF CleanAsm, At
  <2>2. NotAsked("clean .s") = Option
    BY DEF NotAsked
  <2>3. asked[d] = {}
    BY <1>1, <2>1, <2>2 DEF RunOK, Goes
  <2>4. Delivers(asked'[d]) = "exe"
    BY <1>3, <2>3 DEF Delivers
  <2>5. Content("exe") = "whole" /\ ~Exists(".i")
    BY <1>3, <1>6, <2>1 DEF Preprocessing, Assembly
  <2>6. ~Exists(".s")' /\ Content("exe")' = Content("exe")
    BY <1>1, <2>1, RemoveKeeps
  <2>7. ~Exists(".i")'
    BY <1>1, <2>1, <2>5 DEF Remove, Exists, FilesTyped
  <2> QED
    BY <2>4, <2>5, <2>6, <2>7 DEF Delivered
<1> QED
  BY <1>2, <1>4, <1>5, <1>6

(* A run that overlaps none and whose writes succeed returns 0 only when   *)
(* what it was asked for is there, whole, and what it was not asked for is *)
(* not, whatever files were there when it started.                         *)
THEOREM SuccessHolds == Spec => SuccessIsTrue
<1>1. IInv /\ [Next]_vars =>
        [\A d \in Drivers :
           /\ result[d] = "running" /\ result'[d] = "success"
           /\ faults[d] \cap {"write", "overlap"} = {}
           => Delivered(d)']_vars
  BY SuccessStep DEF Next
<1> QED
  BY <1>1, Inductive, PTL DEF Spec, SuccessIsTrue
=============================================================================
