# Verification of dcc

`dcc` compiles a subset of C (one function, `int` variables, the unary, binary,
assignment and conditional operators, `return`, `if`, blocks) to x86-64
assembly and links it with gcc. This directory holds TLA+ models of the
compiler, the TLC runs that check them, and TLAPS proofs.

## 1. Inventory

| component | source | state it keeps | operations |
|---|---|---|---|
| CLI11 | `CLI/CLI11.hpp` | the options of the `App` with their results and state, the arguments that are left over | declare options, `parse`, `_process`, the errors and `exit`, `make_help` |
| Driver | `tools/dcc.cpp` | files `x.i`, `x.s`, `x` beside the input; the option flags | preprocess, compile, link through `run_command` (fork, exec, wait); clean up |
| Lexer | `lexer.cpp` | `_pos`, `_line`, `_col` | `get_next_token`, `scan_identifier`, `scan_constant`, `check_keyword` |
| Parser | `parser.cpp` | `_tokens`, `_cur` | one method per nonterminal; `parse_expr(min_prec)` climbs precedence |
| AST | `parser.hpp` | nodes owned by `unique_ptr` | `accept`, `print` |
| SemanticAnalyzer | `semantic.cpp` | `_variable_maps` (stack of scopes), `_counter`, `_result_*` | a `visit` per node class; throws on an error |
| TackyGen | `tacky.cpp` | `_current_val`, `_instructions`, `_tmp_counter`, `_label_counter` | a `visit` per node class |
| CodeGen | `asm.cpp`, `asm.hpp` | `asm_instructions`, `cur_offset`, `offset_map` | a `visit` per TACKY instruction, `allocate_pseudo`, `code_gen` |

How they interact. `main` declares its options to CLI11 and lets it parse the
command line; what it stored in the variables of `main`, and a view of the path
that points into what CLI11 holds, decide the rest. `main` calls the phases in sequence on one thread: the tokens of
the lexer go to the parser; the tree of the parser goes to the analyser, which
either throws or returns; *the same tree* (not the resolved copy, which the
analyser drops) goes to TackyGen; its instructions go to CodeGen, whose text is
written to `x.s`. Components share no state, but inside a visitor the visit
methods share one result variable (`_current_val`, `_result_expr`): a child's
result has to be read before the next child overwrites it. Errors are C++
exceptions that nobody catches.

What is hard here:

- *Shared results in the visitors*: the order of visits, reads of
  `_current_val`, and calls of the two name counters.
- *Order of effects in the generated code*: a result is written before an
  operand is read, flags outlive a `mov`, `%edx` outlives a store, one byte of
  a slot is written, instructions are expanded at print time.
- *Unspecified order* of argument evaluation in the analyser.
- *Null pointers* that the parser lets through.
- *The command line*: groups of letters, values, the mark, repeated options and
  errors in one argument list, decided in several passes; a view into the
  storage of a library.
- *Processes and files* in the driver: a child that survives a failed exec,
  exits that leave files behind, two drivers on the same input.
- *Boundaries* of the lexer: first and last character, one character of
  look-ahead, keywords.

What makes each component correct:

- *Analyser*: ends; accepts exactly the programs whose names are declared once
  per block and before use; blames a program only for an error it has; scopes
  nest; unique names are unique.
- *TackyGen*: every label is defined once; every jump goes forward to a label;
  a temporary is written before it is read, and not after.
- *CodeGen*: slots are disjoint; every pseudo-register is placed; every printed
  instruction exists; the machine code does what the TACKY code means, and
  returns to its caller with the caller's frame and stack.
- *CLI11, as `main` uses it*: the outcome is what the command line asks for,
  whatever the order of its arguments; the message names what is to blame; what
  the listing of `--help` allows is accepted.
- *Compiler*: each phase gets what it relies on; the program it makes ends and
  returns the value that C gives it.
- *The whole of `main`*: from the command line to the exit status and the files,
  one run does what one atomic step promises.
- *Driver*: ends; reports success only for what is there and whole, whatever
  earlier runs left; leaves no intermediate file; makes an executable only of a
  valid program.
- *Lexer*: the tokens are the longest lexemes of the source, in order, without a
  gap; each is reported in its line, an operator at its column and a word or a number at
  the next; it ends, and does not abort on a program.
- *Parser*: accepts the programs of the grammar and builds their trees; never
  reads past the last token; ends.

`PROJECT.json` lists every component with its status and every hazard at its line.

## 2. Modules

Shared data:

- `Names`: variables (`a`, `tmp.3`) and labels (`if_end4`) as pairs. The lexer
  allows neither `.` in an identifier nor, by the prefixes chosen in the code,
  two pairs that print alike, so that pairs stand for the strings.
- `Ast`: a node is a record, its field `k` the C++ class, a null pointer `Nil`.
  `CONSTANT Node` is the set of nodes considered; `ParsedShape` is what the
  parser can build and `CheckedShape` what the analyser lets through.
- `Tacky`, `Asm`: the two intermediate representations. `Asm` also holds
  `code_gen` of each class as a function from an instruction to machine lines.
  `WellFormed`, at the end of `Tacky`, is what CodeGen and the processor rely on
  without a test: code ends with a return, every jump has one label, no operator
  writes its own second operand.
- `Words`: signed arithmetic on words of `2 * WordHalf` values (`WordHalf` is 2^31 in
  the code; for `setcc`, `ByteSize` is 2^8). The model says how many values a word has
  instead of how many bits, since the prover has no rule for `2 ^ n`.

- `Arguments`: an argument of the command line as the parser tells it apart:
  the mark, a long name with a value, a letter with the argument that the rest of
  its group would be, or a word. `Files` says what is at a path.
- `Errors`: the exceptions of CLI11 with their exit codes and the arguments that
  their messages name.

Components:

- `Lexer`: `source` is a sequence of characters, and an action takes one
  (`advance`); `mode` is the loop it is in. `Single` and `Double` are the cases
  of the switch, with their fall-through and the literal texts of the code.
  Tokens carry two ghosts: the characters that were consumed for them. `Listed`
  and `Spelling`, at the end, say how tokens are spelled, independently of how
  they are scanned.
- `Parser`: `todo` is the call stack as in the visitors below; `values` holds
  what methods returned until the node that owns it is made. `Climb` is the loop
  of `parse_expr`. An uninitialised constant is any of `Garbage`.
- `Grammar`: the trees of a token sequence by C's grammar, without precedence
  climbing: an expression is split at its weakest operator, a body into
  statements in every way. The reference for `Parser`.
- `SemanticAnalyzer`: `scopes` is `_variable_maps`, innermost first; `counter`
  is `_counter`; `todo` is the C++ call stack, as the statements that the open
  visit methods have still to execute. One action per visit method. Operands
  that are resolved in the arguments of one call are put on the agenda in any
  order. A throw ends the analysis with a verdict.
- `ScopeRules`: C's rules on declarations, stated on the text of the program
  without scopes: the reference for the verdict.
- `TackyGen`: `todo` as above. A `Visit...` action replaces an `accept` by the
  body of the visit method; an `Emit...` action is a `push_back` that uses
  `_current_val` as it is *at that moment*; `Branch...` is the second half of a
  visit method that makes its labels only after its condition was visited.
- `CodeGen`: three phases. `Visit...` lowers one TACKY instruction,
  `AllocatePseudo` handles one operand of one instruction, `PrintInstruction`
  prints one. `origin` and `out_origin` are ghosts that remember which TACKY
  instruction a line comes from.
- `TackyMachine`: what TACKY code means, one instruction per step. It is the
  abstract specification of the back end.
- `X86`: the processor, one machine instruction per step (external: written
  from how the printed instructions use it), with the stack as cells by address,
  the return address and the caller's frame pointer among them.
- `Backend`: CodeGen, then a call of the function by the loader and X86 on what
  was printed. The refinement mapping
  takes the environment to the frame as it was when the current TACKY
  instruction began (`settled`), and the program counter to `out_origin[ip]`.
  Of the functions that are compiled, those in `Called` are also run; they are
  `WellFormed` (`CalledAssumption`), as everything is that TackyGen makes.
  `tacky_pc`, `tacky_env` and `tacky_outcome` are the refinement mapping.
- `CSemantics`: the meaning of a program in C, with undefined behaviour
  (overflow, division by zero, uninitialised variables, unsequenced access).
- `Compiler`: analyser, TackyGen, CodeGen and processor in the order of `main`.
  Its `Called` is the set of all well-formed functions, and `CodeGenPrecondition`
  says that nothing else reaches CodeGen.
- `ExitStatus`: the exit status of the compiled program against `CSemantics`.
- `Driver`: `main` and `run_command`. `stage` is where `main` is, a step per
  system call or per phase; `child` is the forked process: gcc (external) or,
  when exec fails, a second `main`. `dir` and `data` are the files beside the
  input, as paths and inodes: a file may be replaced or removed under a process
  that has it open. `listing` and `printed` follow the token listing from the
  buffer of stdout, which fork copies, to the output. The phases are decided by
  `input` (what is wrong with the program) and by what was read. `faults` is a
  ghost that names the failures outside the driver, for properties that do not
  hold under all of them. `Drivers` is the set of runs on the same input, and
  `OptionSets` what each may be asked for: `asked` holds the bools of `main`,
  tested one after the other (`Advance`), so that combined options meet the
  earliest test first.
- `CommandOptions`: an option as a record, how `main` and `App` declare one
  (`add_option`, `add_flag_internal` and the modifiers that they call, in their
  order), and what is done with its results (`get_flag_value`,
  `ReduceResults`, ...).
- `CommandLine`: `App`. The options are declared one by one; `args` is the list
  that `_parse` eats from the back and that the rest of a group is pushed back
  to; `phase` is how far `_process` is in the order of its passes. Every
  exception ends it with an `outcome` and the arguments that are to blame. The
  path is a view: `input_file` is the option that it looks into, and `Viewed`
  what is there now.
- `Help`: what `Formatter` lists about the options.
- `Usage`: the outcome of a command line, read off its arguments at once. The
  reference for `CommandLine`.
- `Dcc`: `CommandLine`, then `Driver` on what it stored: the whole of `main`.
- `DccPromise`: the abstract specification of `Dcc`. A run is one step from the
  command line to the exit status and the files that are left.

Proofs: `LexerProofs`, `ParserProofs`, `SemanticAnalyzerProofs`, `TackyGenProofs`,
`BackendProofs` (about `CodeGen`, then about `Backend`; its second half proves that
`Backend` implements `TackyMachine`), `CommandLineProofs`, `DriverProofs`, and
`CompilerProofs`, which composes those of the analyser, of TackyGen and of the back
end (section 5).

`MCAst` builds sets of programs; `MC...` modules give the constants their values.

## 3. Runs

| run | question | bounds |
|---|---|---|
| `lexer` | longest lexemes, places, aborts, termination | every source of up to four of 13 characters, with and without a final newline; keywords and longer words |
| `lexer_or` | finding: an `&` before `\|` | as `lexer` |
| `parser` | trees against `Grammar`, shapes, termination | four and five operands with every operators between them; every expression of three tokens; every body of four pieces of statements, six for `if` and `else`; broken headings |
| `tacky_gen` | types, unique labels, forward jumps, settled temporaries; the inductive invariant | every nesting of two operators of the kinds that make labels or temporaries; every pair of statements, with `if` over compound statements |
| `backend` | disjoint slots, placed operands, encodable instructions; refinement of `TackyMachine`; flags; the processor stays in code and frame, and returns to the caller | compiled: every pair of 37 TACKY instructions, each operator class with each kind of operands; compiled and run: each TACKY operator on every pair of operand kinds, the jumps of `&&` and `?:`; 3-bit words, every initial frame |
| `semantic` | verdict against `ScopeRules`, nesting, uniqueness, termination | two names in up to three nested or successive blocks; missing operands and bad left sides included |
| `compiler` | hand-over between phases, the result of the program, termination | every operator on boundary values of 4-bit words; side effects under `&&`, `\|\|`, `+`, `?:`; returns in branches; blocks |
| `hiding` | finding: hidden names | programs of `compiler` |
| `null_return` | finding: `return;` | programs of `semantic` |
| `driver` | reported success, leftover files, soundness of the executable, termination; that files of an earlier run do no harm | two runs in every order and interleaving, one with an option (`--validate` and `--tacky` left out: they stop between `--parse` and `--codegen`, where nothing happens to the files), with none, or with two that stop at different places, the other without; every kind of input, set of earlier files, and failure of fork, exec, gcc, open and write |
| `dcc` | outcome, flags, path and blame against `Usage`; the listing against the parser; refinement of `DccPromise`; termination | 1121 command lines: all of up to two arguments of which one is from a short list of eight, all of three from that list, with groups, values, marks, numbers, names of files and directories; then every input and failure of `Driver` for one run, with and without earlier files |
| `driver_listing` | finding: the child that survives a failed exec | as `driver` |

Why the bounds are enough. The lexer looks at two characters and remembers the
mode: four characters hold two tokens with what stands between and around them.
The parser decides from one token and the precedence of its caller; four
operators nest a level inside a level on both sides, and every precedence
occurs with every other. The visitors have no memory beyond `_current_val`
and the counters, so what goes wrong between a construct and a child shows on
two nested constructs. CodeGen treats TACKY instructions one by one and keeps
only the slots between them, so pairs show what one does to the next. Words of
3 or 4 bits have a sign, an overflow, a minimum without a negation, and a high
part that `setcc` does not write (`ByteSize` is 4). Programs are a few lines
long because the model enumerates them, not because the code has a limit. Two
runs of the driver show what one does to the files of another; a third does
nothing new to them. The second run has no option: it is the one that reads and
writes every file. The parser of the command line looks at one argument at a
time and remembers the mark, whether the place of the input is taken, and the
results of each option; three arguments fill a place, set a mark or a flag, and
let a third meet both. Every form of an argument is next to every form of the
short list on both sides. The same 1121 command lines were given to a build of
the compiler: exit status, the arguments named by the messages about
leftovers, and the files left agree with the model.

Deadlock is not checked: every component ends, and has no step afterwards.

`dcc` has one run at a time: interleaved runs are the subject of `driver`.

Fairness. `FairSpec` of `Lexer`, `Parser` and `SemanticAnalyzer` and `Spec` of `Compiler` say that
the program keeps running: weak fairness of `Next`, for a single thread (and
the processor) that always has a next statement. No fairness between actions
is assumed. `FairSpec` of `Driver` has weak fairness of each `main` and of each
child, as separate processes that the system keeps running; for gcc it says
that gcc ends, in whatever way. `FairSpec` of `Dcc` is that of one run, after
weak fairness of the single thread that parses the command line.

## 4. Findings

- `hiding`: `visit(Function)` drops the resolved block (`semantic.cpp:15`), and
  `main` hands the original tree to TackyGen. Two variables of one name share
  a slot: `int a = 1; { int a = 2; } return a;` exits with 2. Without hidden
  names the result is right (`ResultIsRightWithoutHiding`).
- `null_return`: `return;` parses (`parser.cpp:65` says so on purpose), and the
  analyser calls `accept` on its null expression. Missing operands of `?:` end
  the same way.
- `lexer_or`: the case of `&` has no break (`lexer.cpp:131`): `&|` is the token
  OR. A single `&` or `|` is a colon.
- `driver_listing`: when `execvp` fails, the child leaves `run_command` with
  `FAILED` (`dcc.cpp:41`, `52`) and goes on in `main`. After a link it removes
  `x.i` and `x.s` beside its parent, and its exit flushes its copy of the
  buffer of stdout: the listing is written twice if stdout is a file or a pipe.

Seen while modelling, without a run of their own: the text of `>` is `<`
(`lexer.cpp:125`), and the text of `==`, `!=`, `=` and their like starts one
character early (`lexer.cpp:30`), which only the listing shows; at the start of
the source that slice throws, and a source that is empty or does not end in white
space violates the assertion of `get_next_token` (`AbortsAtEdgesOnly` says that these are
the only aborts); a word or a number is reported one column after its own
(`PlacesAreRight`); a failed preprocessor is reported as a wrong file extension
(`dcc.cpp:116`).

What holds in `Driver` holds with exceptions that the properties name. A short
write of `x.s` is not noticed, and overlapping runs can report success for an
executable that is broken or gone (nothing locks the files); an abort, a
crash, a killed gcc, and an `x.i` or an assembly file that cannot be opened leave `x.i`
behind. No
document promises otherwise, so these are no findings.

## 5. Proofs

All theorems hold for every value of the constants that satisfies the named
assumptions: every set of source texts, nodes or TACKY functions, every nesting
depth, every size of words, every number of runs of the driver, command lines of
every length (those of section 3 are bounded for TLC only).

| module | theorems | states |
|---|---|---|
| `LexerProofs` | `TypesHold`, `MaximalHolds`, `PlacesHold`, `AbortsHold` | the four invariants of `lexer` |
| `ParserProofs` | `TypesHold`, `ShapesHold` | no method reads past the last token; what is accepted is a function over nodes of the shape that the later phases assume |
| `SemanticAnalyzerProofs` | `TypesHold`, `ScopesHold`, `NamesHold`, `AcceptedHolds` | the invariants of `semantic` but the verdict; an accepted tree has no null operand and assigns to variables only |
| `TackyGenProofs` | `TypesHold`, `LabelsHold`, `JumpsHold`, `TempsHold`, `ResultsHold`, `WellFormedHolds` | the invariants of `tacky_gen`; finished code is `WellFormed` |
| `BackendProofs` | `TypesHold`, `SlotsHold`, `PrintedHolds`, `FlagsHold`, `ReturnHolds`, `ImplementsHolds` | of `CodeGen`, slots, placed operands, encodable lines; of `Backend`, that the processor decides on fresh flags, stays in its code and slots, and returns to its caller; `Backend` refines `TackyMachine`: compiled code does what its TACKY code means |
| `CommandLineProofs` | `LineTypesHold`, `OrderHolds` | no option ever has more values than it takes (`ArgumentMismatch` is never thrown); what `main` reads is what the last value of each flag says and the one path given, an existing file; the order in which `App` refuses |
| `DriverProofs` | `TypesHold`, `NothingLeft`, `ExecutablesHold`, `SuccessHolds` | the safety of `driver`, `SuccessIsTrue` (an action property) included |
| `CompilerProofs` | `TackyPreconditionHolds`, `CodeGenPreconditionHolds`, `AssemblyHolds`, `ProgramHolds`, `MeaningHolds` | each phase gets what it relies on; so what is proved of the back end holds of every accepted program |

Each module also states its inductive invariant (`Inductive`, `LineInductive`, `BackInductive`,
`MeaningInductive`, `Composed`). The argument is the same everywhere: `Init` implies it, each action
keeps it (one lemma per action or per group of actions with one shape), it
implies the property. None of the properties is inductive by itself:

- *Lexer.* `IInv` relates the counters to the text: line and column are those
  of `pos` (`InLine`), what a loop has consumed is of the class that the loop
  looks for (`Scanned`), and since the last token there was only white space
  (`Gap`).
- *Parser.* A method that has called another one is an entry of the agenda, and
  what the other will return is not yet on the stack of values. So the
  invariant says of the whole agenda what it will do: it has a contract
  (`Contracts`) that takes the classes of the values on the stack to a single
  function, where each entry has the contract of its method or step (`Step`): an
  expression is added, a statement is made of three values. That a value is of a class
  is said of a set `N` of the nodes made so far, all of the parsed
  shape (`Matches`, `Shaped`): a node that is made extends `N` and leaves what
  was said before true. Each action replaces the head of the agenda by a body
  with the same contract (`Leads`), which takes one lemma per method; when
  the agenda is empty, its contract says that the value left is a function of
  the parsed shape. That no method reads past the end needs that the end of
  file is never consumed, since `consume` and every test ask for another token.
- *Analyser.* The agenda has a `close` for each open scope, with the one of the
  program last (`Balanced`); the numbers in the scopes are below `counter`
  (`Counted`). For the accepted tree there is a set of visited nodes whose
  children are in it or on the agenda (`Covers`): when the agenda is empty the
  set is closed, and every node in it has passed the test of its visit method.
- *TackyGen.* The properties speak of the instructions pushed so far, and what
  is pushed next is on the agenda. `IInv` states what an agenda promises: while
  `_current_val` is empty, every statement that uses it comes after one that
  sets it (`ValuesReady`); every jump that will be pushed is followed by its
  label (`JumpsClosed`), and every jump that was pushed has its label in the
  code or on the agenda (`JumpsResolved`); the labels on the agenda are
  distinct, below `label_counter`, and not in the code (`LabelsApart`,
  `LabelsPushed`). `TInv` does the same for temporaries: what the code and the
  agenda together read has been written in front of it, and one that has been
  read is not read again. Every action removes the head of the agenda and puts
  a body in its place, so the proof has lemmas about `body \o Tail(todo)` for
  each part, one lemma per action about its body, and one that combines them.
- *CodeGen.* The counter is at or below every slot (`SlotsAbove`), memory
  operands are slots of names (`SlotsNamed`), what `allocate_pseudo` has passed
  has no pseudo-register left (`PassedPlaced`), and instructions have the
  operands that lowering gives them (`Lowered`), which decides the form that is
  printed.
- *Backend.* Three layers. `AsmInv`: a conditional instruction stands right
  behind its `Cmp`, jumps and labels are those of the TACKY code. `OutInv`: the
  same for the printed lines, where an instruction may have become several; a
  line is either inside the function and touches registers and slots only
  (`Inner`), or part of an exit that is printed as a whole (`Leaving`).
  `MachineInv`: the two stack pointers and the saved quadword at each place of
  the function (`StackShape`), and valid flags wherever the next line, or the
  next but one, decides on them (`Owed`). Jumps land on labels, where nothing is
  owed. It needs `WellFormed` twice: for a last line that is a `ret`, and for a
  label that a jump can go to.
- *Refinement.* That the lines of one TACKY instruction together do what it means
  is a statement about all of them, and the processor executes one at a time. So
  `MeaningInv` says, first, which lines these are: `Lower` is what the visit
  method appends for an instruction, `Blocks` places it in the assembly code
  (`Places`: up to operands that allocation has replaced by slots), `Lines` places
  the expansion of each assembly instruction in the text. Then it says what the
  lines already executed have computed, with `settled`, the stack as it was when the
  TACKY instruction began, as the measure: `Stage` before each assembly
  instruction (the cleared result and the flags between `cmpl` and `set`; quotient,
  remainder and sign between `cdq`, `idivl` and the store; the first operand in
  the slot of the result before an arithmetic operator), `Scratch` before each line of
  one (what is in r10d or r11d). The step is proved from the bottom up: what a
  line does to registers and slots (`LineOutcome`), what the lines of an assembly
  instruction do, for every combination of operand kinds (`Effect`), what those of a
  TACKY instruction do (`BlockOutcome`: the result is in its slot and nothing else has
  changed, or the processor has trapped just where the TACKY code does, or has
  jumped). Then the place: the next line is the next of the expansion, the first of the
  next instruction, or, after a jump, that of the one label (`WellFormed`).
  Each line but the last of a block leaves the mapped state as it is; the last
  one is a step of `TackyMachine`. It needs `WellFormed` for `mov src1, dst`, which
  comes before `src2` is read, and that `setcc` only meets 0: on
  a slot that was not cleared first, the upper bytes would remain.
- *Command line.* All declared options are as they were declared but for their
  results (`SameOption`), so what a pass asks of an option is known of its place in
  the list (`Kind`: flags keep the last value, the path is one word that must name a
  file). `StoredOK` relates each option to what `main` has of it: while its callback
  has not run, the bool is false and the view is none; afterwards its results are
  valid and the bool is what the last of them says. `Late` says what each pass of
  `_process` has seen to (no `--help` among the results, a path given, callbacks run),
  and `StoppedIn` in which pass an outcome arises; `AnswersInOrder` follows from
  these. That no result is dropped between its parsing and its callback, and that no
  pass comes before the one that it relies on, is the content.
- *Driver.* Each run by itself (`Local`: where `main` is tells which options are
  off, what is wrong with the input, whether a child runs); the files (`Apart`: no
  two paths name one file, a writer's file is at its own path or at none);
  runs that overlap know it (`Overlaps`); what is in the files of a run that
  does not (`Alone`); and for each intermediate file that was made, a run that
  will remove it, was asked for it, or has failed in a way that the property
  excepts (`Accounted`).
- *Compiler.* `CInv` is the conjunction of the invariants of the component that
  is running and of those that have run. `MeaningHolds` is the refinement for
  the whole: while analyser and TackyGen run, the mapped state is that of a `TackyMachine`
  that has not been started. `CompilerProofs` instantiates the proof
  modules: TackyGen is instantiated with `Checked`, the set of the nodes of
  accepted trees, in place of `Node`. That `Checked` satisfies TackyGen's
  `CheckedAssumption` is a lemma, and that the tree is in it is what the
  analyser's invariant gives at the hand-over; `Called` is the set of well-formed
  functions, and that TackyGen's code is in it is `WellFormedHolds`. So neither
  `CheckedAssumption` nor `CalledAssumption` is left: of the parsed tree only
  `NodeAssumption` is assumed.

The assumptions on constants: `NodeAssumption` (a node has the shape that the
parser gives it: `ShapesHold` proves it of whatever the parser returns),
`InputAssumption` of the parser (tokens of the lexer, with the end of file at the end and
nowhere else: `main` stops asking at the first), `CheckedAssumption` and
`CalledAssumption` (above), `TackyCodeAssumption` and `SourceAssumption` (typed
inputs), `WidthAssumption` (a byte has at least two values and at most half as many as
a word), `GarbageAssumption`
(registers and memory hold words), `ArgumentAssumption` (an argument has one of the
four forms that `_recognize` tells apart, and what is left of a group of letters is
an argument), `OptionAssumption`. TLC evaluates each of them
on the runs that use it. TLC has checked each inductive invariant on the
instances of section 3 as well, except `CInv` and the parser's, which speak of sets
of nodes that TLC would have to enumerate; for these it checks what they imply
(`TypeOK` and `NodesHaveShape` of the parser, the invariants of `compiler`).

What stays with TLC, and why:

- Liveness (`Decides`, `CompilesAndEnds`, `EveryRunEnds`, `Ends` and
  their like): the prover has no rules for fairness and `ENABLED`.
- Everything that is compared with a recursive definition: the verdict with
  `ScopeRules`, trees with `Grammar`, results with `CSemantics`, outcomes, blame
  and `DccPromise` with `Usage`. The prover cannot reason about recursive
  operators, nor by induction over trees.
- `KeepsPromise`, whose abstract step is the outcome that `Usage` computes.
- `NodesHaveShape`, which walks the tree by a recursive operator; `ShapesHold` states
  the same content with a set of nodes that is closed under children
  (`TreeHasShape`).

## 6. Not modelled

- Of the source text: characters outside ASCII and NUL; the text of messages and
  of the printed tree.
- Of the assembly file: the directives around a function. Of the machine: signals,
  and with them what a handler may do to slots beyond the red zone.
- Of CLI11: subcommands, option groups, configuration files, environment names,
  nonstandard names, needs and excludes, validators other than `ExistingFile`,
  types other than `bool` and strings, the policies other than `Throw` and
  `TakeLast`, and the columns and descriptions of the listing. `main` uses none
  of them, and where a function that is modelled handles them, that part does
  nothing for the `App` of `main`. They are more than half of the vendored header.
- Of the resolved tree: that its variables keep views of names that die with the
  statement that looked them up (`semantic.cpp:57`). Nothing reads that tree, so
  no behaviour shows it; it would have to be modelled once something does.
- What gcc does inside; the build files; the placeholder test; the function of
  `libdcc.cpp` that prints a greeting.

## 7. Plan

1. Done: the phases one by one (`Lexer`, `Parser`, `SemanticAnalyzer`,
   `TackyGen`, `CodeGen`), each against a reference; the last three composed with
   the processor (`Compiler`); the stack pointer and the return to the caller.
2. Done: `Driver`, alone and twice over one directory; the command line
   (`CommandLine`); the whole of `main` (`Dcc`) against one atomic step
   (`DccPromise`).
3. Done: the proofs about `Lexer`, `Parser`, `SemanticAnalyzer`, `TackyGen`, `CodeGen`,
   `Backend`, `CommandLine` and `Driver`, and their composition in `Compiler`; the refinement of
   `TackyMachine`, for the back end alone and in `Compiler`.
4. Not planned: one composition from source text to exit status through lexer
   and parser. The interface is proved on both sides (`ShapesHold` of the
   parser is `NodeAssumption` of the later phases), and the product of the
   inputs is beyond what a run can enumerate.
