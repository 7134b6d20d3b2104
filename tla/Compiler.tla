------------------------------ MODULE Compiler ------------------------------
(***************************************************************************)
(* The compiler proper as main calls it (tools/dcc.cpp, phases 3 to 5) and *)
(* the run of the program it makes: the analyser gets the parsed tree; if  *)
(* it does not throw, TackyGen gets the SAME tree, CodeGen gets the TACKY  *)
(* code, and the processor executes what CodeGen printed.                  *)
(***************************************************************************)
EXTENDS Ast, Tacky, Asm, Words

CONSTANTS Garbage, GarbageInRegs

ASSUME GarbageAssumption == Garbage \subseteq Word /\ GarbageInRegs \subseteq [RegASM -> Word]

VARIABLES
  stage,                                   (* the call main is at             *)
  ast,
  sem_todo, scopes, counter, verdict,      (* SemanticAnalyzer                *)
  todo, instructions, current_val,
  tmp_counter, label_counter,              (* TackyGen                        *)
  phase, tacky, next, operand, asm_instructions, cur_offset, offset_map,
  out, origin, out_origin,                 (* CodeGen                         *)
  ip, reg, mem, flags, status, settled     (* X86                             *)

sem_vars   == <<sem_todo, scopes, counter, verdict>>
tacky_vars == <<todo, instructions, current_val, tmp_counter, label_counter>>
back_vars  == <<phase, tacky, next, operand, asm_instructions, cur_offset, offset_map,
                out, origin, out_origin, ip, reg, mem, flags, status, settled>>
vars == <<stage, ast, sem_vars, tacky_vars, back_vars>>

Analyser  == INSTANCE SemanticAnalyzer WITH todo <- sem_todo
Generator == INSTANCE TackyGen
Back      == INSTANCE Backend WITH
  TackyCode <- {<<>>},
  Called <- {code \in Seq(TackyInstruction) : WellFormed(code)}

-----------------------------------------------------------------------------
Init ==
  /\ stage = "analyse"
  /\ Analyser!Init
  /\ Generator!Init
  /\ Back!BackInit

(* ast->accept(analyzer) *)
Analyse ==
  /\ stage = "analyse"
  /\ Analyser!Next
  /\ UNCHANGED <<stage, tacky_vars, back_vars>>

Analysed ==
  /\ stage = "analyse"
  /\ verdict = "accepted"
  /\ stage' = "tacky"
  /\ UNCHANGED <<ast, sem_vars, tacky_vars, back_vars>>

(* tg.generate_tacky(ast.get()) *)
Generate ==
  /\ stage = "tacky"
  /\ Generator!Next
  /\ UNCHANGED <<stage, sem_vars, back_vars>>

(* cg.generate(tacky_ir.get()) *)
Generated ==
  /\ stage = "tacky"
  /\ Generator!Finished
  /\ stage' = "assembly"
  /\ tacky' = instructions
  /\ UNCHANGED <<ast, sem_vars, tacky_vars, phase, next, operand, asm_instructions,
                 cur_offset, offset_map, out, origin, out_origin,
                 ip, reg, mem, flags, status, settled>>

CompileAndRun ==
  /\ stage = "assembly"
  /\ Back!BackNext
  /\ UNCHANGED <<stage, ast, sem_vars, tacky_vars>>

Next == Analyse \/ Analysed \/ Generate \/ Generated \/ CompileAndRun

Spec == Init /\ [][Next]_vars /\ WF_vars(Next)

-----------------------------------------------------------------------------
(* What TackyGen relies on without a test: every pointer it follows is set *)
(* and every assignment has a variable on its left.  The analyser runs     *)
(* before it on the same tree, and accepts no other trees.                 *)
TackyPrecondition ==
  stage = "tacky" =>
    \A i \in DOMAIN todo : todo[i].do \in {"accept", "branch"} =>
      todo[i].node # Nil /\ CheckedShape(todo[i].node)

(* What CodeGen relies on without a test: a return at the end, one label   *)
(* for every jump, and no operator that writes its own second operand.     *)
CodeGenPrecondition == stage = "assembly" => WellFormed(tacky)

(* A program that is accepted is compiled, and it ends: the jumps of the   *)
(* code all go forward.                                                    *)
CompilesAndEnds ==
  <>(verdict \notin {"running", "accepted"} \/ status \in {"exited", "fault"})
=============================================================================
