------------------------------ MODULE Backend ------------------------------
(***************************************************************************)
(* The back end and the machine its output runs on: CodeGen compiles a     *)
(* TACKY function, the loader calls it, and the processor executes it.     *)
(* What the processor does is a step-by-step implementation of what the    *)
(* TACKY code means (TackyMachine).                                        *)
(***************************************************************************)
EXTENDS CodeGen, Words

CONSTANTS
  Called,        (* the TACKY functions that are also called                 *)
  Garbage,       (* what a slot of the frame may hold when the function      *)
                 (* starts                                                   *)
  GarbageInRegs  (* and what the registers may hold                          *)

ASSUME CalledAssumption ==
  Called \subseteq Seq(TackyInstruction) /\ \A code \in Called : WellFormed(code)

ASSUME GarbageAssumption == Garbage \subseteq Word /\ GarbageInRegs \subseteq [RegASM -> Word]

VARIABLES
  ip, reg, mem, flags, status,          (* X86                               *)
  settled                               (* ghost: the stack when the current *)
                                        (* TACKY instruction began           *)

cpu_vars == <<ip, reg, mem, flags, status>>
vars     == <<code_vars, cpu_vars, settled>>

Cpu == INSTANCE X86 WITH code <- out

-----------------------------------------------------------------------------
MachineStart == Cpu!PowerOff /\ settled = <<>>

BackInit == Init /\ MachineStart

Compile == Next /\ UNCHANGED <<cpu_vars, settled>>

Slots == {offset_map[x] : x \in DOMAIN offset_map}

Load ==
  /\ phase = "done"
  /\ tacky \in Called
  /\ Cpu!Enter(GarbageInRegs, [Slots -> Garbage])
  /\ settled' = mem'
  /\ UNCHANGED code_vars

(* A line that starts the code of a TACKY instruction. *)
Boundary(i) == i = 1 \/ out_origin[i] # out_origin[i - 1]

Run ==
  /\ Cpu!Execute
  /\ settled' = IF Boundary(ip') THEN mem' ELSE settled
  /\ UNCHANGED code_vars

BackNext == Compile \/ Load \/ Run

BackSpec == BackInit /\ [][BackNext]_vars

-----------------------------------------------------------------------------
(* The refinement mapping: the program counter, the variables and the      *)
(* outcome of the TACKY code.                                              *)
tacky_pc == IF status = "off" THEN 1 ELSE out_origin[ip]

tacky_env ==
  IF status = "off" THEN <<>> ELSE [x \in DOMAIN offset_map |-> settled[offset_map[x]]]

tacky_outcome ==
  CASE status = "off"    -> [is |-> "compiling"]
    [] status = "on"     -> [is |-> "running"]
    [] status = "exited" -> [is |-> "returned", value |-> reg["AX"]]
    [] status = "fault"  -> [is |-> "trapped"]
    [] status = "lost"   -> [is |-> "lost"]

Meaning == INSTANCE TackyMachine WITH
  code <- tacky, pc <- tacky_pc, env <- tacky_env, outcome <- tacky_outcome

(* The compiled code does what the TACKY code means: every TACKY           *)
(* instruction takes effect at once when its last machine instruction is   *)
(* executed, with the same value and the same jump, and nothing else is    *)
(* visible in between.                                                     *)
ImplementsTacky == Meaning!Spec

(* A conditional jump or setcc decides on the comparison that was emitted  *)
(* with it: the mov between them leaves the flags alone, and no expansion  *)
(* put an instruction in between that does not.                            *)
FlagsOfComparison ==
  status = "on" /\ out[ip].m \in {"j", "set"} => flags.valid

(* The processor never runs off the end of the function, and the only      *)
(* cells it touches through %rbp are the slots of the frame.               *)
StaysInFunction ==
  status = "on" =>
    /\ ip \in DOMAIN out
    /\ \A o \in {out[ip].src, out[ip].dst} : InMemory(o) => reg["BP"] + o.offset \in Slots

(* The function keeps to itself, and gives the machine back to its caller  *)
(* as it found it: the jump goes to the return address, %rbp is the caller's again and the     *)
(* stack is as high as before the call.  No instruction lowers %rsp below  *)
(* the slots (AllocateStackASM is never made), so this needs that nothing  *)
(* is pushed between the entry and the exit, and that no slot lies on one  *)
(* of the two saved quadwords.                                             *)
ReturnsToCaller ==
  /\ StaysInFunction
  /\ status # "lost"
  /\ status = "exited" => /\ reg["BP"] = Cpu!CallersFrame
                          /\ reg["SP"] = Cpu!CallSite + 8
  /\ status = "on" => mem[Cpu!CallSite] = Cpu!ReturnAddress
=============================================================================
