---------------------------- MODULE TackyMachine ----------------------------
(***************************************************************************)
(* What TACKY code means: a machine that executes one TACKY instruction    *)
(* per step over an environment of variables.  This is the abstract        *)
(* specification of the back end.  Arithmetic is that of the words; a      *)
(* division by zero or one that overflows traps, as the hardware does.     *)
(***************************************************************************)
EXTENDS Tacky, Words

VARIABLES
  code,     (* the TACKY instructions                                        *)
  pc,       (* the next one                                                  *)
  env,      (* the value of every variable of the code                       *)
  outcome   (* "compiling", "running", "returned" or "trapped"               *)

(* The variables of the code. *)
Named(v) == IF v.tag = "var" THEN {v.id} ELSE {}
VariablesOf(c) ==
  UNION {UNION {Named(v) : v \in Sources(c[i]) \cup Destinations(c[i])} : i \in DOMAIN c}

-----------------------------------------------------------------------------
Pending  == [is |-> "compiling"]
Running  == [is |-> "running"]
Returned(v) == [is |-> "returned", value |-> v]
Trapped  == [is |-> "trapped"]

Init ==
  /\ pc = 1
  /\ env = <<>>
  /\ outcome = Pending

(* Nothing initialises the variables: they start with any values. *)
Load ==
  /\ outcome = Pending
  /\ outcome' = Running
  /\ env' \in [VariablesOf(code) -> Word]
  /\ UNCHANGED <<code, pc>>

ValueOf(v) == IF v.tag = "const" THEN Wrap(v.value) ELSE env[v.id]

Unary(op, x) ==
  CASE op = "COMPLEMENT" -> -x - 1
    [] op = "NEGATION"   -> Wrap(-x)
    [] op = "NOT"        -> Bool(x = 0)

Binary(op, x, y) ==
  CASE op = "ADD"              -> Wrap(x + y)
    [] op = "SUBTRACT"         -> Wrap(x - y)
    [] op = "MULTIPLY"         -> Wrap(x * y)
    [] op = "DIVIDE"           -> Quotient(x, y)
    [] op = "REMAINDER"        -> Remainder(x, y)
    [] op = "EQUAL"            -> Bool(x = y)
    [] op = "NOT_EQUAL"        -> Bool(x # y)
    [] op = "LESS_THAN"        -> Bool(x < y)
    [] op = "LESS_OR_EQUAL"    -> Bool(x <= y)
    [] op = "GREATER_THAN"     -> Bool(x > y)
    [] op = "GREATER_OR_EQUAL" -> Bool(x >= y)

Divides(op) == op \in {"DIVIDE", "REMAINDER"}
Traps(i) ==
  /\ i.kind = "Binary"
  /\ Divides(i.op)
  /\ \/ ValueOf(i.src2) = 0
     \/ ValueOf(i.src1) = MinInt /\ ValueOf(i.src2) = -1

(* The instruction at pc, for an enabled machine. *)
At(kinds) == outcome = Running /\ pc \in DOMAIN code /\ code[pc].kind \in kinds

Assign(d, x) ==
  /\ env' = [env EXCEPT ![d.id] = x]
  /\ pc' = pc + 1
  /\ UNCHANGED <<code, outcome>>

GoTo(i) == pc' = i /\ UNCHANGED <<code, env, outcome>>
Find(l) == CHOOSE i \in DOMAIN code : code[i] = Label(l)

Stop(o) == outcome' = o /\ UNCHANGED <<code, pc, env>>

StepUnary == At({"Unary"}) /\ Assign(code[pc].dst, Unary(code[pc].op, ValueOf(code[pc].src)))

StepBinary ==
  /\ At({"Binary"})
  /\ ~Traps(code[pc])
  /\ Assign(code[pc].dst,
            Binary(code[pc].op, ValueOf(code[pc].src1), ValueOf(code[pc].src2)))

StepTrap == At({"Binary"}) /\ Traps(code[pc]) /\ Stop(Trapped)

StepCopy == At({"Copy"}) /\ Assign(code[pc].dst, ValueOf(code[pc].src))

StepLabel == At({"Label"}) /\ GoTo(pc + 1)

StepJump ==
  /\ At({"Jump", "JumpIfZero", "JumpIfNotZero"})
  /\ LET i == code[pc]
         taken == CASE i.kind = "Jump" -> TRUE
                    [] i.kind = "JumpIfZero" -> ValueOf(i.cond) = 0
                    [] i.kind = "JumpIfNotZero" -> ValueOf(i.cond) # 0
     IN  GoTo(IF taken THEN Find(i.target) ELSE pc + 1)

StepReturn == At({"Return"}) /\ Stop(Returned(ValueOf(code[pc].src)))

Step == \/ StepUnary \/ StepBinary \/ StepTrap \/ StepCopy
        \/ StepLabel \/ StepJump \/ StepReturn

Next == Load \/ Step

Spec == Init /\ [][Next]_<<pc, env, outcome>>
=============================================================================
