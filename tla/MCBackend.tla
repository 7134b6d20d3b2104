----------------------------- MODULE MCBackend -----------------------------
(***************************************************************************)
(* The back end on one TACKY instruction of every operator, with every     *)
(* kind of operands (constants, two variables, the same variable twice),   *)
(* and on the jumps of && and ?:, run from every content of the frame; and *)
(* on every pair of TACKY instructions, compiled only: the second one      *)
(* meets the slots that the first one allocated.                           *)
(***************************************************************************)
EXTENDS Backend

MCIdent == {"x", "y"}

x == TackyVar(Source("x"))
y == TackyVar(Source("y"))
t == TackyVar(Tmp(0))
Const == {TackyConstant(c) : c \in {MinInt, -1, 0, 2}}

Unaries == {<<TackyUnary(op, s, t), TackyReturn(t)>> :
              op \in TackyUnaryOp, s \in {x} \cup Const}

Operands == ({x} \X {x, y}) \cup ({x} \X Const) \cup (Const \X {x}) \cup (Const \X Const)

Binaries == {<<TackyBinary(op, p[1], p[2], t), TackyReturn(t)>> :
               op \in TackyBinaryOp, p \in Operands}

l0 == LabelName("and_false", 0)
l1 == LabelName("and_else", 1)

Choosing(first) ==
  <<first, TackyCopy(y, t), Jump(l1), Label(l0), TackyCopy(x, t), Label(l1), TackyReturn(t)>>

Jumping == {Choosing(JumpIfZero(v, l0)) : v \in {x} \cup Const}
           \cup {Choosing(JumpIfNotZero(v, l0)) : v \in {x} \cup Const}
           \cup {<<TackyCopy(c, x), TackyReturn(c)>> : c \in Const}

two == TackyConstant(2)

Instructions ==
  {TackyReturn(v) : v \in {x, two}}
  \cup {TackyUnary(op, v, t) : op \in {"NOT", "NEGATION", "COMPLEMENT"}, v \in {x, two}}
  \cup {TackyBinary(op, v, w, t) :
          op \in {"SUBTRACT", "MULTIPLY", "DIVIDE", "REMAINDER", "LESS_THAN"},
          v \in {x, two}, w \in {y, two}}
  \cup {TackyCopy(v, w) : v \in {t, two}, w \in {x, y}}
  \cup {JumpIfZero(v, l0) : v \in {y, two}} \cup {JumpIfNotZero(v, l0) : v \in {y, two}}
  \cup {Jump(l0)}

Pairs == {<<i, j, Label(l0), TackyReturn(t)>> : i, j \in Instructions}

MCCalled == Unaries \cup Binaries \cup Jumping
MCTackyCode == MCCalled \cup Pairs
MCGarbage == Word
MCGarbageInRegs == {[r \in RegASM |-> -2]}
=============================================================================
