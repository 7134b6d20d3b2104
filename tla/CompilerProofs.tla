--------------------------- MODULE CompilerProofs ---------------------------
(***************************************************************************)
(* Theorems about Compiler: what each phase relies on, the phase before it *)
(* has established.  The proof composes the invariants of the components,  *)
(* which their own proof modules show to be inductive.                     *)
(***************************************************************************)
EXTENDS Compiler, SequenceTheorems, TLAPS

SP == INSTANCE SemanticAnalyzerProofs WITH todo <- sem_todo

(* The nodes that an accepted program is made of.  TackyGen is a generator *)
(* for trees of checked nodes: in the compiler these are its nodes.        *)
Checked ==
  UNION {nodes \in SUBSET Node :
           \A n \in nodes : CheckedShape(n) /\ SP!Children(n) \subseteq nodes}

GP == INSTANCE TackyGenProofs WITH Node <- Checked
BP == INSTANCE BackendProofs WITH
  TackyCode <- Seq(TackyInstruction),
  Called <- {code \in Seq(TackyInstruction) : WellFormed(code)}

-----------------------------------------------------------------------------
(* The assumptions of the three, for the nodes and the code they get here. *)

LEMMA CheckedIsClosed ==
  ASSUME NEW n \in Checked
  PROVE  n \in Node /\ CheckedShape(n) /\ \A c \in SP!Children(n) : c \in Checked
BY DEF Checked

LEMMA NodesParsed == GP!NodeAssumption
<1> SUFFICES ASSUME NEW n \in Checked PROVE GP!ParsedShape(n)
  OBVIOUS
<1>1. /\ ParsedShape(n) /\ CheckedShape(n)
      /\ \A c \in SP!Children(n) : c \in Checked
  BY NodeAssumption, CheckedIsClosed
<1>2. \A c \in Checked : /\ c \in Expr => c \in GP!Expr
                         /\ c \in Stmt => c \in GP!Stmt
                         /\ c \in Item => c \in GP!Item
                         /\ c \in Body => c \in GP!Body
  BY DEF Expr, Stmt, Item, Body, GP!Expr, GP!Stmt, GP!Item, GP!Body,
         ExprKind, StmtKind, GP!ExprKind, GP!StmtKind
<1>3. /\ GP!Nil = Nil /\ SP!Nil = Nil
      /\ GP!UnaryOpType = UnaryOpType /\ GP!BinaryOpType = BinaryOpType
  BY DEF GP!Nil, Nil, SP!Nil, GP!UnaryOpType, UnaryOpType, GP!BinaryOpType, BinaryOpType,
         GP!ArithmeticOpType, ArithmeticOpType, GP!RelationalOpType, RelationalOpType
<1>4. CASE n.k = "Block"
  <2>1. n.items \in Seq(Item) /\ \A i \in DOMAIN n.items : n.items[i] \in Checked
    BY <1>1, <1>4 DEF ParsedShape, SP!Children
  <2>2. \A i \in 1..Len(n.items) : n.items[i] \in GP!Item
    BY <1>2, <2>1
  <2>3. n.items \in Seq(GP!Item)
    BY <2>1, <2>2
  <2> QED
    BY <1>4, <2>3 DEF GP!ParsedShape
<1>5. CASE n.k # "Block"
  BY <1>1, <1>2, <1>3, <1>5 DEF ParsedShape, GP!ParsedShape, CheckedShape, SP!Children
<1> QED
  BY <1>4, <1>5

LEMMA NodesChecked == GP!CheckedAssumption
  BY CheckedIsClosed DEF CheckedShape, GP!CheckedShape, Nil, GP!Nil

LEMMA NodesResolved == SP!NodeAssumption
BY NodeAssumption
DEF ParsedShape, SP!ParsedShape, Expr, Stmt, Item, Body, SP!Expr, SP!Stmt, SP!Item, SP!Body,
    ExprKind, StmtKind, SP!ExprKind, SP!StmtKind, Nil, SP!Nil,
    UnaryOpType, SP!UnaryOpType, BinaryOpType, SP!BinaryOpType,
    ArithmeticOpType, SP!ArithmeticOpType, RelationalOpType, SP!RelationalOpType

LEMMA SameInstructions ==
  GP!TackyInstruction = TackyInstruction /\ BP!TackyInstruction = TackyInstruction
BY DEF NoNumber, Name, LabelPrefix, LabelId, Operand, Variable, TackyUnaryOp, RelationalOp,
        TackyBinaryOp, TackyInstruction, GP!NoNumber, GP!Name, GP!LabelPrefix, GP!LabelId,
        GP!Operand, GP!Variable, GP!TackyUnaryOp, GP!RelationalOp, GP!TackyBinaryOp,
        GP!TackyInstruction, BP!NoNumber, BP!Name, BP!LabelPrefix, BP!LabelId, BP!Operand,
        BP!Variable, BP!TackyUnaryOp, BP!RelationalOp, BP!TackyBinaryOp, BP!TackyInstruction

LEMMA SameWellFormed ==
  \A code : (GP!WellFormed(code) <=> WellFormed(code)) /\ (BP!WellFormed(code) <=> WellFormed(code))
BY DEF WellFormed, GP!WellFormed, BP!WellFormed, Jumps, GP!Jumps, BP!Jumps, Label, GP!Label,
        BP!Label

LEMMA CodeTyped == BP!TackyCodeAssumption /\ BP!CalledAssumption
BY SameInstructions, SameWellFormed

LEMMA MachineTyped == BP!WidthAssumption /\ BP!GarbageAssumption
BY WidthAssumption, GarbageAssumption
DEF RegASM, BP!RegASM, Word, BP!Word, MaxInt, BP!MaxInt, MinInt, BP!MinInt

-----------------------------------------------------------------------------
(***************************************************************************)
(* A component and the instance of its proofs are two names of the same    *)
(* actions: neither TackyGen's steps mention Node, nor CodeGen's TackyCode.*)
(***************************************************************************)

LEMMA SameAnalyserInit == Analyser!Init <=> SP!Init
BY DEF Analyser!Program, Analyser!Resolve, Analyser!Close, Analyser!NotDeclared,
        Analyser!EmptyScope, Analyser!Init, SP!Program, SP!Resolve, SP!Close, SP!NotDeclared,
        SP!EmptyScope, SP!Init

LEMMA SameAnalyser == Analyser!Next <=> SP!Next
BY DEF Analyser!Nil, Analyser!Program, Analyser!Resolve, Analyser!Close,
        Analyser!NotDeclared, Analyser!EmptyScope, Analyser!Declares, Analyser!Init,
        Analyser!Working, Analyser!Visiting, Analyser!Run, Analyser!Continue, Analyser!Throw,
        Analyser!ResolveNull, Analyser!VisitConstant, Analyser!Declared, Analyser!VisitVar,
        Analyser!VisitUnaryOperator, Analyser!VisitBinaryOperator, Analyser!VisitConditional,
        Analyser!VisitAssignment, Analyser!VisitDeclarationVariable,
        Analyser!VisitReturnOrExpressionStmt, Analyser!VisitNullStmt,
        Analyser!VisitCompoundStmt, Analyser!VisitIfStatement, Analyser!VisitFunction,
        Analyser!VisitBlock, Analyser!CloseScope, Analyser!Accept, Analyser!Next, SP!Nil,
        SP!Program, SP!Resolve, SP!Close, SP!NotDeclared, SP!EmptyScope, SP!Declares, SP!Init,
        SP!Working, SP!Visiting, SP!Run, SP!Continue, SP!Throw, SP!ResolveNull,
        SP!VisitConstant, SP!Declared, SP!VisitVar, SP!VisitUnaryOperator,
        SP!VisitBinaryOperator, SP!VisitConditional, SP!VisitAssignment,
        SP!VisitDeclarationVariable, SP!VisitReturnOrExpressionStmt, SP!VisitNullStmt,
        SP!VisitCompoundStmt, SP!VisitIfStatement, SP!VisitFunction, SP!VisitBlock,
        SP!CloseScope, SP!Accept, SP!Next

LEMMA SameGenerator == Generator!Next <=> GP!Next
BY DEF Generator!NoNumber, Generator!Source, Generator!Tmp, Generator!LabelName,
        Generator!Nil, Generator!TackyConstant, Generator!TackyVar, Generator!TackyReturn,
        Generator!TackyUnary, Generator!TackyBinary, Generator!TackyCopy, Generator!Jump,
        Generator!JumpIfZero, Generator!JumpIfNotZero, Generator!Label, Generator!vars,
        Generator!Accept, Generator!Emit, Generator!EmitJZ, Generator!EmitJNZ,
        Generator!EmitCopy, Generator!EmitReturn, Generator!EmitUnary, Generator!EmitBinary,
        Generator!Second, Generator!SetValue, Generator!Branch, Generator!convert_unop,
        Generator!convert_binop, Generator!make_temporary_name, Generator!make_label_name,
        Generator!Doing, Generator!Visiting, Generator!Run, Generator!VisitConstant,
        Generator!VisitVar, Generator!VisitUnaryOperator, Generator!VisitAnd,
        Generator!VisitOr, Generator!VisitBinaryOperator, Generator!VisitRightOperand,
        Generator!VisitAssignment, Generator!VisitConditional, Generator!BranchConditional,
        Generator!VisitReturnStmt, Generator!VisitIfStatement, Generator!BranchIfElse,
        Generator!BranchIf, Generator!VisitExpressionStmt, Generator!VisitNullStmt,
        Generator!VisitDeclarationVariable, Generator!VisitCompoundStmt, Generator!AcceptAll,
        Generator!VisitBlock, Generator!VisitFunction, Generator!PushInstruction,
        Generator!EmitReady, Generator!EmitConditionalJump, Generator!EmitCopyOfCurrent,
        Generator!EmitReturnOfCurrent, Generator!EmitUnaryOfCurrent,
        Generator!EmitBinaryOfCurrent, Generator!SetCurrent, Generator!VisitExpr,
        Generator!VisitStmt, Generator!Execute, Generator!Next, GP!NoNumber, GP!Source,
        GP!Tmp, GP!LabelName, GP!Nil, GP!TackyConstant, GP!TackyVar, GP!TackyReturn,
        GP!TackyUnary, GP!TackyBinary, GP!TackyCopy, GP!Jump, GP!JumpIfZero, GP!JumpIfNotZero,
        GP!Label, GP!vars, GP!Accept, GP!Emit, GP!EmitJZ, GP!EmitJNZ, GP!EmitCopy,
        GP!EmitReturn, GP!EmitUnary, GP!EmitBinary, GP!Second, GP!SetValue, GP!Branch,
        GP!convert_unop, GP!convert_binop, GP!make_temporary_name, GP!make_label_name,
        GP!Doing, GP!Visiting, GP!Run, GP!VisitConstant, GP!VisitVar, GP!VisitUnaryOperator,
        GP!VisitAnd, GP!VisitOr, GP!VisitBinaryOperator, GP!VisitRightOperand,
        GP!VisitAssignment, GP!VisitConditional, GP!BranchConditional, GP!VisitReturnStmt,
        GP!VisitIfStatement, GP!BranchIfElse, GP!BranchIf, GP!VisitExpressionStmt,
        GP!VisitNullStmt, GP!VisitDeclarationVariable, GP!VisitCompoundStmt, GP!AcceptAll,
        GP!VisitBlock, GP!VisitFunction, GP!PushInstruction, GP!EmitReady,
        GP!EmitConditionalJump, GP!EmitCopyOfCurrent, GP!EmitReturnOfCurrent,
        GP!EmitUnaryOfCurrent, GP!EmitBinaryOfCurrent, GP!SetCurrent, GP!VisitExpr,
        GP!VisitStmt, GP!Execute, GP!Next

LEMMA SameCodeGen == Back!Next <=> BP!Next
BY DEF Back!LabelName, Back!RelationalOp, Back!Immediate, Back!Register, Back!Pseudo,
        Back!Stack, Back!IsImmediate, Back!InMemory, Back!Mov, Back!UnaryASM, Back!BinaryASM,
        Back!Cmp, Back!SetCC, Back!Idiv, Back!Cdq, Back!Ret, Back!Jmp, Back!JmpCC,
        Back!AsmLabel, Back!None, Back!NoLabel, Back!Machine, Back!Branching, Back!Setting,
        Back!r10d, Back!r11d, Back!rsp, Back!rbp, Back!PrintMov, Back!Mnemonic,
        Back!PrintBinary, Back!PrintCmp, Back!PrintIdiv, Back!PrintUnary, Back!Prologue,
        Back!PrintRet, Back!code_gen, Back!convert_val, Back!convert_unary,
        Back!convert_binary, Back!convert_to_condition_code, Back!Visit, Back!PushBack,
        Back!VisitReturn, Back!VisitNot, Back!VisitUnary, Back!VisitDivision,
        Back!VisitRelational, Back!VisitArithmetic, Back!VisitJump, Back!VisitJumpIfZero,
        Back!VisitJumpIfNotZero, Back!VisitCopy, Back!VisitLabel, Back!BeginAllocation,
        Back!AtOperand, Back!Here, Back!Replace, Back!ReplaceNewPseudo,
        Back!ReplaceKnownPseudo, Back!KeepOperand, Back!NextInstruction, Back!BeginPrinting,
        Back!PrintInstruction, Back!EndPrinting, Back!VisitInstruction, Back!AllocatePseudo,
        Back!Next, BP!LabelName, BP!RelationalOp, BP!Immediate, BP!Register, BP!Pseudo,
        BP!Stack, BP!IsImmediate, BP!InMemory, BP!Mov, BP!UnaryASM, BP!BinaryASM, BP!Cmp,
        BP!SetCC, BP!Idiv, BP!Cdq, BP!Ret, BP!Jmp, BP!JmpCC, BP!AsmLabel, BP!None, BP!NoLabel,
        BP!Machine, BP!Branching, BP!Setting, BP!r10d, BP!r11d, BP!rsp, BP!rbp, BP!PrintMov,
        BP!Mnemonic, BP!PrintBinary, BP!PrintCmp, BP!PrintIdiv, BP!PrintUnary, BP!Prologue,
        BP!PrintRet, BP!code_gen, BP!convert_val, BP!convert_unary, BP!convert_binary,
        BP!convert_to_condition_code, BP!Visit, BP!PushBack, BP!VisitReturn, BP!VisitNot,
        BP!VisitUnary, BP!VisitDivision, BP!VisitRelational, BP!VisitArithmetic, BP!VisitJump,
        BP!VisitJumpIfZero, BP!VisitJumpIfNotZero, BP!VisitCopy, BP!VisitLabel,
        BP!BeginAllocation, BP!AtOperand, BP!Here, BP!Replace, BP!ReplaceNewPseudo,
        BP!ReplaceKnownPseudo, BP!KeepOperand, BP!NextInstruction, BP!BeginPrinting,
        BP!PrintInstruction, BP!EndPrinting, BP!VisitInstruction, BP!AllocatePseudo, BP!Next

LEMMA SameProcessor ==
  /\ \A r, m : Back!Cpu!Enter(r, m) <=> BP!Cpu!Enter(r, m)
  /\ Back!Cpu!Execute <=> BP!Cpu!Execute
<1>1. \A r, m : Back!Cpu!Enter(r, m) <=> BP!Cpu!Enter(r, m)
  BY DEF Back!Cpu!Enter, BP!Cpu!Enter, Back!Cpu!RegASM, BP!Cpu!RegASM, Back!Cpu!CallSite,
        BP!Cpu!CallSite, Back!Cpu!CallersFrame, BP!Cpu!CallersFrame,
        Back!Cpu!ReturnAddress, BP!Cpu!ReturnAddress
<1>2. /\ \A x : Back!Cpu!Wrap(x) = BP!Cpu!Wrap(x)
      /\ \A b : Back!Cpu!Bool(b) = BP!Cpu!Bool(b)
      /\ \A x, y : Back!Cpu!Quotient(x, y) = BP!Cpu!Quotient(x, y)
      /\ \A x, y : Back!Cpu!Remainder(x, y) = BP!Cpu!Remainder(x, y)
      /\ Back!Cpu!Word = BP!Cpu!Word /\ Back!Cpu!Modulus = BP!Cpu!Modulus
  BY DEF Back!Cpu!Wrap, BP!Cpu!Wrap, Back!Cpu!Bool, BP!Cpu!Bool, Back!Cpu!Quotient,
        BP!Cpu!Quotient, Back!Cpu!Remainder, BP!Cpu!Remainder, Back!Cpu!Abs, BP!Cpu!Abs,
        Back!Cpu!Word, BP!Cpu!Word, Back!Cpu!Modulus, BP!Cpu!Modulus, Back!Cpu!MaxInt,
        BP!Cpu!MaxInt, Back!Cpu!MinInt, BP!Cpu!MinInt
<1>3. /\ \A o : Back!Cpu!Read(o) = BP!Cpu!Read(o)
      /\ \A o, x : Back!Cpu!Write(o, x) <=> BP!Cpu!Write(o, x)
      /\ \A cc : Back!Cpu!Holds(cc) <=> BP!Cpu!Holds(cc)
  BY <1>2
    DEF Back!Cpu!Read, BP!Cpu!Read, Back!Cpu!Write, BP!Cpu!Write, Back!Cpu!Holds,
        BP!Cpu!Holds, Back!Cpu!Address, BP!Cpu!Address
<1>4. Back!Cpu!Move <=> BP!Cpu!Move
  BY <1>2, <1>3
    DEF Back!Cpu!Move, BP!Cpu!Move, Back!Cpu!Fetch, BP!Cpu!Fetch, Back!Cpu!Src, BP!Cpu!Src,
        Back!Cpu!Dst, BP!Cpu!Dst, Back!Cpu!Advance, BP!Cpu!Advance
<1>5. Back!Cpu!Arithmetic <=> BP!Cpu!Arithmetic
  BY <1>2, <1>3
    DEF Back!Cpu!Arithmetic, BP!Cpu!Arithmetic, Back!Cpu!Fetch, BP!Cpu!Fetch, Back!Cpu!Src,
        BP!Cpu!Src, Back!Cpu!Dst, BP!Cpu!Dst, Back!Cpu!Advance, BP!Cpu!Advance,
        Back!Cpu!Clobbered, BP!Cpu!Clobbered
<1>6. Back!Cpu!Complement <=> BP!Cpu!Complement
  BY <1>2, <1>3
    DEF Back!Cpu!Complement, BP!Cpu!Complement, Back!Cpu!Fetch, BP!Cpu!Fetch, Back!Cpu!Dst,
        BP!Cpu!Dst, Back!Cpu!Advance, BP!Cpu!Advance
<1>7. Back!Cpu!Negate <=> BP!Cpu!Negate
  BY <1>2, <1>3
    DEF Back!Cpu!Negate, BP!Cpu!Negate, Back!Cpu!Fetch, BP!Cpu!Fetch, Back!Cpu!Dst,
        BP!Cpu!Dst, Back!Cpu!Advance, BP!Cpu!Advance, Back!Cpu!Clobbered, BP!Cpu!Clobbered
<1>8. Back!Cpu!Compare <=> BP!Cpu!Compare
  BY <1>2, <1>3
    DEF Back!Cpu!Compare, BP!Cpu!Compare, Back!Cpu!Fetch, BP!Cpu!Fetch, Back!Cpu!Src,
        BP!Cpu!Src, Back!Cpu!Dst, BP!Cpu!Dst, Back!Cpu!Advance, BP!Cpu!Advance,
        Back!Cpu!Compared, BP!Cpu!Compared
<1>9. Back!Cpu!SetByte <=> BP!Cpu!SetByte
  BY <1>2, <1>3
    DEF Back!Cpu!SetByte, BP!Cpu!SetByte, Back!Cpu!Bool, BP!Cpu!Bool, Back!Cpu!Holds,
        BP!Cpu!Holds, Back!Cpu!Fetch, BP!Cpu!Fetch, Back!Cpu!Dst,
        BP!Cpu!Dst, Back!Cpu!Advance, BP!Cpu!Advance
<1>10. Back!Cpu!SignExtend <=> BP!Cpu!SignExtend
  BY <1>2, <1>3
    DEF Back!Cpu!SignExtend, BP!Cpu!SignExtend, Back!Cpu!Fetch, BP!Cpu!Fetch,
        Back!Cpu!Advance, BP!Cpu!Advance
<1>11. Back!Cpu!Divide <=> BP!Cpu!Divide
  BY <1>2, <1>3
    DEF Back!Cpu!Divide, BP!Cpu!Divide, Back!Cpu!Fetch, BP!Cpu!Fetch, Back!Cpu!Src,
        BP!Cpu!Src, Back!Cpu!Advance, BP!Cpu!Advance, Back!Cpu!Clobbered, BP!Cpu!Clobbered
<1>12. Back!Cpu!JumpAlways <=> BP!Cpu!JumpAlways
  BY <1>2, <1>3
    DEF Back!Cpu!JumpAlways, BP!Cpu!JumpAlways, Back!Cpu!Fetch, BP!Cpu!Fetch,
        Back!Cpu!JumpTo, BP!Cpu!JumpTo, Back!Cpu!LineOf, BP!Cpu!LineOf
<1>13. Back!Cpu!JumpOnCondition <=> BP!Cpu!JumpOnCondition
  BY <1>2, <1>3
    DEF Back!Cpu!JumpOnCondition, BP!Cpu!JumpOnCondition, Back!Cpu!Fetch, BP!Cpu!Fetch,
        Back!Cpu!JumpTo, BP!Cpu!JumpTo, Back!Cpu!LineOf, BP!Cpu!LineOf, Back!Cpu!Advance,
        BP!Cpu!Advance
<1>14. Back!Cpu!PassLabel <=> BP!Cpu!PassLabel
  BY <1>2, <1>3
    DEF Back!Cpu!PassLabel, BP!Cpu!PassLabel, Back!Cpu!Fetch, BP!Cpu!Fetch,
        Back!Cpu!Advance, BP!Cpu!Advance
<1>15. Back!Cpu!Push <=> BP!Cpu!Push
  BY <1>2, <1>3
    DEF Back!Cpu!Push, BP!Cpu!Push, Back!Cpu!Fetch, BP!Cpu!Fetch, Back!Cpu!Src, BP!Cpu!Src,
        Back!Cpu!Advance, BP!Cpu!Advance
<1>16. Back!Cpu!Pop <=> BP!Cpu!Pop
  BY <1>2, <1>3
    DEF Back!Cpu!Pop, BP!Cpu!Pop, Back!Cpu!Fetch, BP!Cpu!Fetch, Back!Cpu!Dst, BP!Cpu!Dst,
        Back!Cpu!Advance, BP!Cpu!Advance
<1>17. Back!Cpu!Return <=> BP!Cpu!Return
  BY <1>2, <1>3
    DEF Back!Cpu!Return, BP!Cpu!Return, Back!Cpu!Fetch, BP!Cpu!Fetch,
        Back!Cpu!ReturnAddress, BP!Cpu!ReturnAddress
<1> QED
  BY <1>1, <1>4, <1>5, <1>6, <1>7, <1>8, <1>9, <1>10, <1>11, <1>12, <1>13, <1>14, <1>15, <1>16, <1>17
    DEF Back!Cpu!Execute, BP!Cpu!Execute

LEMMA SameBackend == Back!BackNext <=> BP!BackNext
BY SameCodeGen, SameProcessor
DEF Back!BackNext, Back!Compile, Back!Load, Back!Run, Back!Slots, Back!Boundary, Back!cpu_vars,
    Back!code_vars, BP!BackNext, BP!Compile, BP!Load, BP!Run, BP!Slots, BP!Boundary, BP!cpu_vars,
    BP!code_vars

(* Neither phase changes the tree or the code that it works on. *)
LEMMA AnalyserKeepsTree == SP!Next => ast' = ast
BY DEF SP!Next, SP!Continue, SP!Throw, SP!Visiting, SP!ResolveNull, SP!VisitConstant,
        SP!VisitVar, SP!VisitUnaryOperator, SP!VisitBinaryOperator, SP!VisitConditional,
        SP!VisitAssignment, SP!VisitDeclarationVariable, SP!VisitReturnOrExpressionStmt,
        SP!VisitNullStmt, SP!VisitCompoundStmt, SP!VisitIfStatement, SP!VisitFunction,
        SP!VisitBlock, SP!CloseScope, SP!Accept

LEMMA GeneratorKeepsTree == GP!Next => ast' = ast
BY DEF GP!VisitConstant, GP!VisitVar, GP!VisitUnaryOperator, GP!VisitAnd, GP!VisitOr,
        GP!VisitBinaryOperator, GP!VisitRightOperand, GP!VisitAssignment, GP!VisitConditional,
        GP!BranchConditional, GP!VisitReturnStmt, GP!VisitIfStatement, GP!BranchIfElse,
        GP!BranchIf, GP!VisitExpressionStmt, GP!VisitNullStmt, GP!VisitDeclarationVariable,
        GP!VisitCompoundStmt, GP!VisitBlock, GP!VisitFunction, GP!EmitReady,
        GP!EmitConditionalJump, GP!EmitCopyOfCurrent, GP!EmitReturnOfCurrent,
        GP!EmitUnaryOfCurrent, GP!EmitBinaryOfCurrent, GP!SetCurrent, GP!VisitExpr,
        GP!VisitStmt, GP!Execute, GP!Next

LEMMA CodeGenKeepsTacky == BP!Next => tacky' = tacky
BY DEF BP!PushBack, BP!VisitReturn, BP!VisitNot, BP!VisitUnary, BP!VisitDivision,
        BP!VisitRelational, BP!VisitArithmetic, BP!VisitJump, BP!VisitJumpIfZero,
        BP!VisitJumpIfNotZero, BP!VisitCopy, BP!VisitLabel, BP!BeginAllocation,
        BP!ReplaceNewPseudo, BP!ReplaceKnownPseudo, BP!KeepOperand, BP!NextInstruction,
        BP!BeginPrinting, BP!PrintInstruction, BP!EndPrinting, BP!VisitInstruction,
        BP!AllocatePseudo, BP!Next

-----------------------------------------------------------------------------
(* The inductive invariant. *)

(* TackyGen before generate_tacky is called, on the tree of the analyser. *)
GeneratorIdle ==
  /\ todo = <<GP!Accept(ast)>>
  /\ instructions = <<>>
  /\ current_val = GP!NoVal
  /\ tmp_counter = 0
  /\ label_counter = 0

(* CodeGen before it is called, and the processor before the program is.   *)
BackIdle == BP!CodeGenStart /\ BP!MachineStart

CInv ==
  /\ stage \in {"analyse", "tacky", "assembly"}
  /\ SP!IInv
  /\ stage = "analyse" => GeneratorIdle
  /\ stage # "analyse" => verdict = "accepted"
  /\ stage = "tacky" => GP!IInv /\ GP!TInv /\ GP!EndsWithReturn
  /\ BP!BackIInv
  /\ stage # "assembly" => BackIdle
  /\ CodeGenPrecondition

(* The tree that is handed on is one that TackyGen can be given. *)
LEMMA AcceptedProgram ==
  ASSUME SP!IInv, verdict = "accepted"
  PROVE  ast \in GP!Program
<1>1. \E nodes \in SUBSET Node :
        ast \in nodes /\ \A n \in nodes : SP!CheckedShape(n) /\ SP!Children(n) \subseteq nodes
  BY SP!AcceptedFollows, NodesResolved DEF SP!AcceptedIsChecked
<1>2. ast \in Checked
  BY <1>1 DEF Checked, SP!CheckedShape, CheckedShape, SP!Nil, Nil
<1>3. ast.k = "Function"
  BY DEF SP!IInv, SP!TypeOK, SP!Program
<1> QED
  BY <1>2, <1>3 DEF GP!Program

(* The invariants of the components hold of their initial states. *)
LEMMA AnalyserInit == SP!Init => SP!IInv
BY SP!InitEstablishes, NodesResolved

LEMMA GeneratorInit == GP!Init => GP!IInv /\ GP!TInv /\ GP!EndsWithReturn
BY GP!InitEstablishes, GP!TempInit, GP!EndInit, NodesParsed, NodesChecked

LEMMA BackendInit == BP!BackInit => BP!BackIInv
BY BP!BackInitEstablishes, CodeTyped, MachineTyped

LEMMA BackendCalled == (BP!BackInit => BP!BackIInv)'
BY BackendInit, PTL

(* And their steps keep them. *)
LEMMA AnalyserNext == SP!IInv /\ [SP!Next]_(SP!vars) => SP!IInv'
BY SP!NextPreserves, NodesResolved

LEMMA GeneratorNext ==
  ASSUME GP!IInv, GP!TInv, GP!EndsWithReturn, [GP!Next]_(GP!vars)
  PROVE  GP!IInv' /\ GP!TInv' /\ GP!EndsWithReturn'
BY GP!NextPreserves, GP!TempNext, GP!EndNext, NodesParsed, NodesChecked

LEMMA BackendNext == BP!BackIInv /\ [BP!BackNext]_(BP!vars) => BP!BackIInv'
BY BP!BackNextPreserves, CodeTyped, MachineTyped

(* The phases before leave the back end alone. *)
LEMMA BackKept ==
  ASSUME UNCHANGED back_vars, BP!BackIInv
  PROVE  BP!BackIInv' /\ (BackIdle => BackIdle')
<1>1. UNCHANGED <<phase, tacky, next, operand, asm_instructions, cur_offset, offset_map,
                  out, origin, out_origin, ip, reg, mem, flags, status, settled>>
  BY DEF back_vars
<1>2. UNCHANGED BP!vars
  BY <1>1 DEF BP!vars, BP!code_vars, BP!cpu_vars
<1>3. BP!BackIInv'
  BY <1>2, BackendNext
<1>4. BackIdle => BackIdle'
  BY <1>1 DEF BackIdle, BP!CodeGenStart, BP!MachineStart, BP!Cpu!PowerOff, BP!Cpu!Clobbered
<1> QED
  BY <1>3, <1>4

LEMMA InitEstablishes == Init => CInv
<1> SUFFICES ASSUME Init PROVE CInv
  OBVIOUS
<1>1. SP!IInv
  BY SameAnalyserInit, AnalyserInit DEF Init
<1>2. GeneratorIdle
  BY DEF Init, Generator!Init, GeneratorIdle, Generator!Accept, GP!Accept,
         Generator!NoVal, GP!NoVal
<1>3. tacky \in Seq(TackyInstruction) /\ tacky = <<>> /\ BackIdle
  BY DEF Init, Back!BackInit, Back!Init, Back!CodeGenStart, Back!MachineStart,
         Back!Cpu!PowerOff, Back!Cpu!Clobbered, Back!Cpu!RegASM, BackIdle, BP!CodeGenStart,
         BP!MachineStart, BP!Cpu!PowerOff, BP!Cpu!Clobbered, BP!Cpu!RegASM
<1>4. BP!BackIInv
  BY <1>3, BackendInit DEF BP!BackInit, BP!Init, BackIdle
<1> QED
  BY <1>1, <1>2, <1>3, <1>4 DEF Init, CInv, CodeGenPrecondition

LEMMA NextPreserves == CInv /\ [Next]_vars => CInv'
<1> SUFFICES ASSUME CInv, [Next]_vars PROVE CInv'
  OBVIOUS
<1>1. CASE Analyse
  <2>1. SP!Next /\ stage = "analyse" /\ stage' = "analyse"
    BY <1>1, SameAnalyser DEF Analyse
  <2>2. SP!IInv'
    BY <2>1, AnalyserNext DEF CInv
  <2>3. GeneratorIdle'
    BY <1>1, <2>1, AnalyserKeepsTree DEF CInv, GeneratorIdle, Analyse, tacky_vars
  <2>5. BP!BackIInv' /\ BackIdle'
    BY <1>1, <2>1, BackKept DEF CInv, Analyse
  <2> QED
    BY <2>1, <2>2, <2>3, <2>5 DEF CInv, CodeGenPrecondition
<1>2. CASE Analysed
  <2>1. /\ stage = "analyse" /\ stage' = "tacky" /\ verdict = "accepted" /\ verdict' = verdict
        /\ ast' = ast
    BY <1>2 DEF Analysed, sem_vars
  <2>2. SP!IInv'
    BY <1>2, AnalyserNext DEF CInv, Analysed, sem_vars, SP!vars
  <2>4. BP!BackIInv' /\ BackIdle'
    BY <1>2, <2>1, BackKept DEF CInv, Analysed
  <2>5. GP!Init
    BY <2>1, AcceptedProgram DEF CInv, GP!Init, GeneratorIdle
  <2>6. GP!IInv' /\ GP!TInv' /\ GP!EndsWithReturn'
    BY <1>2, <2>1, <2>5, GeneratorInit, GeneratorNext DEF Analysed, tacky_vars, GP!vars
  <2> QED
    BY <2>1, <2>2, <2>4, <2>6 DEF CInv, CodeGenPrecondition
<1>3. CASE Generate
  <2>1. GP!Next /\ stage = "tacky" /\ stage' = "tacky"
    BY <1>3, SameGenerator DEF Generate
  <2>2. GP!IInv' /\ GP!TInv' /\ GP!EndsWithReturn'
    BY <2>1, GeneratorNext DEF CInv
  <2>3. SP!IInv' /\ verdict' = "accepted"
    BY <1>3, <2>1, AnalyserNext, GeneratorKeepsTree DEF CInv, Generate, sem_vars, SP!vars
  <2>5. BP!BackIInv' /\ BackIdle'
    BY <1>3, <2>1, BackKept DEF CInv, Generate
  <2> QED
    BY <2>1, <2>2, <2>3, <2>5 DEF CInv, CodeGenPrecondition
<1>4. CASE Generated
  <2>1. stage = "tacky" /\ stage' = "assembly" /\ tacky' = instructions
    BY <1>4 DEF Generated
  <2>2. SP!IInv' /\ verdict' = "accepted"
    BY <1>4, <2>1, AnalyserNext DEF CInv, Generated, sem_vars, SP!vars
  <2>3. instructions \in Seq(TackyInstruction)
    BY <2>1, SameInstructions DEF CInv, GP!IInv, GP!TypeOK
  <2>4. BackIdle'
    BY <1>4, <2>1
    DEF CInv, Generated, BackIdle, BP!CodeGenStart, BP!MachineStart, BP!Cpu!PowerOff,
        BP!Cpu!Clobbered
  <2>5. BP!BackIInv'
    BY <2>1, <2>3, <2>4, BackendCalled DEF BP!BackInit, BP!Init, BackIdle
  <2>6. WellFormed(instructions)
    BY <1>4, <2>1, GP!WellFormedFollows, NodesParsed, NodesChecked, SameWellFormed
    DEF CInv, GP!GeneratesWellFormed, Generated, Generator!Finished, GP!Finished
  <2>7. CodeGenPrecondition'
    BY <2>1, <2>6 DEF CodeGenPrecondition
  <2> QED
    BY <2>1, <2>2, <2>5, <2>7 DEF CInv
<1>5. CASE CompileAndRun
  <2>1. stage = "assembly" /\ stage' = "assembly"
    BY <1>5 DEF CompileAndRun
  <2>2. SP!IInv' /\ verdict' = "accepted"
    BY <1>5, <2>1, AnalyserNext DEF CInv, CompileAndRun, sem_vars, SP!vars
  <2>3. BP!BackNext
    BY <1>5, SameBackend DEF CompileAndRun
  <2>4. BP!BackIInv'
    BY <2>3, BackendNext DEF CInv
  <2>5. tacky' = tacky
    BY <2>3, CodeGenKeepsTacky DEF BP!BackNext, BP!Compile, BP!Load, BP!Run, BP!code_vars
  <2> QED
    BY <2>1, <2>2, <2>4, <2>5 DEF CInv, CodeGenPrecondition
<1>6. CASE UNCHANGED vars
  <2>1. SP!IInv'
    BY <1>6, AnalyserNext DEF CInv, vars, sem_vars, SP!vars
  <2>2. BP!BackIInv' /\ (BackIdle => BackIdle')
    BY <1>6, BackKept DEF CInv, vars
  <2>3. stage' = "tacky" => GP!IInv' /\ GP!TInv' /\ GP!EndsWithReturn'
    BY <1>6, GeneratorNext DEF CInv, vars, tacky_vars, GP!vars
  <2> QED
    BY <1>6, <2>1, <2>2, <2>3
    DEF CInv, vars, sem_vars, tacky_vars, back_vars, GeneratorIdle, CodeGenPrecondition
<1> QED
  BY <1>1, <1>2, <1>3, <1>4, <1>5, <1>6 DEF Next

(* The invariants of the three components hold together: each phase starts *)
(* in a state that the proofs of its component start from.                 *)
THEOREM Composed == Spec => []CInv
BY InitEstablishes, NextPreserves, PTL DEF Spec

-----------------------------------------------------------------------------
(* Whatever tree the parser built, TackyGen follows no null pointer and    *)
(* finds a variable on the left of every assignment: main calls it only    *)
(* after the analyser has accepted the same tree.                          *)
THEOREM TackyPreconditionHolds == Spec => []TackyPrecondition
<1>1. CInv => TackyPrecondition
  <2> SUFFICES ASSUME CInv, stage = "tacky", NEW i \in DOMAIN todo,
                      todo[i].do \in {"accept", "branch"}
               PROVE  todo[i].node # Nil /\ CheckedShape(todo[i].node)
    BY DEF TackyPrecondition
  <2>1. todo[i] \in GP!Op
    BY LenProperties, ElementOfSeq DEF CInv, GP!IInv, GP!TypeOK
  <2>2. todo[i].node \in Checked
    BY <2>1 DEF GP!Op, GP!Expr, GP!Item, GP!Stmt, GP!Body, GP!Program
  <2>3. Nil \notin Node
    BY NodeAssumption DEF ParsedShape, Nil
  <2> QED
    BY <2>2, <2>3, CheckedIsClosed
<1> QED
  BY <1>1, Composed, PTL

(* Whatever program is compiled, the code that reaches CodeGen ends with a *)
(* return, has one label for every jump, and no operator in it writes its  *)
(* own second operand, which mov src1, dst would destroy.                  *)
THEOREM CodeGenPreconditionHolds == Spec => []CodeGenPrecondition
<1>1. CInv => CodeGenPrecondition
  BY DEF CInv
<1> QED
  BY <1>1, Composed, PTL

(* What the assembler and the frame need of the printed code. *)
AssemblyIsSound == Back!PrintedEncodable /\ Back!SlotsDisjoint

LEMMA SameChecks ==
  /\ Back!PrintedEncodable <=> BP!PrintedEncodable
  /\ Back!SlotsDisjoint <=> BP!SlotsDisjoint
BY DEF Back!InMemory, Back!SlotsDisjoint, Back!EveryOperandPlaced, Back!Encodable,
        Back!PrintedEncodable, BP!InMemory, BP!SlotsDisjoint, BP!EveryOperandPlaced,
        BP!Encodable, BP!PrintedEncodable

(* Whatever program is compiled, every line printed is an instruction that *)
(* the assembler accepts, and no two variables share a byte of the frame.  *)
THEOREM AssemblyHolds == Spec => []AssemblyIsSound
<1>1. CInv => AssemblyIsSound
  BY BP!PrintedFollows, CodeTyped, MachineTyped, SameChecks
  DEF CInv, BP!BackIInv, BP!IInv, AssemblyIsSound
<1> QED
  BY <1>1, Composed, PTL

(* What the program does to the machine that runs it. *)
ProgramIsContained == Back!FlagsOfComparison /\ Back!ReturnsToCaller

LEMMA SameProgram ==
  /\ Back!FlagsOfComparison <=> BP!FlagsOfComparison
  /\ Back!ReturnsToCaller <=> BP!ReturnsToCaller
BY DEF Back!InMemory, Back!Slots, Back!FlagsOfComparison, Back!StaysInFunction,
        Back!ReturnsToCaller, Back!Cpu!CallersFrame, Back!Cpu!CallSite, Back!Cpu!ReturnAddress,
        BP!InMemory, BP!Slots, BP!FlagsOfComparison, BP!StaysInFunction, BP!ReturnsToCaller,
        BP!Cpu!CallersFrame, BP!Cpu!CallSite, BP!Cpu!ReturnAddress

(* Whatever program is accepted and run, on whatever the registers and the *)
(* frame hold: it decides only on flags that it has just computed, stays   *)
(* in its code and in its slots, and returns to its caller with the stack  *)
(* and the frame pointer of the call.                                      *)
THEOREM ProgramHolds == Spec => []ProgramIsContained
<1>1. CInv => ProgramIsContained
  BY BP!FlagsFollow, BP!ReturnFollows, CodeTyped, MachineTyped, SameProgram
  DEF CInv, ProgramIsContained
<1> QED
  BY <1>1, Composed, PTL

-----------------------------------------------------------------------------
(***************************************************************************)
(* The program does what its TACKY code means: the refinement of the back  *)
(* end, for the code that TackyGen made.                                   *)
(***************************************************************************)

LEMMA SameMapping ==
  /\ Back!tacky_pc = BP!tacky_pc /\ Back!tacky_env = BP!tacky_env
  /\ Back!tacky_outcome = BP!tacky_outcome
BY DEF Back!tacky_pc, BP!tacky_pc, Back!tacky_env, BP!tacky_env, Back!tacky_outcome,
       BP!tacky_outcome

LEMMA SameMappingNext ==
  /\ Back!tacky_pc' = BP!tacky_pc' /\ Back!tacky_env' = BP!tacky_env'
  /\ Back!tacky_outcome' = BP!tacky_outcome'
<1>1. (/\ Back!tacky_pc = BP!tacky_pc /\ Back!tacky_env = BP!tacky_env
       /\ Back!tacky_outcome = BP!tacky_outcome)'
  BY SameMapping, PTL
<1> QED
  BY <1>1

LEMMA SameMeaningInit == Back!Meaning!Init <=> BP!Meaning!Init
BY SameMapping DEF Back!Meaning!Init, BP!Meaning!Init, Back!Meaning!Pending, BP!Meaning!Pending

LEMMA SameMeaning == Back!Meaning!Next <=> BP!Meaning!Next
<1>1. /\ \A x : Back!Meaning!Wrap(x) = BP!Meaning!Wrap(x)
      /\ \A b : Back!Meaning!Bool(b) = BP!Meaning!Bool(b)
      /\ \A x, y : Back!Meaning!Quotient(x, y) = BP!Meaning!Quotient(x, y)
      /\ \A x, y : Back!Meaning!Remainder(x, y) = BP!Meaning!Remainder(x, y)
      /\ Back!Meaning!Word = BP!Meaning!Word /\ Back!Meaning!MinInt = BP!Meaning!MinInt
  BY DEF Back!Meaning!Wrap, BP!Meaning!Wrap, Back!Meaning!Bool, BP!Meaning!Bool,
      Back!Meaning!Quotient, BP!Meaning!Quotient, Back!Meaning!Remainder,
      BP!Meaning!Remainder, Back!Meaning!Abs, BP!Meaning!Abs, Back!Meaning!Word,
      BP!Meaning!Word, Back!Meaning!Modulus, BP!Meaning!Modulus, Back!Meaning!MaxInt,
      BP!Meaning!MaxInt, Back!Meaning!MinInt, BP!Meaning!MinInt
<1>2. \A c : Back!Meaning!VariablesOf(c) = BP!Meaning!VariablesOf(c)
  BY DEF Back!Meaning!VariablesOf, BP!Meaning!VariablesOf, Back!Meaning!Named,
      BP!Meaning!Named, Back!Meaning!Sources, BP!Meaning!Sources,
      Back!Meaning!Destinations, BP!Meaning!Destinations
<1>3. Back!Meaning!Load <=> BP!Meaning!Load
  BY <1>1, <1>2, SameMapping, SameMappingNext
  DEF Back!Meaning!Load, BP!Meaning!Load, Back!Meaning!Pending, BP!Meaning!Pending,
      Back!Meaning!Running, BP!Meaning!Running
<1>4. \A v : Back!Meaning!ValueOf(v) = BP!Meaning!ValueOf(v)
  BY <1>1, SameMapping
  DEF Back!Meaning!ValueOf, BP!Meaning!ValueOf
<1>5. /\ \A op, x : Back!Meaning!Unary(op, x) = BP!Meaning!Unary(op, x)
      /\ \A op, x, y : Back!Meaning!Binary(op, x, y) = BP!Meaning!Binary(op, x, y)
  <2>1. ASSUME NEW op, NEW x
        PROVE  Back!Meaning!Unary(op, x) = BP!Meaning!Unary(op, x)
    <3>1. /\ Back!Meaning!Wrap(-x) = BP!Meaning!Wrap(-x)
          /\ Back!Meaning!Bool(x = 0) = BP!Meaning!Bool(x = 0)
      BY <1>1
    <3> QED
      BY <3>1 DEF Back!Meaning!Unary, BP!Meaning!Unary
  <2>2. ASSUME NEW op, NEW x, NEW y
        PROVE  Back!Meaning!Binary(op, x, y) = BP!Meaning!Binary(op, x, y)
    <3>1. /\ Back!Meaning!Wrap(x + y) = BP!Meaning!Wrap(x + y)
          /\ Back!Meaning!Wrap(x - y) = BP!Meaning!Wrap(x - y)
          /\ Back!Meaning!Wrap(x * y) = BP!Meaning!Wrap(x * y)
          /\ Back!Meaning!Quotient(x, y) = BP!Meaning!Quotient(x, y)
          /\ Back!Meaning!Remainder(x, y) = BP!Meaning!Remainder(x, y)
          /\ Back!Meaning!Bool(x = y) = BP!Meaning!Bool(x = y)
          /\ Back!Meaning!Bool(x # y) = BP!Meaning!Bool(x # y)
          /\ Back!Meaning!Bool(x < y) = BP!Meaning!Bool(x < y)
          /\ Back!Meaning!Bool(x > y) = BP!Meaning!Bool(x > y)
          /\ Back!Meaning!Bool(x <= y) = BP!Meaning!Bool(x <= y)
          /\ Back!Meaning!Bool(x >= y) = BP!Meaning!Bool(x >= y)
      BY <1>1
    <3> QED
      BY <3>1 DEF Back!Meaning!Binary, BP!Meaning!Binary
  <2> QED
    BY <2>1, <2>2
<1>6. \A i : Back!Meaning!Traps(i) <=> BP!Meaning!Traps(i)
  BY <1>1, <1>4
  DEF Back!Meaning!Traps, BP!Meaning!Traps, Back!Meaning!Divides, BP!Meaning!Divides
<1>7. \A kinds : Back!Meaning!At(kinds) <=> BP!Meaning!At(kinds)
  BY SameMapping
  DEF Back!Meaning!At, BP!Meaning!At, Back!Meaning!Running, BP!Meaning!Running
<1>8. \A v, x : Back!Meaning!Assign(v, x) <=> BP!Meaning!Assign(v, x)
  BY SameMapping, SameMappingNext
  DEF Back!Meaning!Assign, BP!Meaning!Assign
<1>9. \A o : Back!Meaning!Stop(o) <=> BP!Meaning!Stop(o)
  BY SameMapping, SameMappingNext
  DEF Back!Meaning!Stop, BP!Meaning!Stop
<1>10. \A i : Back!Meaning!GoTo(i) <=> BP!Meaning!GoTo(i)
  BY SameMapping, SameMappingNext
  DEF Back!Meaning!GoTo, BP!Meaning!GoTo
<1>11. \A l : Back!Meaning!Find(l) = BP!Meaning!Find(l)
  BY DEF Back!Meaning!Find, BP!Meaning!Find, Back!Meaning!Label, BP!Meaning!Label
<1>12. Back!Meaning!StepUnary <=> BP!Meaning!StepUnary
  BY <1>4, <1>5, <1>7, <1>8, SameMapping
  DEF Back!Meaning!StepUnary, BP!Meaning!StepUnary
<1>13. Back!Meaning!StepBinary <=> BP!Meaning!StepBinary
  BY <1>4, <1>5, <1>6, <1>7, <1>8, SameMapping
  DEF Back!Meaning!StepBinary, BP!Meaning!StepBinary
<1>14. Back!Meaning!StepTrap <=> BP!Meaning!StepTrap
  BY <1>6, <1>7, <1>9, SameMapping
  DEF Back!Meaning!StepTrap, BP!Meaning!StepTrap, Back!Meaning!Trapped,
      BP!Meaning!Trapped
<1>15. Back!Meaning!StepCopy <=> BP!Meaning!StepCopy
  BY <1>4, <1>7, <1>8, SameMapping
  DEF Back!Meaning!StepCopy, BP!Meaning!StepCopy
<1>16. Back!Meaning!StepLabel <=> BP!Meaning!StepLabel
  BY <1>7, <1>10, SameMapping
  DEF Back!Meaning!StepLabel, BP!Meaning!StepLabel
<1>17. Back!Meaning!StepJump <=> BP!Meaning!StepJump
  BY <1>4, <1>7, <1>10, <1>11, SameMapping
  DEF Back!Meaning!StepJump, BP!Meaning!StepJump
<1>18. Back!Meaning!StepReturn <=> BP!Meaning!StepReturn
  BY <1>4, <1>7, <1>9, SameMapping
  DEF Back!Meaning!StepReturn, BP!Meaning!StepReturn, Back!Meaning!Returned,
      BP!Meaning!Returned
<1> QED
  BY <1>3, <1>12, <1>13, <1>14, <1>15, <1>16, <1>17, <1>18
  DEF Back!Meaning!Next, BP!Meaning!Next, Back!Meaning!Step, BP!Meaning!Step

LEMMA MeaningStarts == BP!BackInit => BP!MeaningInv
BY BP!MeaningInit, CodeTyped, MachineTyped

LEMMA MeaningCalled == (BP!BackInit => BP!MeaningInv)'
BY MeaningStarts, PTL

LEMMA MeaningGoes == BP!BackIInv /\ BP!MeaningInv /\ [BP!BackNext]_(BP!vars) => BP!MeaningInv'
BY BP!MeaningNext, CodeTyped, MachineTyped

LEMMA StepRefines ==
  BP!BackIInv /\ BP!MeaningInv /\ [BP!BackNext]_(BP!vars) =>
    [BP!Meaning!Next]_<<BP!tacky_pc, BP!tacky_env, BP!tacky_outcome>>
BY BP!RefinesStep, CodeTyped, MachineTyped

LEMMA InitMeans == Init => BP!MeaningInv /\ Back!Meaning!Init
<1> SUFFICES ASSUME Init PROVE BP!MeaningInv /\ Back!Meaning!Init
  OBVIOUS
<1>1. tacky \in Seq(TackyInstruction) /\ tacky = <<>> /\ BackIdle
  BY DEF Init, Back!BackInit, Back!Init, Back!CodeGenStart, Back!MachineStart,
         Back!Cpu!PowerOff, Back!Cpu!Clobbered, Back!Cpu!RegASM, BackIdle, BP!CodeGenStart,
         BP!MachineStart, BP!Cpu!PowerOff, BP!Cpu!Clobbered, BP!Cpu!RegASM
<1>2. BP!BackInit
  BY <1>1 DEF BP!BackInit, BP!Init, BackIdle
<1>3. BP!Meaning!Init
  BY <1>2, BP!RefinesInit, CodeTyped, MachineTyped
<1> QED
  BY <1>2, <1>3, MeaningStarts, SameMeaningInit

(* The function that CodeGen is called on is not yet compiled, and nothing *)
(* of it is visible before.                                                *)
LEMMA CallMeans ==
  ASSUME CInv, Generated
  PROVE  /\ BP!MeaningInv'
         /\ UNCHANGED <<BP!tacky_pc, BP!tacky_env, BP!tacky_outcome>>
<1>1. stage = "tacky" /\ tacky' = instructions
  BY DEF Generated
<1>2. instructions \in Seq(TackyInstruction)
  BY <1>1, SameInstructions DEF CInv, GP!IInv, GP!TypeOK
<1>3. BackIdle'
  BY <1>1
  DEF CInv, Generated, BackIdle, BP!CodeGenStart, BP!MachineStart, BP!Cpu!PowerOff,
      BP!Cpu!Clobbered
<1>4. BP!MeaningInv'
  BY <1>1, <1>2, <1>3, MeaningCalled DEF BP!BackInit, BP!Init, BackIdle
<1>5. UNCHANGED <<BP!tacky_pc, BP!tacky_env, BP!tacky_outcome>>
  BY DEF Generated, BP!tacky_pc, BP!tacky_env, BP!tacky_outcome
<1> QED
  BY <1>4, <1>5

LEMMA NextMeans ==
  CInv /\ BP!MeaningInv /\ [Next]_vars =>
    /\ BP!MeaningInv'
    /\ [Back!Meaning!Next]_<<Back!tacky_pc, Back!tacky_env, Back!tacky_outcome>>
<1> SUFFICES ASSUME CInv, BP!MeaningInv, [Next]_vars
             PROVE  /\ BP!MeaningInv'
                    /\ [BP!Meaning!Next]_<<BP!tacky_pc, BP!tacky_env, BP!tacky_outcome>>
  BY SameMapping, SameMappingNext, SameMeaning
<1>1. BP!BackIInv
  BY DEF CInv
<1>2. CASE Generated
  BY <1>2, CallMeans
<1>3. CASE UNCHANGED back_vars
  <2>1. UNCHANGED <<phase, tacky, next, operand, asm_instructions, cur_offset, offset_map,
                    out, origin, out_origin, ip, reg, mem, flags, status, settled>>
    BY <1>3 DEF back_vars
  <2>2. UNCHANGED BP!vars
    BY <2>1 DEF BP!vars, BP!code_vars, BP!cpu_vars
  <2> QED
    BY <1>1, <2>2, MeaningGoes, StepRefines
<1>4. CASE CompileAndRun
  <2>1. BP!BackNext
    BY <1>4, SameBackend DEF CompileAndRun
  <2> QED
    BY <1>1, <2>1, MeaningGoes, StepRefines
<1> QED
  BY <1>2, <1>3, <1>4 DEF Next, Analyse, Analysed, Generate, vars

(* Whatever program the parser built and the analyser accepted: what the   *)
(* processor does with the lines printed for it is what the TACKY code     *)
(* that TackyGen made of it means.  The theorem about the back end asks    *)
(* for well-formed code; that this is what it gets is part of the proof.   *)
THEOREM MeaningHolds == Spec => Back!ImplementsTacky
<1>1. Init => CInv /\ BP!MeaningInv /\ Back!Meaning!Init
  BY InitEstablishes, InitMeans
<1>2. CInv /\ BP!MeaningInv /\ [Next]_vars => CInv' /\ BP!MeaningInv'
  BY NextPreserves, NextMeans
<1>3. CInv /\ BP!MeaningInv /\ [Next]_vars =>
        [Back!Meaning!Next]_<<Back!tacky_pc, Back!tacky_env, Back!tacky_outcome>>
  BY NextMeans
<1> QED
  BY <1>1, <1>2, <1>3, PTL DEF Spec, Back!ImplementsTacky, Back!Meaning!Spec
=============================================================================
