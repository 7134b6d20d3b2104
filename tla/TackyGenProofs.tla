--------------------------- MODULE TackyGenProofs ---------------------------
(***************************************************************************)
(* Theorems about TackyGen, for every set of nodes.                        *)
(***************************************************************************)
EXTENDS TackyGen, SequenceTheorems, TLAPS

-----------------------------------------------------------------------------
(* Sequences. *)

(* A function on an initial segment of the naturals is a sequence. *)
LEMMA FunctionIsSeq ==
  ASSUME NEW S, NEW n \in Nat, NEW f \in [1..n -> S]
  PROVE  f \in Seq(S) /\ Len(f) = n
BY SeqDef

(* Running a body puts it in front of what was left on the agenda. *)
LEMMA RunIsSeq ==
  ASSUME NEW S, NEW agenda \in Seq(S), agenda # <<>>, NEW body \in Seq(S)
  PROVE  LET new == body \o Tail(agenda)
         IN  /\ new \in Seq(S)
             /\ Len(agenda) \in Nat \ {0}
             /\ Len(new) = Len(body) + Len(agenda) - 1
             /\ Head(agenda) = agenda[1]
             /\ \A i \in 1..Len(body) : new[i] = body[i]
             /\ \A i \in 2..Len(agenda) : new[Len(body) + i - 1] = agenda[i]
             /\ \A i \in 1..Len(new) :
                  \/ i \in 1..Len(body) /\ new[i] = body[i]
                  \/ \E k \in 2..Len(agenda) : i = Len(body) + k - 1 /\ new[i] = agenda[k]
<1> DEFINE new == body \o Tail(agenda)
<1>1. /\ Tail(agenda) \in Seq(S)
      /\ Len(Tail(agenda)) = Len(agenda) - 1
      /\ \A i \in 1..Len(Tail(agenda)) : Tail(agenda)[i] = agenda[i + 1]
  BY HeadTailProperties
<1>2. Len(agenda) \in Nat \ {0} /\ Len(body) \in Nat
  BY EmptySeq, LenProperties
<1>3. /\ new \in Seq(S)
      /\ Len(new) = Len(body) + Len(Tail(agenda))
      /\ \A i \in 1..Len(body) + Len(Tail(agenda)) :
           new[i] = IF i <= Len(body) THEN body[i] ELSE Tail(agenda)[i - Len(body)]
  BY <1>1, ConcatProperties
<1>4. \A i \in 1..Len(body) : new[i] = body[i]
  BY <1>1, <1>2, <1>3
<1>5. \A k \in 2..Len(agenda) : new[Len(body) + k - 1] = agenda[k]
  <2> SUFFICES ASSUME NEW k \in 2..Len(agenda) PROVE new[Len(body) + k - 1] = agenda[k]
    OBVIOUS
  <2>1. new[Len(body) + k - 1] = Tail(agenda)[k - 1]
    BY <1>1, <1>2, <1>3
  <2> QED
    BY <2>1, <1>1, <1>2
<1>6. \A i \in 1..Len(new) :
        \/ i \in 1..Len(body) /\ new[i] = body[i]
        \/ \E k \in 2..Len(agenda) : i = Len(body) + k - 1 /\ new[i] = agenda[k]
  <2> SUFFICES ASSUME NEW i \in 1..Len(new), i \notin 1..Len(body)
               PROVE  \E k \in 2..Len(agenda) : i = Len(body) + k - 1 /\ new[i] = agenda[k]
    BY <1>4
  <2> WITNESS i - Len(body) + 1 \in 2..Len(agenda)
  <2> QED
    BY <1>1, <1>2, <1>3, <1>5
<1> QED
  BY <1>1, <1>2, <1>3, <1>4, <1>5, <1>6

(* The same of an agenda that has become next, as one fact.                 *)
RunOf(S, agenda, body, next) ==
  /\ next \in Seq(S)
  /\ Len(agenda) \in Nat \ {0}
  /\ Len(next) = Len(body) + Len(agenda) - 1
  /\ Head(agenda) = agenda[1]
  /\ \A i \in 1..Len(body) : next[i] = body[i]
  /\ \A i \in 2..Len(agenda) : next[Len(body) + i - 1] = agenda[i]
  /\ \A i \in 1..Len(next) :
       \/ i \in 1..Len(body) /\ next[i] = body[i]
       \/ \E k \in 2..Len(agenda) : i = Len(body) + k - 1 /\ next[i] = agenda[k]

LEMMA RunReplaces ==
  ASSUME NEW S, NEW agenda \in Seq(S), agenda # <<>>, NEW body \in Seq(S),
         NEW next, next = body \o Tail(agenda)
  PROVE  RunOf(S, agenda, body, next)
BY RunIsSeq DEF RunOf

-----------------------------------------------------------------------------
(* Nodes. *)

(* The children of a node, by its class. *)
LEMMA Children ==
  ASSUME NEW n \in Node
  PROVE  /\ n.k = "Constant" => n.value \in Int
         /\ n.k = "Var" => n.id \in Ident
         /\ n.k = "UnaryOperator" => n.op \in UnaryOpType /\ n.expr \in Expr
         /\ n.k = "BinaryOperator" =>
              n.op \in BinaryOpType /\ n.left \in Expr /\ n.right \in Expr
         /\ n.k = "Assignment" =>
              n.left \in Expr /\ n.left.id \in Ident /\ n.right \in Expr
         /\ n.k = "Conditional" =>
              n.cond \in Expr /\ n.true \in Expr /\ n.false \in Expr
         /\ n.k = "ReturnStmt" => n.expr \in Expr
         /\ n.k = "IfStatement" =>
              n.cond \in Expr /\ n.then \in Stmt /\ (n.else # Nil => n.else \in Stmt)
         /\ n.k = "ExpressionStmt" => n.expr \in Expr
         /\ n.k = "CompoundStmt" => n.block \in Body
         /\ n.k = "DeclarationVariable" =>
              n.id \in Ident /\ (n.init # Nil => n.init \in Expr)
         /\ n.k = "Block" => n.items \in Seq(Item)
         /\ n.k = "Function" => n.block \in Body
<1>1. ParsedShape(n) /\ CheckedShape(n)
  BY NodeAssumption, CheckedAssumption
<1>2. CASE n.k = "Assignment"
  <2>1. n.left \in Expr /\ n.left.k = "Var" /\ n.right \in Expr
    BY <1>1, <1>2 DEF ParsedShape, CheckedShape
  <2>2. n.left \in Node
    BY <2>1 DEF Expr
  <2>3. n.left.id \in Ident
    BY <2>1, <2>2, NodeAssumption DEF ParsedShape
  <2> QED
    BY <2>1, <2>3, <1>2
<1>3. CASE n.k # "Assignment"
  BY <1>1, <1>3 DEF ParsedShape, CheckedShape
<1> QED
  BY <1>2, <1>3

(* What may stand in an agenda entry that visits a node. *)
Visitable == Expr \cup Item \cup Body \cup Program

LEMMA VisitableIsNode == Visitable \subseteq Node
BY DEF Visitable, Expr, Item, Stmt, Body, Program

LEMMA AcceptIsOp == \A n \in Visitable : Accept(n) \in Op /\ Branch(n) \in Op
BY DEF Visitable, Accept, Branch, Op

-----------------------------------------------------------------------------
(* The promises of an agenda survive a step that runs a body, when the     *)
(* body keeps them itself.                                                 *)

LEMMA RunReady ==
  ASSUME NEW S, NEW agenda \in Seq(S), agenda # <<>>, NEW body \in Seq(S),
         ValuesReady(agenda), ValuesReady(body),
         Produces(Head(agenda)) => \E q \in 1..Len(body) : Produces(body[q])
  PROVE  ValuesReady(body \o Tail(agenda))
<1> DEFINE new == body \o Tail(agenda)
<1> SUFFICES ASSUME NEW p \in 1..Len(new), Consumes(new[p])
             PROVE  \E q \in 1..p-1 : Produces(new[q])
  BY DEF ValuesReady
<1> HIDE DEF new
<1>1. Len(agenda) \in Nat \ {0} /\ Len(body) \in Nat
  BY RunIsSeq, LenProperties
<1>2. /\ Len(new) = Len(body) + Len(agenda) - 1
      /\ Head(agenda) = agenda[1]
      /\ \A i \in 1..Len(body) : new[i] = body[i]
      /\ \A i \in 2..Len(agenda) : new[Len(body) + i - 1] = agenda[i]
      /\ \A i \in 1..Len(new) :
           \/ i \in 1..Len(body) /\ new[i] = body[i]
           \/ \E k \in 2..Len(agenda) : i = Len(body) + k - 1 /\ new[i] = agenda[k]
  BY RunIsSeq DEF new
<1>3. CASE p \in 1..Len(body) /\ new[p] = body[p]
  <2>1. PICK q \in 1..p-1 : Produces(body[q])
    BY <1>3 DEF ValuesReady
  <2>2. q \in 1..Len(body)
    BY <1>1, <1>3
  <2> QED
    BY <1>2, <2>1, <2>2
<1>4. ASSUME NEW k \in 2..Len(agenda), p = Len(body) + k - 1, new[p] = agenda[k]
      PROVE  \E q \in 1..p-1 : Produces(new[q])
  <2>1. PICK r \in 1..k-1 : Produces(agenda[r])
    BY <1>1, <1>4 DEF ValuesReady
  <2>2. CASE r = 1
    <3>1. PICK q \in 1..Len(body) : Produces(body[q])
      BY <1>2, <2>1, <2>2
    <3>2. q \in 1..p-1
      BY <1>1, <1>4, <3>1
    <3> QED
      BY <1>2, <3>1, <3>2
  <2>3. CASE r # 1
    <3>1. r \in 2..Len(agenda) /\ Len(body) + r - 1 \in 1..p-1
      BY <1>1, <1>4, <2>1, <2>3
    <3>2. new[Len(body) + r - 1] = agenda[r]
      BY <1>2, <3>1
    <3> QED
      BY <2>1, <3>1, <3>2
  <2> QED
    BY <2>2, <2>3
<1> QED
  BY <1>2, <1>3, <1>4

LEMMA RunJumpsClosed ==
  ASSUME NEW S, NEW agenda \in Seq(S), agenda # <<>>, NEW body \in Seq(S),
         JumpsClosed(agenda), JumpsClosed(body)
  PROVE  JumpsClosed(body \o Tail(agenda))
<1> DEFINE new == body \o Tail(agenda)
<1> SUFFICES ASSUME NEW p \in 1..Len(new), PushesJump(new[p])
             PROVE  \E q \in p+1..Len(new) : new[q] = Emit(Label(JumpTarget(new[p])))
  BY DEF JumpsClosed
<1> HIDE DEF new
<1>1. Len(agenda) \in Nat \ {0} /\ Len(body) \in Nat
  BY RunIsSeq, LenProperties
<1>2. /\ Len(new) = Len(body) + Len(agenda) - 1
      /\ \A i \in 1..Len(body) : new[i] = body[i]
      /\ \A i \in 2..Len(agenda) : new[Len(body) + i - 1] = agenda[i]
      /\ \A i \in 1..Len(new) :
           \/ i \in 1..Len(body) /\ new[i] = body[i]
           \/ \E k \in 2..Len(agenda) : i = Len(body) + k - 1 /\ new[i] = agenda[k]
  BY RunIsSeq DEF new
<1>3. CASE p \in 1..Len(body) /\ new[p] = body[p]
  <2>1. PICK q \in p+1..Len(body) : body[q] = Emit(Label(JumpTarget(body[p])))
    BY <1>3 DEF JumpsClosed
  <2>2. q \in 1..Len(body) /\ q \in p+1..Len(new)
    BY <1>1, <1>2, <1>3
  <2> QED
    BY <1>2, <1>3, <2>1, <2>2
<1>4. ASSUME NEW k \in 2..Len(agenda), p = Len(body) + k - 1, new[p] = agenda[k]
      PROVE  \E q \in p+1..Len(new) : new[q] = Emit(Label(JumpTarget(new[p])))
  <2>0. k \in 1..Len(agenda)
    BY <1>1
  <2>1. PICK r \in k+1..Len(agenda) : agenda[r] = Emit(Label(JumpTarget(agenda[k])))
    BY <2>0, <1>4 DEF JumpsClosed
  <2>2. r \in 2..Len(agenda) /\ Len(body) + r - 1 \in p+1..Len(new)
    BY <1>1, <1>2, <1>4
  <2> QED
    BY <1>2, <1>4, <2>1, <2>2
<1> QED
  BY <1>2, <1>3, <1>4

LEMMA RunLabelsApart ==
  ASSUME NEW S, NEW agenda \in Seq(S), agenda # <<>>, NEW body \in Seq(S),
         NEW lo \in Nat, NEW hi \in Nat, lo <= hi,
         \A i \in 1..Len(agenda) : PushesLabel(agenda[i]) => agenda[i].ins.id.num \in Nat,
         \A i \in 1..Len(body) : PushesLabel(body[i]) => body[i].ins.id.num \in Nat,
         LabelsApart(agenda, 0, lo), LabelsApart(body, lo, hi)
  PROVE  LabelsApart(body \o Tail(agenda), 0, hi)
<1> DEFINE new == body \o Tail(agenda)
<1> SUFFICES ASSUME NEW p \in 1..Len(new), PushesLabel(new[p])
             PROVE  /\ 0 <= new[p].ins.id.num /\ new[p].ins.id.num < hi
                    /\ \A q \in 1..Len(new) : new[q] = new[p] => q = p
  BY DEF LabelsApart
<1> HIDE DEF new
<1>1. Len(agenda) \in Nat \ {0} /\ Len(body) \in Nat
  BY RunIsSeq, LenProperties
<1>2. /\ Len(new) = Len(body) + Len(agenda) - 1
      /\ \A i \in 1..Len(new) :
           \/ i \in 1..Len(body) /\ new[i] = body[i]
           \/ \E k \in 2..Len(agenda) : i = Len(body) + k - 1 /\ new[i] = agenda[k]
  BY RunIsSeq DEF new
<1>3. \A i \in 1..Len(body) : PushesLabel(body[i]) =>
         /\ lo <= body[i].ins.id.num /\ body[i].ins.id.num < hi
         /\ \A q \in 1..Len(body) : body[q] = body[i] => q = i
  BY DEF LabelsApart
<1>4. \A i \in 2..Len(agenda) : PushesLabel(agenda[i]) =>
         /\ 0 <= agenda[i].ins.id.num /\ agenda[i].ins.id.num < lo
         /\ \A q \in 2..Len(agenda) : agenda[q] = agenda[i] => q = i
  BY <1>1 DEF LabelsApart
<1>5. CASE p \in 1..Len(body) /\ new[p] = body[p]
  <2>1. 0 <= new[p].ins.id.num /\ new[p].ins.id.num < hi
    BY <1>3, <1>5
  <2>2. ASSUME NEW q \in 1..Len(new), new[q] = new[p] PROVE q = p
    <3>1. CASE q \in 1..Len(body) /\ new[q] = body[q]
      BY <1>3, <1>5, <2>2, <3>1
    <3>2. ASSUME NEW k \in 2..Len(agenda), new[q] = agenda[k] PROVE FALSE
      <4>1. PushesLabel(agenda[k]) /\ agenda[k] = body[p] /\ k \in 1..Len(agenda)
        BY <1>1, <1>5, <2>2, <3>2
      <4>2. agenda[k].ins.id.num < lo /\ lo <= body[p].ins.id.num
        BY <1>3, <1>4, <1>5, <4>1
      <4>3. agenda[k].ins.id.num \in Nat
        BY <4>1
      <4> QED
        BY <4>1, <4>2, <4>3, SMTT(30)
    <3> QED
      BY <1>2, <3>1, <3>2
  <2> QED
    BY <2>1, <2>2
<1>6. ASSUME NEW k \in 2..Len(agenda), p = Len(body) + k - 1, new[p] = agenda[k]
      PROVE  /\ 0 <= new[p].ins.id.num /\ new[p].ins.id.num < hi
             /\ \A q \in 1..Len(new) : new[q] = new[p] => q = p
  <2>0. agenda[k].ins.id.num \in Nat
    BY <1>1, <1>6
  <2>1. 0 <= new[p].ins.id.num /\ new[p].ins.id.num < hi
    BY <1>4, <1>6, <2>0
  <2>2. ASSUME NEW q \in 1..Len(new), new[q] = new[p] PROVE q = p
    <3>1. CASE q \in 1..Len(body) /\ new[q] = body[q]
      <4>1. PushesLabel(body[q]) /\ body[q] = agenda[k]
        BY <1>6, <2>2, <3>1
      <4>2. agenda[k].ins.id.num < lo /\ lo <= body[q].ins.id.num
        BY <1>3, <1>4, <1>6, <3>1, <4>1
      <4> QED
        BY <2>0, <4>1, <4>2
    <3>2. ASSUME NEW m \in 2..Len(agenda), q = Len(body) + m - 1, new[q] = agenda[m]
          PROVE  q = p
      BY <1>4, <1>6, <2>2, <3>2
    <3> QED
      BY <1>2, <3>1, <3>2
  <2> QED
    BY <2>1, <2>2
<1> QED
  BY <1>2, <1>5, <1>6

-----------------------------------------------------------------------------
(* The fields of an agenda entry. *)
LEMMA OpFields ==
  ASSUME NEW o \in Op
  PROVE  /\ o.do \in {"accept", "branch"} => o.node \in Visitable
         /\ o.do = "emit" => o.ins \in TackyInstruction
         /\ o.do \in {"jz", "jnz"} => o.target \in LabelId
         /\ o.do = "copy" => o.dst \in Variable
         /\ o.do = "unary" => o.op \in TackyUnaryOp
         /\ o.do = "binary" => o.op \in TackyBinaryOp /\ o.src1 \in Operand
         /\ o.do = "second" => o.op \in TackyBinaryOp /\ o.node \in Expr
         /\ o.do = "value" => o.val \in Operand
BY DEF Op, Visitable

LEMMA LabelFields ==
  ASSUME NEW i \in TackyInstruction, i.kind = "Label"
  PROVE  i.id \in LabelId /\ i.id.num \in Nat /\ i = Label(i.id)
<1>1. i \in [kind : {"Label"}, id : LabelId]
  BY DEF TackyInstruction
<1> QED
  BY <1>1 DEF LabelId, Label

LEMMA PushedLabelNumber ==
  ASSUME NEW agenda \in Seq(Op), NEW i \in 1..Len(agenda), PushesLabel(agenda[i])
  PROVE  agenda[i].ins.id.num \in Nat
<1>1. agenda[i] \in Op
  BY ElementOfSeq
<1> QED
  BY <1>1, OpFields, LabelFields DEF PushesLabel

-----------------------------------------------------------------------------
(* A step that opens a visit method: it replaces the head of the agenda,   *)
(* which pushes nothing, by a body.                                        *)
LEMMA VisitStep ==
  ASSUME IInv, todo # <<>>, ~PushesLabel(Head(todo)),
         NEW body \in Seq(Op), todo' = body \o Tail(todo),
         JumpsClosed(body), LabelsApart(body, label_counter, label_counter'),
         \/ current_val' \in Operand
         \/ /\ current_val' = current_val /\ ValuesReady(body)
            /\ Produces(Head(todo)) => \E q \in 1..Len(body) : Produces(body[q]),
         ast' = ast, instructions' = instructions,
         tmp_counter' \in Nat, label_counter' \in Nat, label_counter <= label_counter'
  PROVE  IInv'
<1>1. /\ todo \in Seq(Op) /\ instructions \in Seq(TackyInstruction)
      /\ label_counter \in Nat
  BY DEF IInv, TypeOK
<1>2. /\ todo' \in Seq(Op)
      /\ Len(todo) \in Nat \ {0}
      /\ Len(todo') = Len(body) + Len(todo) - 1
      /\ Head(todo) = todo[1]
      /\ \A i \in 2..Len(todo) : todo'[Len(body) + i - 1] = todo[i]
      /\ \A i \in 1..Len(todo') :
           \/ i \in 1..Len(body) /\ todo'[i] = body[i]
           \/ \E k \in 2..Len(todo) : i = Len(body) + k - 1 /\ todo'[i] = todo[k]
  <2>1. RunOf(Op, todo, body, todo')
    BY <1>1, RunReplaces
  <2> QED
    BY <2>1 DEF RunOf
<1>3. Len(body) \in Nat /\ Len(instructions) \in Nat
  BY <1>1, LenProperties
<1>4. TypeOK'
  BY <1>1, <1>2 DEF IInv, TypeOK, TackyVal
<1>5. (current_val = NoVal => ValuesReady(todo))'
  <2>1. NoVal \notin Operand
    BY DEF NoVal, Operand
  <2>2. CASE current_val' = current_val /\ ValuesReady(body)
             /\ (Produces(Head(todo)) => \E q \in 1..Len(body) : Produces(body[q]))
    BY <1>1, <2>2, RunReady DEF IInv
  <2> QED
    BY <2>1, <2>2
<1>6. JumpsClosed(todo)'
  BY <1>1, RunJumpsClosed DEF IInv
<1>7. LabelsApart(todo, 0, label_counter)'
  BY <1>1, RunLabelsApart, PushedLabelNumber DEF IInv
<1>8. JumpsResolved'
  <2> SUFFICES ASSUME NEW i \in 1..Len(instructions), Jumps(instructions[i]),
                      NEW q \in 1..Len(todo), todo[q] = Emit(Label(instructions[i].target))
               PROVE  \E r \in 1..Len(todo') : todo'[r] = Emit(Label(instructions[i].target))
    BY DEF IInv, JumpsResolved
  <2>1. PushesLabel(todo[q])
    BY DEF PushesLabel, Emit, Label
  <2>2. q \in 2..Len(todo)
    BY <1>2, <2>1
  <2>3. Len(body) + q - 1 \in 1..Len(todo')
    BY <1>2, <1>3, <2>2
  <2> QED
    BY <1>2, <2>2, <2>3
<1>9. LabelsPushed'
  <2> SUFFICES ASSUME NEW i \in 1..Len(instructions), instructions[i].kind = "Label"
               PROVE  /\ instructions[i].id.num < label_counter'
                      /\ \A q \in 1..Len(todo') : todo'[q] # Emit(instructions[i])
    BY DEF LabelsPushed
  <2>1. instructions[i] \in TackyInstruction
    BY <1>1, ElementOfSeq
  <2>2. instructions[i].id.num \in Nat
    BY <2>1, LabelFields
  <2>3. /\ instructions[i].id.num < label_counter
        /\ \A q \in 1..Len(todo) : todo[q] # Emit(instructions[i])
    BY DEF IInv, LabelsPushed
  <2>4. ASSUME NEW q \in 1..Len(body), body[q] = Emit(instructions[i]) PROVE FALSE
    <3>1. PushesLabel(body[q]) /\ body[q].ins = instructions[i]
      BY <2>4 DEF PushesLabel, Emit
    <3>2. label_counter <= instructions[i].id.num
      BY <3>1 DEF LabelsApart
    <3> QED
      BY <1>1, <2>2, <2>3, <3>2
  <2>5. \A k \in 2..Len(todo) : todo[k] # Emit(instructions[i])
    BY <1>2, <2>3
  <2>6. \A q \in 1..Len(todo') : todo'[q] # Emit(instructions[i])
    BY <1>2, <2>4, <2>5
  <2> QED
    BY <1>1, <2>2, <2>3, <2>6
<1>10. LabelsDefinedOnce'
  BY DEF IInv, LabelsDefinedOnce
<1> QED
  BY <1>4, <1>5, <1>6, <1>7, <1>8, <1>9, <1>10 DEF IInv

(***************************************************************************)
(* A step that pushes an instruction: the head of the agenda goes, and if  *)
(* the instruction is a jump or a label it is the one the head announced.  *)
(***************************************************************************)
LEMMA PushStep ==
  ASSUME IInv, todo # <<>>, NEW i \in TackyInstruction,
         instructions' = Append(instructions, i), todo' = <<>> \o Tail(todo),
         \/ current_val' \in Operand
         \/ current_val' = current_val /\ ~Produces(Head(todo)),
         Jumps(i) => PushesJump(Head(todo)) /\ i.target = JumpTarget(Head(todo)),
         i.kind = "Label" => Head(todo) = Emit(i),
         PushesLabel(Head(todo)) => Head(todo) = Emit(i),
         ast' = ast, tmp_counter' \in Nat, label_counter' = label_counter
  PROVE  IInv'
<1>1. /\ todo \in Seq(Op) /\ instructions \in Seq(TackyInstruction)
      /\ label_counter \in Nat
  BY DEF IInv, TypeOK
<1>2. <<>> \in Seq(Op) /\ Len(<<>>) = 0
  BY EmptySeq
<1>3. /\ todo' \in Seq(Op)
      /\ Len(todo) \in Nat \ {0}
      /\ Len(todo') = Len(todo) - 1
      /\ Head(todo) = todo[1]
      /\ \A k \in 2..Len(todo) : todo'[k - 1] = todo[k]
      /\ \A q \in 1..Len(todo') : q + 1 \in 2..Len(todo) /\ todo'[q] = todo[q + 1]
  <2>1. /\ todo' \in Seq(Op)
        /\ Len(todo) \in Nat \ {0}
        /\ Len(todo') = Len(<<>>) + Len(todo) - 1
        /\ Head(todo) = todo[1]
        /\ \A k \in 2..Len(todo) : todo'[Len(<<>>) + k - 1] = todo[k]
    BY <1>1, <1>2, RunIsSeq
  <2>2. \A k \in 2..Len(todo) : todo'[k - 1] = todo[k]
    BY <1>2, <2>1
  <2> QED
    BY <1>2, <2>1, <2>2
<1>4. /\ instructions' \in Seq(TackyInstruction)
      /\ Len(instructions) \in Nat
      /\ Len(instructions') = Len(instructions) + 1
      /\ \A k \in 1..Len(instructions) : instructions'[k] = instructions[k]
      /\ instructions'[Len(instructions) + 1] = i
  BY <1>1, AppendProperties, LenProperties
<1>5. TypeOK'
  BY <1>1, <1>3, <1>4 DEF IInv, TypeOK, TackyVal
<1>6. (current_val = NoVal => ValuesReady(todo))'
  <2>1. NoVal \notin Operand
    BY DEF NoVal, Operand
  <2>2. CASE current_val' = current_val /\ ~Produces(Head(todo))
    <3>1. ValuesReady(<<>>)
      BY <1>2 DEF ValuesReady
    <3> QED
      BY <1>1, <1>2, <2>2, <3>1, RunReady DEF IInv
  <2> QED
    BY <2>1, <2>2
<1>7. JumpsClosed(todo)'
  <2>1. JumpsClosed(<<>>)
    BY <1>2 DEF JumpsClosed
  <2> QED
    BY <1>1, <1>2, <2>1, RunJumpsClosed DEF IInv
<1>8. LabelsApart(todo, 0, label_counter)'
  <2>1. LabelsApart(<<>>, label_counter, label_counter)
    BY <1>2 DEF LabelsApart
  <2>2. \A k \in 1..Len(todo) : PushesLabel(todo[k]) => todo[k].ins.id.num \in Nat
    BY <1>1, PushedLabelNumber
  <2>3. /\ label_counter <= label_counter
        /\ \A k \in 1..Len(<<>>) : PushesLabel(<<>>[k]) => <<>>[k].ins.id.num \in Nat
    BY <1>1, <1>2
  <2>4. LabelsApart(todo, 0, label_counter)
    BY DEF IInv
  <2>5. LabelsApart(<<>> \o Tail(todo), 0, label_counter)
    BY <1>1, <1>2, <2>1, <2>2, <2>3, <2>4, RunLabelsApart
  <2> QED
    BY <2>5
<1>9. JumpsResolved'
  <2> SUFFICES ASSUME NEW k \in 1..Len(instructions'), Jumps(instructions'[k])
               PROVE  \/ \E j \in k+1..Len(instructions') :
                          instructions'[j] = Label(instructions'[k].target)
                      \/ \E q \in 1..Len(todo') :
                          todo'[q] = Emit(Label(instructions'[k].target))
    BY DEF JumpsResolved
  <2>1. CASE k = Len(instructions) + 1
    <3>1. Jumps(i) /\ instructions'[k] = i
      BY <1>4, <2>1
    <3>2. PICK q \in 2..Len(todo) : todo[q] = Emit(Label(i.target))
      BY <1>3, <3>1 DEF IInv, JumpsClosed
    <3>3. q - 1 \in 1..Len(todo') /\ todo'[q - 1] = Emit(Label(i.target))
      BY <1>3, <3>2
    <3> QED
      BY <3>1, <3>3
  <2>2. CASE k \in 1..Len(instructions)
    <3>1. instructions'[k] = instructions[k]
      BY <1>4, <2>2
    <3>2. ASSUME NEW j \in k+1..Len(instructions),
                 instructions[j] = Label(instructions[k].target)
          PROVE  \E m \in k+1..Len(instructions') :
                   instructions'[m] = Label(instructions[k].target)
      BY <1>4, <2>2, <3>2, SMTT(30)
    <3>3. ASSUME NEW q \in 1..Len(todo), todo[q] = Emit(Label(instructions[k].target))
          PROVE  \/ \E j \in k+1..Len(instructions') :
                      instructions'[j] = Label(instructions[k].target)
                 \/ \E r \in 1..Len(todo') :
                      todo'[r] = Emit(Label(instructions[k].target))
      <4>1. CASE q = 1
        <5>1. i = Label(instructions[k].target)
          BY <1>3, <3>3, <4>1 DEF PushesLabel, Emit, Label
        <5>2. Len(instructions) + 1 \in k+1..Len(instructions')
          BY <1>4, <2>2
        <5> QED
          BY <1>4, <5>1, <5>2
      <4>2. CASE q # 1
        <5>1. q - 1 \in 1..Len(todo') /\ todo'[q - 1] = todo[q]
          BY <1>3, <4>2
        <5> QED
          BY <3>3, <5>1
      <4> QED
        BY <4>1, <4>2
    <3> QED
      BY <2>2, <3>1, <3>2, <3>3 DEF IInv, JumpsResolved
  <2> QED
    BY <1>4, <2>1, <2>2
<1>10. LabelsPushed'
  <2> SUFFICES ASSUME NEW k \in 1..Len(instructions'), instructions'[k].kind = "Label"
               PROVE  /\ instructions'[k].id.num < label_counter
                      /\ \A q \in 1..Len(todo') : todo'[q] # Emit(instructions'[k])
    BY DEF LabelsPushed
  <2>1. CASE k \in 1..Len(instructions)
    BY <1>3, <1>4, <2>1 DEF IInv, LabelsPushed
  <2>2. CASE k = Len(instructions) + 1
    <3>1. instructions'[k] = i /\ todo[1] = Emit(i)
      BY <1>3, <1>4, <2>2
    <3>2. PushesLabel(todo[1]) /\ todo[1].ins = i
      BY <3>1, <2>2 DEF PushesLabel, Emit
    <3>3. /\ i.id.num < label_counter
          /\ \A q \in 1..Len(todo) : todo[q] = todo[1] => q = 1
      BY <1>3, <3>2 DEF IInv, LabelsApart
    <3> QED
      BY <1>3, <3>1, <3>3
  <2> QED
    BY <1>4, <2>1, <2>2, SMTT(30)
<1>11. LabelsDefinedOnce'
  <2>1. ASSUME NEW k \in 1..Len(instructions), instructions[k].kind = "Label",
               instructions[k] = i
        PROVE  FALSE
    BY <1>3, <2>1 DEF IInv, LabelsPushed
  <2> QED
    BY <1>4, <2>1 DEF IInv, LabelsDefinedOnce
<1> QED
  BY <1>5, <1>6, <1>7, <1>8, <1>9, <1>10, <1>11 DEF IInv

-----------------------------------------------------------------------------
(* The operators are converted to operators. *)
LEMMA ConvertUnop == \A op \in UnaryOpType : convert_unop[op] \in TackyUnaryOp
BY DEF UnaryOpType, convert_unop, TackyUnaryOp

LEMMA ConvertBinop ==
  \A op \in BinaryOpType \ {"And", "Or"} : convert_binop[op] \in TackyBinaryOp
<1>1. /\ \A op \in ArithmeticOpType :
           convert_binop[op] \in {"ADD", "SUBTRACT", "MULTIPLY", "DIVIDE", "REMAINDER"}
      /\ \A op \in RelationalOpType : convert_binop[op] \in RelationalOp
  BY DEF ArithmeticOpType, RelationalOpType, RelationalOp, convert_binop
<1> QED
  BY <1>1 DEF BinaryOpType, TackyBinaryOp

(* The variables and labels that a visit method makes. *)
LEMMA MadeNames ==
  ASSUME TypeOK
  PROVE  /\ make_temporary_name \in Variable
         /\ Variable \subseteq Operand
         /\ \A k \in Nat : \A p \in LabelPrefix : make_label_name(p, k) \in LabelId
         /\ \A x \in Ident : TackyVar(Source(x)) \in Variable
         /\ \A c \in Int : TackyConstant(c) \in Operand
BY DEF TypeOK, make_temporary_name, make_label_name, LabelId, LabelName, Variable,
       Operand, TackyVar, TackyConstant, Tmp, Source, Name, NoNumber

(* The node that a visit method or a branch is at. *)
LEMMA NodeAtHead ==
  ASSUME IInv, Doing("accept") \/ Doing("branch")
  PROVE  /\ todo # <<>>
         /\ Head(todo).node \in Visitable
         /\ Head(todo).node \in Node
         /\ ~PushesLabel(Head(todo))
         /\ Produces(Head(todo)) <=> Head(todo).node.k \in ExprKind
<1>1. todo \in Seq(Op) /\ todo # <<>>
  BY DEF IInv, TypeOK, Doing
<1>2. Head(todo) \in Op
  BY <1>1, HeadTailProperties
<1>3. Head(todo).do \in {"accept", "branch"}
  BY DEF Doing
<1>4. Head(todo).node \in Visitable /\ Head(todo).node \in Node
  BY <1>2, <1>3, OpFields, VisitableIsNode
<1> QED
  BY <1>1, <1>3, <1>4 DEF PushesLabel, Produces, Expr

(* A visit method that makes no label and no jump of its own. *)
LEMMA PlainVisit ==
  ASSUME IInv, todo # <<>>, ~PushesLabel(Head(todo)),
         NEW body \in Seq(Op), todo' = body \o Tail(todo),
         \A p \in 1..Len(body) : ~PushesJump(body[p]) /\ ~PushesLabel(body[p]),
         \A p \in 1..Len(body) : Consumes(body[p]) => p # 1 /\ Produces(body[1]),
         \/ current_val' \in Operand
         \/ /\ current_val' = current_val
            /\ Produces(Head(todo)) => \E q \in 1..Len(body) : Produces(body[q]),
         UNCHANGED <<ast, instructions, tmp_counter, label_counter>>
  PROVE  IInv'
<1>1. tmp_counter \in Nat /\ label_counter \in Nat
  BY DEF IInv, TypeOK
<1>2. ValuesReady(body)
  <2> SUFFICES ASSUME NEW p \in 1..Len(body), Consumes(body[p])
               PROVE  \E q \in 1..p-1 : Produces(body[q])
    BY DEF ValuesReady
  <2>1. 1 \in 1..p-1
    BY LenProperties
  <2> QED
    BY <2>1
<1>3. JumpsClosed(body) /\ LabelsApart(body, label_counter, label_counter')
  BY DEF JumpsClosed, LabelsApart
<1>4. /\ ast' = ast /\ instructions' = instructions
      /\ tmp_counter' \in Nat /\ label_counter' \in Nat /\ label_counter <= label_counter'
  BY <1>1
<1> QED
  BY <1>2, <1>3, <1>4, VisitStep

-----------------------------------------------------------------------------
(* The invariant is inductive: one lemma or one step per action. *)

(* What the statements of a body do. *)
LEMMA StatementsOfBodies ==
  /\ \A n \in Visitable :
       /\ Accept(n) \in Op /\ Branch(n) \in Op
       /\ ~Consumes(Accept(n)) /\ Consumes(Branch(n))
       /\ ~PushesJump(Accept(n)) /\ ~PushesLabel(Accept(n))
       /\ ~PushesJump(Branch(n)) /\ ~PushesLabel(Branch(n))
  /\ \A n \in Expr : n \in Visitable /\ Produces(Accept(n)) /\ Produces(Branch(n))
  /\ \A op \in TackyUnaryOp :
       /\ EmitUnary(op) \in Op /\ Produces(EmitUnary(op))
       /\ ~PushesJump(EmitUnary(op)) /\ ~PushesLabel(EmitUnary(op))
  /\ \A op \in TackyBinaryOp : \A v \in Operand :
       /\ EmitBinary(op, v) \in Op /\ Produces(EmitBinary(op, v))
       /\ ~PushesJump(EmitBinary(op, v)) /\ ~PushesLabel(EmitBinary(op, v))
  /\ \A op \in TackyBinaryOp : \A n \in Expr :
       /\ Second(op, n) \in Op /\ Produces(Second(op, n))
       /\ ~PushesJump(Second(op, n)) /\ ~PushesLabel(Second(op, n))
  /\ \A d \in Variable :
       /\ EmitCopy(d) \in Op /\ SetValue(d) \in Op
       /\ ~Consumes(SetValue(d)) /\ Produces(SetValue(d))
       /\ ~PushesJump(EmitCopy(d)) /\ ~PushesLabel(EmitCopy(d))
       /\ ~PushesJump(SetValue(d)) /\ ~PushesLabel(SetValue(d))
  /\ EmitReturn \in Op /\ ~PushesJump(EmitReturn) /\ ~PushesLabel(EmitReturn)
<1> USE DEF Consumes, Produces, PushesJump, PushesLabel
<1>1. /\ \A n \in Visitable :
           /\ Accept(n) \in Op /\ Branch(n) \in Op
           /\ ~Consumes(Accept(n)) /\ Consumes(Branch(n))
           /\ ~PushesJump(Accept(n)) /\ ~PushesLabel(Accept(n))
           /\ ~PushesJump(Branch(n)) /\ ~PushesLabel(Branch(n))
      /\ \A n \in Expr : n \in Visitable /\ Produces(Accept(n)) /\ Produces(Branch(n))
  BY DEF Op, Visitable, Accept, Branch
<1>2. /\ \A op \in TackyUnaryOp :
           /\ EmitUnary(op) \in Op /\ Produces(EmitUnary(op))
           /\ ~PushesJump(EmitUnary(op)) /\ ~PushesLabel(EmitUnary(op))
      /\ \A op \in TackyBinaryOp : \A v \in Operand :
           /\ EmitBinary(op, v) \in Op /\ Produces(EmitBinary(op, v))
           /\ ~PushesJump(EmitBinary(op, v)) /\ ~PushesLabel(EmitBinary(op, v))
      /\ \A op \in TackyBinaryOp : \A n \in Expr :
           /\ Second(op, n) \in Op /\ Produces(Second(op, n))
           /\ ~PushesJump(Second(op, n)) /\ ~PushesLabel(Second(op, n))
  BY DEF Op, EmitUnary, EmitBinary, Second
<1>3. /\ \A d \in Variable :
           /\ EmitCopy(d) \in Op /\ SetValue(d) \in Op
           /\ ~Consumes(SetValue(d)) /\ Produces(SetValue(d))
           /\ ~PushesJump(EmitCopy(d)) /\ ~PushesLabel(EmitCopy(d))
           /\ ~PushesJump(SetValue(d)) /\ ~PushesLabel(SetValue(d))
      /\ EmitReturn \in Op /\ ~PushesJump(EmitReturn) /\ ~PushesLabel(EmitReturn)
  BY DEF Op, EmitCopy, SetValue, EmitReturn, Variable, Operand
<1> QED
  BY <1>1, <1>2, <1>3

(* Visit methods that execute at most three statements after the first. *)
LEMMA EmptyVisit ==
  ASSUME IInv, todo # <<>>, ~PushesLabel(Head(todo)), todo' = <<>> \o Tail(todo),
         \/ current_val' \in Operand
         \/ current_val' = current_val /\ ~Produces(Head(todo)),
         UNCHANGED <<ast, instructions, tmp_counter, label_counter>>
  PROVE  IInv'
<1>1. <<>> \in Seq(Op) /\ Len(<<>>) = 0
  BY EmptySeq
<1>2. /\ \A p \in 1..Len(<<>>) : ~PushesJump(<<>>[p]) /\ ~PushesLabel(<<>>[p])
      /\ \A p \in 1..Len(<<>>) : Consumes(<<>>[p]) => p # 1 /\ Produces(<<>>[1])
  BY <1>1
<1> QED
  BY <1>1, <1>2, PlainVisit

LEMMA VisitOfOne ==
  ASSUME IInv, todo # <<>>, ~PushesLabel(Head(todo)),
         NEW o1 \in Op, todo' = <<o1>> \o Tail(todo),
         ~PushesJump(o1), ~PushesLabel(o1),
         ~Consumes(o1), Produces(Head(todo)) => Produces(o1),
         UNCHANGED <<ast, instructions, current_val, tmp_counter, label_counter>>
  PROVE  IInv'
<1> DEFINE body == <<o1>>
<1>1. /\ body \in Seq(Op) /\ Len(body) = 1
      /\ body[1] = o1
  OBVIOUS
<1>2. todo' = body \o Tail(todo)
  OBVIOUS
<1> HIDE DEF body
<1>3. \A p \in 1..Len(body) : p = 1
  BY <1>1
<1>4. /\ \A p \in 1..Len(body) : ~PushesJump(body[p]) /\ ~PushesLabel(body[p])
      /\ \A p \in 1..Len(body) : Consumes(body[p]) => p # 1 /\ Produces(body[1])
      /\ Produces(Head(todo)) => \E q \in 1..Len(body) : Produces(body[q])
  BY <1>1, <1>3
<1> QED
  BY <1>1, <1>2, <1>4, PlainVisit

LEMMA VisitOfTwo ==
  ASSUME IInv, todo # <<>>, ~PushesLabel(Head(todo)),
         NEW o1 \in Op, NEW o2 \in Op, todo' = <<o1, o2>> \o Tail(todo),
         ~PushesJump(o1), ~PushesLabel(o1),
         ~PushesJump(o2), ~PushesLabel(o2),
         ~Consumes(o1), Produces(Head(todo)) => Produces(o1),
         Consumes(o2) => Produces(o1),
         UNCHANGED <<ast, instructions, current_val, tmp_counter, label_counter>>
  PROVE  IInv'
<1> DEFINE body == <<o1, o2>>
<1>1. /\ body \in Seq(Op) /\ Len(body) = 2
      /\ body[1] = o1 /\ body[2] = o2
  OBVIOUS
<1>2. todo' = body \o Tail(todo)
  OBVIOUS
<1> HIDE DEF body
<1>3. \A p \in 1..Len(body) : p = 1 \/ p = 2
  BY <1>1
<1>4. /\ \A p \in 1..Len(body) : ~PushesJump(body[p]) /\ ~PushesLabel(body[p])
      /\ \A p \in 1..Len(body) : Consumes(body[p]) => p # 1 /\ Produces(body[1])
      /\ Produces(Head(todo)) => \E q \in 1..Len(body) : Produces(body[q])
  BY <1>1, <1>3
<1> QED
  BY <1>1, <1>2, <1>4, PlainVisit

LEMMA VisitOfThree ==
  ASSUME IInv, todo # <<>>, ~PushesLabel(Head(todo)),
         NEW o1 \in Op, NEW o2 \in Op, NEW o3 \in Op, todo' = <<o1, o2, o3>> \o Tail(todo),
         ~PushesJump(o1), ~PushesLabel(o1),
         ~PushesJump(o2), ~PushesLabel(o2),
         ~PushesJump(o3), ~PushesLabel(o3),
         ~Consumes(o1), Produces(Head(todo)) => Produces(o1),
         Consumes(o2) => Produces(o1),
         Consumes(o3) => Produces(o1),
         UNCHANGED <<ast, instructions, current_val, tmp_counter, label_counter>>
  PROVE  IInv'
<1> DEFINE body == <<o1, o2, o3>>
<1>1. /\ body \in Seq(Op) /\ Len(body) = 3
      /\ body[1] = o1 /\ body[2] = o2 /\ body[3] = o3
  OBVIOUS
<1>2. todo' = body \o Tail(todo)
  OBVIOUS
<1> HIDE DEF body
<1>3. \A p \in 1..Len(body) : p = 1 \/ p = 2 \/ p = 3
  BY <1>1
<1>4. /\ \A p \in 1..Len(body) : ~PushesJump(body[p]) /\ ~PushesLabel(body[p])
      /\ \A p \in 1..Len(body) : Consumes(body[p]) => p # 1 /\ Produces(body[1])
      /\ Produces(Head(todo)) => \E q \in 1..Len(body) : Produces(body[q])
  BY <1>1, <1>3
<1> QED
  BY <1>1, <1>2, <1>4, PlainVisit

(* The expressions whose visit method makes no label. *)
LEMMA PlainExprSteps ==
  ASSUME IInv,
         \/ VisitConstant \/ VisitVar \/ VisitUnaryOperator \/ VisitBinaryOperator
         \/ VisitAssignment \/ VisitConditional
  PROVE  IInv'
<1> DEFINE n == Head(todo).node
<1>1. /\ todo # <<>> /\ n \in Node /\ n \in Visitable
      /\ ~PushesLabel(Head(todo))
  BY NodeAtHead DEF VisitConstant, VisitVar, VisitUnaryOperator, VisitBinaryOperator,
     VisitAssignment, VisitConditional, Visiting
<1>2. TypeOK
  BY DEF IInv
<1>3. CASE VisitConstant
  <2>1. current_val' \in Operand
    BY <1>1, <1>2, <1>3, Children, MadeNames DEF VisitConstant, Visiting
  <2> QED
    BY <1>1, <1>3, <2>1, EmptyVisit DEF VisitConstant, Run
<1>4. CASE VisitVar
  <2>1. current_val' \in Operand
    BY <1>1, <1>2, <1>4, Children, MadeNames DEF VisitVar, Visiting
  <2> QED
    BY <1>1, <1>4, <2>1, EmptyVisit DEF VisitVar, Run
<1>5. CASE VisitUnaryOperator
  <2>1. n.expr \in Expr /\ convert_unop[n.op] \in TackyUnaryOp
    BY <1>1, <1>5, Children, ConvertUnop DEF VisitUnaryOperator, Visiting
  <2>2. todo' = <<Accept(n.expr), EmitUnary(convert_unop[n.op])>> \o Tail(todo)
    BY <1>5 DEF VisitUnaryOperator, Run
  <2> QED
    BY <1>1, <1>5, <2>1, <2>2, StatementsOfBodies, VisitOfTwo DEF VisitUnaryOperator
<1>6. CASE VisitBinaryOperator
  <2>1. n.left \in Expr /\ n.right \in Expr /\ convert_binop[n.op] \in TackyBinaryOp
    BY <1>1, <1>6, Children, ConvertBinop DEF VisitBinaryOperator, Visiting
  <2>2. todo' = <<Accept(n.left), Second(convert_binop[n.op], n.right)>> \o Tail(todo)
    BY <1>6 DEF VisitBinaryOperator, Run
  <2> QED
    BY <1>1, <1>6, <2>1, <2>2, StatementsOfBodies, VisitOfTwo DEF VisitBinaryOperator
<1>7. CASE VisitAssignment
  <2> DEFINE dst == TackyVar(Source(n.left.id))
  <2>1. n.right \in Expr /\ dst \in Variable
    BY <1>1, <1>2, <1>7, Children, MadeNames DEF VisitAssignment, Visiting
  <2>2. todo' = <<Accept(n.right), EmitCopy(dst), SetValue(dst)>> \o Tail(todo)
    BY <1>7 DEF VisitAssignment, Run
  <2> HIDE DEF dst
  <2> QED
    BY <1>1, <1>7, <2>1, <2>2, StatementsOfBodies, VisitOfThree DEF VisitAssignment
<1>8. CASE VisitConditional
  <2>1. n.cond \in Expr
    BY <1>1, <1>8, Children DEF VisitConditional, Visiting
  <2>2. todo' = <<Accept(n.cond), Branch(n)>> \o Tail(todo)
    BY <1>8 DEF VisitConditional, Run
  <2> QED
    BY <1>1, <1>8, <2>1, <2>2, StatementsOfBodies, VisitOfTwo DEF VisitConditional
<1> QED
  BY <1>3, <1>4, <1>5, <1>6, <1>7, <1>8

(* A statement that uses _current_val finds an operand there. *)
LEMMA CurrentIsSet ==
  ASSUME IInv, todo # <<>>, Consumes(Head(todo))
  PROVE  current_val \in Operand
<1>1. todo \in Seq(Op) /\ current_val \in TackyVal
  BY DEF IInv, TypeOK
<1>2. Len(todo) \in Nat \ {0} /\ Head(todo) = todo[1]
  BY <1>1, HeadTailProperties, EmptySeq, LenProperties
<1>3. ~ValuesReady(todo)
  BY <1>2 DEF ValuesReady
<1> QED
  BY <1>1, <1>3 DEF IInv, TackyVal

LEMMA RightOperandStep ==
  ASSUME IInv, VisitRightOperand
  PROVE  IInv'
<1> DEFINE h == Head(todo)
<1>1. todo # <<>> /\ h.do = "second"
  BY DEF VisitRightOperand, Doing
<1>2. h \in Op
  BY <1>1, HeadTailProperties DEF IInv, TypeOK
<1>3. h.op \in TackyBinaryOp /\ h.node \in Expr
  BY <1>1, <1>2, OpFields
<1>4. current_val \in Operand
  BY <1>1, CurrentIsSet DEF Consumes
<1>5. ~PushesLabel(h)
  BY <1>1 DEF PushesLabel
<1>6. todo' = <<Accept(h.node), EmitBinary(h.op, current_val)>> \o Tail(todo)
  BY DEF VisitRightOperand, Run
<1> QED
  BY <1>1, <1>3, <1>4, <1>5, <1>6, StatementsOfBodies, VisitOfTwo DEF VisitRightOperand

(* A list of children, and possibly a closing return. *)
LEMMA AcceptAllIsPlain ==
  ASSUME NEW items \in Seq(Item)
  PROVE  LET body == AcceptAll(items)
         IN  /\ body \in Seq(Op)
             /\ \A p \in 1..Len(body) :
                  ~PushesJump(body[p]) /\ ~PushesLabel(body[p]) /\ ~Consumes(body[p])
<1> DEFINE body == AcceptAll(items)
<1>1. Len(items) \in Nat /\ \A i \in 1..Len(items) : items[i] \in Visitable
  BY ElementOfSeq, LenProperties DEF Visitable
<1>2. /\ body = [i \in 1..Len(items) |-> Accept(items[i])]
      /\ body \in [1..Len(items) -> Op]
  BY <1>1, AcceptIsOp DEF AcceptAll
<1>3. body \in Seq(Op) /\ Len(body) = Len(items)
  BY <1>1, <1>2, FunctionIsSeq
<1>4. \A p \in 1..Len(body) : body[p] = Accept(items[p]) /\ items[p] \in Visitable
  BY <1>1, <1>2, <1>3
<1> QED
  BY <1>3, <1>4, StatementsOfBodies

LEMMA BlockStep ==
  ASSUME IInv, VisitBlock
  PROVE  IInv'
<1> DEFINE n == Head(todo).node
           body == AcceptAll(n.items)
<1>1. /\ todo # <<>> /\ n \in Node /\ n.k = "Block" /\ ~PushesLabel(Head(todo))
      /\ ~Produces(Head(todo))
  BY NodeAtHead DEF VisitBlock, Visiting, ExprKind
<1>2. n.items \in Seq(Item)
  BY <1>1, Children
<1>3. /\ body \in Seq(Op)
      /\ \A p \in 1..Len(body) :
           ~PushesJump(body[p]) /\ ~PushesLabel(body[p]) /\ ~Consumes(body[p])
  BY <1>2, AcceptAllIsPlain
<1>4. /\ todo' = body \o Tail(todo)
      /\ UNCHANGED <<ast, instructions, current_val, tmp_counter, label_counter>>
  BY DEF VisitBlock, Run
<1> HIDE DEF body
<1> QED
  BY <1>1, <1>3, <1>4, PlainVisit

LEMMA FunctionStep ==
  ASSUME IInv, VisitFunction
  PROVE  IInv'
<1> DEFINE n == Head(todo).node
           list == AcceptAll(n.block.items)
           last == Emit(TackyReturn(TackyConstant(0)))
           body == list \o <<last>>
<1>1. /\ todo # <<>> /\ n \in Node /\ n.k = "Function" /\ ~PushesLabel(Head(todo))
      /\ ~Produces(Head(todo))
  BY NodeAtHead DEF VisitFunction, Visiting, ExprKind
<1>2. n.block.items \in Seq(Item)
  BY <1>1, Children DEF Body
<1>3. /\ list \in Seq(Op)
      /\ \A p \in 1..Len(list) :
           ~PushesJump(list[p]) /\ ~PushesLabel(list[p]) /\ ~Consumes(list[p])
  BY <1>2, AcceptAllIsPlain
<1>4. last \in Op /\ ~PushesJump(last) /\ ~PushesLabel(last) /\ ~Consumes(last)
  BY DEF Op, TackyInstruction, Operand, Emit, TackyReturn, TackyConstant,
     PushesJump, PushesLabel, Consumes, Jumps
<1>5. /\ todo' = body \o Tail(todo)
      /\ UNCHANGED <<ast, instructions, current_val, tmp_counter, label_counter>>
  BY DEF VisitFunction, Run
<1> HIDE DEF list, last
<1>6. /\ body \in Seq(Op)
      /\ \A p \in 1..Len(body) : body[p] = last \/ \E q \in 1..Len(list) : body[p] = list[q]
  BY <1>3, <1>4
<1>7. \A p \in 1..Len(body) :
        ~PushesJump(body[p]) /\ ~PushesLabel(body[p]) /\ ~Consumes(body[p])
  BY <1>3, <1>4, <1>6
<1> HIDE DEF body
<1> QED
  BY <1>1, <1>5, <1>6, <1>7, PlainVisit

(* The statements whose visit method makes no label. *)
LEMMA PlainStmtSteps ==
  ASSUME IInv,
         \/ VisitReturnStmt \/ VisitIfStatement \/ VisitExpressionStmt
         \/ VisitNullStmt \/ VisitDeclarationVariable \/ VisitCompoundStmt
  PROVE  IInv'
<1> DEFINE n == Head(todo).node
<1>1. /\ todo # <<>> /\ n \in Node /\ n \in Visitable
      /\ ~PushesLabel(Head(todo)) /\ ~Produces(Head(todo))
  BY NodeAtHead DEF VisitReturnStmt, VisitIfStatement, VisitExpressionStmt,
     VisitNullStmt, VisitDeclarationVariable, VisitCompoundStmt, Visiting, ExprKind
<1>2. TypeOK
  BY DEF IInv
<1>3. CASE VisitReturnStmt
  <2>1. n.expr \in Expr
    BY <1>1, <1>3, Children DEF VisitReturnStmt, Visiting
  <2>2. todo' = <<Accept(n.expr), EmitReturn>> \o Tail(todo)
    BY <1>3 DEF VisitReturnStmt, Run
  <2> QED
    BY <1>1, <1>3, <2>1, <2>2, StatementsOfBodies, VisitOfTwo DEF VisitReturnStmt
<1>4. CASE VisitIfStatement
  <2>1. n.cond \in Expr
    BY <1>1, <1>4, Children DEF VisitIfStatement, Visiting
  <2>2. todo' = <<Accept(n.cond), Branch(n)>> \o Tail(todo)
    BY <1>4 DEF VisitIfStatement, Run
  <2> QED
    BY <1>1, <1>4, <2>1, <2>2, StatementsOfBodies, VisitOfTwo DEF VisitIfStatement
<1>5. CASE VisitExpressionStmt
  <2>1. n.expr \in Expr
    BY <1>1, <1>5, Children DEF VisitExpressionStmt, Visiting
  <2>2. todo' = <<Accept(n.expr)>> \o Tail(todo)
    BY <1>5 DEF VisitExpressionStmt, Run
  <2> QED
    BY <1>1, <1>5, <2>1, <2>2, StatementsOfBodies, VisitOfOne DEF VisitExpressionStmt
<1>6. CASE VisitNullStmt
  BY <1>1, <1>6, EmptyVisit DEF VisitNullStmt, Run
<1>7. CASE VisitDeclarationVariable
  <2>1. CASE n.init = Nil
    <3>1. todo' = <<>> \o Tail(todo)
      BY <1>7, <2>1 DEF VisitDeclarationVariable, Run
    <3> QED
      BY <1>1, <1>7, <3>1, EmptyVisit DEF VisitDeclarationVariable
  <2>2. CASE n.init # Nil
    <3> DEFINE dst == TackyVar(Source(n.id))
    <3>1. n.init \in Expr /\ dst \in Variable
      BY <1>1, <1>2, <1>7, <2>2, Children, MadeNames DEF VisitDeclarationVariable, Visiting
    <3>2. todo' = <<Accept(n.init), EmitCopy(dst)>> \o Tail(todo)
      BY <1>7, <2>2 DEF VisitDeclarationVariable, Run
    <3> HIDE DEF dst
    <3> QED
      BY <1>1, <1>7, <3>1, <3>2, StatementsOfBodies, VisitOfTwo
      DEF VisitDeclarationVariable
  <2> QED
    BY <2>1, <2>2
<1>8. CASE VisitCompoundStmt
  <2>1. n.block \in Visitable
    BY <1>1, <1>8, Children DEF VisitCompoundStmt, Visiting, Visitable
  <2>2. todo' = <<Accept(n.block)>> \o Tail(todo)
    BY <1>8 DEF VisitCompoundStmt, Run
  <2> QED
    BY <1>1, <1>8, <2>1, <2>2, StatementsOfBodies, VisitOfOne DEF VisitCompoundStmt
<1> QED
  BY <1>3, <1>4, <1>5, <1>6, <1>7, <1>8

-----------------------------------------------------------------------------
(* The visit methods that make labels. *)

(* What the statements that push jumps and labels do. *)
LEMMA JumpStatements ==
  /\ \A l \in LabelId :
       /\ Emit(Label(l)) \in Op
       /\ PushesLabel(Emit(Label(l))) /\ Emit(Label(l)).ins.id.num = l.num
       /\ ~PushesJump(Emit(Label(l))) /\ ~Consumes(Emit(Label(l)))
  /\ \A l \in LabelId :
       /\ Emit(Jump(l)) \in Op /\ ~PushesLabel(Emit(Jump(l))) /\ ~Consumes(Emit(Jump(l)))
       /\ JumpTarget(Emit(Jump(l))) = l
  /\ \A l \in LabelId :
       /\ EmitJZ(l) \in Op /\ ~PushesLabel(EmitJZ(l)) /\ JumpTarget(EmitJZ(l)) = l
       /\ EmitJNZ(l) \in Op /\ ~PushesLabel(EmitJNZ(l)) /\ JumpTarget(EmitJNZ(l)) = l
  /\ \A c \in Int : \A d \in Variable :
       LET o == Emit(TackyCopy(TackyConstant(c), d))
       IN  o \in Op /\ ~PushesLabel(o) /\ ~PushesJump(o) /\ ~Consumes(o)
  /\ \A k, l \in LabelId : Emit(Label(k)) = Emit(Label(l)) => k = l
<1> USE DEF Emit, Consumes, PushesJump, PushesLabel, JumpTarget
<1>1. \A l \in LabelId :
        /\ Emit(Label(l)) \in Op
        /\ PushesLabel(Emit(Label(l))) /\ Emit(Label(l)).ins.id.num = l.num
        /\ ~PushesJump(Emit(Label(l))) /\ ~Consumes(Emit(Label(l)))
  BY DEF Op, TackyInstruction, Label, Jumps
<1>2. \A l \in LabelId :
        /\ Emit(Jump(l)) \in Op /\ ~PushesLabel(Emit(Jump(l))) /\ ~Consumes(Emit(Jump(l)))
        /\ JumpTarget(Emit(Jump(l))) = l
  BY DEF Op, TackyInstruction, Jump
<1>3. \A l \in LabelId :
        /\ EmitJZ(l) \in Op /\ ~PushesLabel(EmitJZ(l)) /\ JumpTarget(EmitJZ(l)) = l
        /\ EmitJNZ(l) \in Op /\ ~PushesLabel(EmitJNZ(l)) /\ JumpTarget(EmitJNZ(l)) = l
  BY DEF Op, EmitJZ, EmitJNZ
<1>4. \A c \in Int : \A d \in Variable :
        LET o == Emit(TackyCopy(TackyConstant(c), d))
        IN  o \in Op /\ ~PushesLabel(o) /\ ~PushesJump(o) /\ ~Consumes(o)
  BY DEF Op, TackyInstruction, TackyCopy, TackyConstant, Operand, Jumps
<1>5. \A k, l \in LabelId : Emit(Label(k)) = Emit(Label(l)) => k = l
  BY DEF Label
<1> QED
  BY <1>1, <1>2, <1>3, <1>4, <1>5

LEMMA TwoLabels ==
  ASSUME TypeOK, NEW p \in LabelPrefix, NEW q \in LabelPrefix
  PROVE  /\ make_label_name(p, 0) \in LabelId /\ make_label_name(q, 1) \in LabelId
         /\ make_label_name(p, 0).num = label_counter
         /\ make_label_name(q, 1).num = label_counter + 1
         /\ make_label_name(p, 0) # make_label_name(q, 1)
BY MadeNames DEF make_label_name, LabelName, TypeOK

LEMMA AndStep ==
  ASSUME IInv, VisitAnd
  PROVE  IInv'
<1> DEFINE n == Head(todo).node
           false_label == make_label_name("and_false", 0)
           end_label   == make_label_name("and_else", 1)
           result_val  == make_temporary_name
           body == <<Accept(n.left), EmitJZ(false_label),
                     Accept(n.right), EmitJZ(false_label),
                     Emit(TackyCopy(TackyConstant(1), result_val)),
                     Emit(Jump(end_label)),
                     Emit(Label(false_label)),
                     Emit(TackyCopy(TackyConstant(0), result_val)),
                     Emit(Label(end_label)),
                     SetValue(result_val)>>
<1>1. /\ TypeOK /\ todo # <<>> /\ n \in Node /\ n.k = "BinaryOperator"
      /\ ~PushesLabel(Head(todo))
  BY NodeAtHead DEF VisitAnd, Visiting, IInv
<1>2. n.left \in Expr /\ n.right \in Expr /\ result_val \in Variable
  BY <1>1, Children, MadeNames
<1>3. /\ false_label \in LabelId /\ end_label \in LabelId /\ false_label # end_label
      /\ false_label.num = label_counter /\ end_label.num = label_counter + 1
  BY <1>1, TwoLabels DEF LabelPrefix
<1>4. /\ todo' = body \o Tail(todo) /\ tmp_counter' = tmp_counter + 1
      /\ label_counter' = label_counter + 2
      /\ UNCHANGED <<ast, instructions, current_val>>
  BY DEF VisitAnd, Run
<1>5. tmp_counter' \in Nat /\ label_counter \in Nat /\ label_counter' \in Nat
      /\ label_counter <= label_counter'
  BY <1>1, <1>4 DEF TypeOK
<1> HIDE DEF n, false_label, end_label, result_val
<1>6. /\ Len(body) = 10
      /\ body[1] = Accept(n.left) /\ body[2] = EmitJZ(false_label)
      /\ body[3] = Accept(n.right) /\ body[4] = EmitJZ(false_label)
      /\ body[5] = Emit(TackyCopy(TackyConstant(1), result_val))
      /\ body[6] = Emit(Jump(end_label)) /\ body[7] = Emit(Label(false_label))
      /\ body[8] = Emit(TackyCopy(TackyConstant(0), result_val))
      /\ body[9] = Emit(Label(end_label)) /\ body[10] = SetValue(result_val)
  OBVIOUS
<1>7. body \in Seq(Op)
  BY <1>2, <1>3, StatementsOfBodies, JumpStatements
<1> HIDE DEF body
<1>8. Produces(body[1]) /\ ~Consumes(body[1])
  BY <1>2, <1>6, StatementsOfBodies
<1>9. ValuesReady(body)
  <2> SUFFICES ASSUME NEW p \in 1..Len(body), Consumes(body[p])
               PROVE  1 \in 1..p-1
    BY <1>8 DEF ValuesReady
  <2> QED
    BY <1>6, <1>8
<1>10. \A p \in 1..Len(body) :
         \/ ~PushesJump(body[p])
         \/ p < 7 /\ JumpTarget(body[p]) = false_label
         \/ p < 9 /\ JumpTarget(body[p]) = end_label
  BY <1>2, <1>3, <1>6, StatementsOfBodies, JumpStatements
<1>11. JumpsClosed(body)
  BY <1>6, <1>10 DEF JumpsClosed
<1>12. \A p \in 1..Len(body) : PushesLabel(body[p]) => p = 7 \/ p = 9
  BY <1>2, <1>3, <1>6, StatementsOfBodies, JumpStatements
<1>13. /\ body[7].ins.id.num = label_counter /\ body[9].ins.id.num = label_counter + 1
       /\ PushesLabel(body[7]) /\ PushesLabel(body[9]) /\ body[7] # body[9]
  BY <1>3, <1>6, JumpStatements
<1>14. LabelsApart(body, label_counter, label_counter')
  BY <1>4, <1>5, <1>12, <1>13 DEF LabelsApart
<1>15. 1 \in 1..Len(body)
  BY <1>6
<1> QED
  BY <1>1, <1>4, <1>5, <1>7, <1>8, <1>9, <1>11, <1>14, <1>15, VisitStep

LEMMA OrStep ==
  ASSUME IInv, VisitOr
  PROVE  IInv'
<1> DEFINE n == Head(todo).node
           true_label == make_label_name("or_true", 0)
           end_label  == make_label_name("or_end", 1)
           result_val == make_temporary_name
           body == <<Accept(n.left), EmitJNZ(true_label),
                     Accept(n.right), EmitJNZ(true_label),
                     Emit(TackyCopy(TackyConstant(0), result_val)),
                     Emit(Jump(end_label)),
                     Emit(Label(true_label)),
                     Emit(TackyCopy(TackyConstant(1), result_val)),
                     Emit(Label(end_label)),
                     SetValue(result_val)>>
<1>1. /\ TypeOK /\ todo # <<>> /\ n \in Node /\ n.k = "BinaryOperator"
      /\ ~PushesLabel(Head(todo))
  BY NodeAtHead DEF VisitOr, Visiting, IInv
<1>2. n.left \in Expr /\ n.right \in Expr /\ result_val \in Variable
  BY <1>1, Children, MadeNames
<1>3. /\ true_label \in LabelId /\ end_label \in LabelId /\ true_label # end_label
      /\ true_label.num = label_counter /\ end_label.num = label_counter + 1
  BY <1>1, TwoLabels DEF LabelPrefix
<1>4. /\ todo' = body \o Tail(todo) /\ tmp_counter' = tmp_counter + 1
      /\ label_counter' = label_counter + 2
      /\ UNCHANGED <<ast, instructions, current_val>>
  BY DEF VisitOr, Run
<1>5. tmp_counter' \in Nat /\ label_counter \in Nat /\ label_counter' \in Nat
      /\ label_counter <= label_counter'
  BY <1>1, <1>4 DEF TypeOK
<1> HIDE DEF n, true_label, end_label, result_val
<1>6. /\ Len(body) = 10
      /\ body[1] = Accept(n.left) /\ body[2] = EmitJNZ(true_label)
      /\ body[3] = Accept(n.right) /\ body[4] = EmitJNZ(true_label)
      /\ body[5] = Emit(TackyCopy(TackyConstant(0), result_val))
      /\ body[6] = Emit(Jump(end_label)) /\ body[7] = Emit(Label(true_label))
      /\ body[8] = Emit(TackyCopy(TackyConstant(1), result_val))
      /\ body[9] = Emit(Label(end_label)) /\ body[10] = SetValue(result_val)
  OBVIOUS
<1>7. body \in Seq(Op)
  BY <1>2, <1>3, StatementsOfBodies, JumpStatements
<1> HIDE DEF body
<1>8. Produces(body[1]) /\ ~Consumes(body[1])
  BY <1>2, <1>6, StatementsOfBodies
<1>9. ValuesReady(body)
  <2> SUFFICES ASSUME NEW p \in 1..Len(body), Consumes(body[p])
               PROVE  1 \in 1..p-1
    BY <1>8 DEF ValuesReady
  <2> QED
    BY <1>6, <1>8
<1>10. \A p \in 1..Len(body) :
         \/ ~PushesJump(body[p])
         \/ p < 7 /\ JumpTarget(body[p]) = true_label
         \/ p < 9 /\ JumpTarget(body[p]) = end_label
  BY <1>2, <1>3, <1>6, StatementsOfBodies, JumpStatements
<1>11. JumpsClosed(body)
  BY <1>6, <1>10 DEF JumpsClosed
<1>12. \A p \in 1..Len(body) : PushesLabel(body[p]) => p = 7 \/ p = 9
  BY <1>2, <1>3, <1>6, StatementsOfBodies, JumpStatements
<1>13. /\ body[7].ins.id.num = label_counter /\ body[9].ins.id.num = label_counter + 1
       /\ PushesLabel(body[7]) /\ PushesLabel(body[9]) /\ body[7] # body[9]
  BY <1>3, <1>6, JumpStatements
<1>14. LabelsApart(body, label_counter, label_counter')
  BY <1>4, <1>5, <1>12, <1>13 DEF LabelsApart
<1>15. 1 \in 1..Len(body)
  BY <1>6
<1> QED
  BY <1>1, <1>4, <1>5, <1>7, <1>8, <1>9, <1>11, <1>14, <1>15, VisitStep

LEMMA ConditionalStep ==
  ASSUME IInv, BranchConditional
  PROVE  IInv'
<1> DEFINE n == Head(todo).node
           e2_label   == make_label_name("e2_end", 0)
           end_label  == make_label_name("conditional_end", 1)
           result_val == make_temporary_name
           body == <<EmitJZ(e2_label),
                     Accept(n.true), EmitCopy(result_val), Emit(Jump(end_label)),
                     Emit(Label(e2_label)),
                     Accept(n.false), EmitCopy(result_val),
                     Emit(Label(end_label)),
                     SetValue(result_val)>>
<1>1. /\ TypeOK /\ todo # <<>> /\ n \in Node /\ n.k = "Conditional"
      /\ ~PushesLabel(Head(todo)) /\ Consumes(Head(todo))
  BY NodeAtHead DEF BranchConditional, Doing, IInv, Consumes
<1>2. n.true \in Expr /\ n.false \in Expr /\ result_val \in Variable
  BY <1>1, Children, MadeNames
<1>3. /\ e2_label \in LabelId /\ end_label \in LabelId /\ e2_label # end_label
      /\ e2_label.num = label_counter /\ end_label.num = label_counter + 1
  BY <1>1, TwoLabels DEF LabelPrefix
<1>4. /\ todo' = body \o Tail(todo) /\ tmp_counter' = tmp_counter + 1
      /\ label_counter' = label_counter + 2
      /\ UNCHANGED <<ast, instructions, current_val>>
  BY DEF BranchConditional, Run
<1>5. tmp_counter' \in Nat /\ label_counter \in Nat /\ label_counter' \in Nat
      /\ label_counter <= label_counter'
  BY <1>1, <1>4 DEF TypeOK
<1>6. current_val' \in Operand
  BY <1>1, <1>4, CurrentIsSet
<1> HIDE DEF n, e2_label, end_label, result_val
<1>7. /\ Len(body) = 9
      /\ body[1] = EmitJZ(e2_label) /\ body[2] = Accept(n.true)
      /\ body[3] = EmitCopy(result_val) /\ body[4] = Emit(Jump(end_label))
      /\ body[5] = Emit(Label(e2_label)) /\ body[6] = Accept(n.false)
      /\ body[7] = EmitCopy(result_val) /\ body[8] = Emit(Label(end_label))
      /\ body[9] = SetValue(result_val)
  OBVIOUS
<1>8. body \in Seq(Op)
  BY <1>2, <1>3, StatementsOfBodies, JumpStatements
<1> HIDE DEF body
<1>9. \A p \in 1..Len(body) :
        \/ ~PushesJump(body[p])
        \/ p < 5 /\ JumpTarget(body[p]) = e2_label
        \/ p < 8 /\ JumpTarget(body[p]) = end_label
  BY <1>2, <1>3, <1>7, StatementsOfBodies, JumpStatements
<1>10. JumpsClosed(body)
  BY <1>7, <1>9 DEF JumpsClosed
<1>11. \A p \in 1..Len(body) : PushesLabel(body[p]) => p = 5 \/ p = 8
  BY <1>2, <1>3, <1>7, StatementsOfBodies, JumpStatements
<1>12. /\ body[5].ins.id.num = label_counter /\ body[8].ins.id.num = label_counter + 1
       /\ PushesLabel(body[5]) /\ PushesLabel(body[8]) /\ body[5] # body[8]
  BY <1>3, <1>7, JumpStatements
<1>13. LabelsApart(body, label_counter, label_counter')
  BY <1>4, <1>5, <1>11, <1>12 DEF LabelsApart
<1> QED
  BY <1>1, <1>4, <1>5, <1>6, <1>8, <1>10, <1>13, VisitStep

LEMMA IfElseStep ==
  ASSUME IInv, BranchIfElse
  PROVE  IInv'
<1> DEFINE n == Head(todo).node
           end_label  == make_label_name("if_end", 0)
           else_label == make_label_name("if_else", 1)
           body == <<EmitJZ(else_label),
                     Accept(n.then), Emit(Jump(end_label)),
                     Emit(Label(else_label)),
                     Accept(n.else),
                     Emit(Label(end_label))>>
<1>1. /\ TypeOK /\ todo # <<>> /\ n \in Node /\ n.k = "IfStatement" /\ n.else # Nil
      /\ ~PushesLabel(Head(todo)) /\ Consumes(Head(todo))
  BY NodeAtHead DEF BranchIfElse, Doing, IInv, Consumes
<1>2. n.then \in Visitable /\ n.else \in Visitable
  BY <1>1, Children DEF Visitable, Item
<1>3. /\ end_label \in LabelId /\ else_label \in LabelId /\ end_label # else_label
      /\ end_label.num = label_counter /\ else_label.num = label_counter + 1
  BY <1>1, TwoLabels DEF LabelPrefix
<1>4. /\ todo' = body \o Tail(todo) /\ label_counter' = label_counter + 2
      /\ UNCHANGED <<ast, instructions, current_val, tmp_counter>>
  BY <1>1 DEF BranchIfElse, Run
<1>5. tmp_counter' \in Nat /\ label_counter \in Nat /\ label_counter' \in Nat
      /\ label_counter <= label_counter'
  BY <1>1, <1>4 DEF TypeOK
<1>6. current_val' \in Operand
  BY <1>1, <1>4, CurrentIsSet
<1> HIDE DEF n, end_label, else_label
<1>7. /\ Len(body) = 6
      /\ body[1] = EmitJZ(else_label) /\ body[2] = Accept(n.then)
      /\ body[3] = Emit(Jump(end_label)) /\ body[4] = Emit(Label(else_label))
      /\ body[5] = Accept(n.else) /\ body[6] = Emit(Label(end_label))
  OBVIOUS
<1>8. body \in Seq(Op)
  BY <1>2, <1>3, StatementsOfBodies, JumpStatements
<1> HIDE DEF body
<1>9. \A p \in 1..Len(body) :
        \/ ~PushesJump(body[p])
        \/ p < 4 /\ JumpTarget(body[p]) = else_label
        \/ p < 6 /\ JumpTarget(body[p]) = end_label
  BY <1>2, <1>3, <1>7, StatementsOfBodies, JumpStatements
<1>10. JumpsClosed(body)
  BY <1>7, <1>9 DEF JumpsClosed
<1>11. \A p \in 1..Len(body) : PushesLabel(body[p]) => p = 4 \/ p = 6
  BY <1>2, <1>3, <1>7, StatementsOfBodies, JumpStatements
<1>12. /\ body[4].ins.id.num = label_counter + 1 /\ body[6].ins.id.num = label_counter
       /\ PushesLabel(body[4]) /\ PushesLabel(body[6]) /\ body[4] # body[6]
  BY <1>3, <1>7, JumpStatements
<1>13. LabelsApart(body, label_counter, label_counter')
  BY <1>4, <1>5, <1>11, <1>12, SMTT(30) DEF LabelsApart
<1> QED
  BY <1>1, <1>4, <1>5, <1>6, <1>8, <1>10, <1>13, VisitStep

LEMMA IfStep ==
  ASSUME IInv, BranchIf
  PROVE  IInv'
<1> DEFINE n == Head(todo).node
           end_label == make_label_name("if_end", 0)
           body == <<EmitJZ(end_label), Accept(n.then), Emit(Label(end_label))>>
<1>1. /\ TypeOK /\ todo # <<>> /\ n \in Node /\ n.k = "IfStatement"
      /\ ~PushesLabel(Head(todo)) /\ Consumes(Head(todo))
  BY NodeAtHead DEF BranchIf, Doing, IInv, Consumes
<1>2. n.then \in Visitable
  BY <1>1, Children DEF Visitable, Item
<1>3. end_label \in LabelId /\ end_label.num = label_counter
  BY <1>1, TwoLabels DEF LabelPrefix
<1>4. /\ todo' = body \o Tail(todo) /\ label_counter' = label_counter + 1
      /\ UNCHANGED <<ast, instructions, current_val, tmp_counter>>
  BY DEF BranchIf, Run
<1>5. tmp_counter' \in Nat /\ label_counter \in Nat /\ label_counter' \in Nat
      /\ label_counter <= label_counter'
  BY <1>1, <1>4 DEF TypeOK
<1>6. current_val' \in Operand
  BY <1>1, <1>4, CurrentIsSet
<1> HIDE DEF n, end_label
<1>7. /\ Len(body) = 3
      /\ body[1] = EmitJZ(end_label) /\ body[2] = Accept(n.then)
      /\ body[3] = Emit(Label(end_label))
  OBVIOUS
<1>8. body \in Seq(Op)
  BY <1>2, <1>3, StatementsOfBodies, JumpStatements
<1> HIDE DEF body
<1>9. \A p \in 1..Len(body) :
        PushesJump(body[p]) => p < 3 /\ JumpTarget(body[p]) = end_label
  BY <1>2, <1>3, <1>7, StatementsOfBodies, JumpStatements
<1>10. JumpsClosed(body)
  BY <1>7, <1>9 DEF JumpsClosed
<1>11. \A p \in 1..Len(body) : PushesLabel(body[p]) => p = 3
  BY <1>2, <1>3, <1>7, StatementsOfBodies, JumpStatements
<1>12. body[3].ins.id.num = label_counter /\ PushesLabel(body[3])
  BY <1>3, <1>7, JumpStatements
<1>13. LabelsApart(body, label_counter, label_counter')
  BY <1>4, <1>5, <1>11, <1>12 DEF LabelsApart
<1> QED
  BY <1>1, <1>4, <1>5, <1>6, <1>8, <1>10, <1>13, VisitStep

-----------------------------------------------------------------------------
(* The statements that push an instruction. *)

LEMMA ExecuteSteps ==
  ASSUME IInv, Execute
  PROVE  IInv'
<1> DEFINE h == Head(todo)
<1>1. todo # <<>>
  BY DEF Execute, EmitReady, EmitConditionalJump, EmitCopyOfCurrent,
     EmitReturnOfCurrent, EmitUnaryOfCurrent, EmitBinaryOfCurrent, SetCurrent, Doing
<1>2. TypeOK /\ h \in Op /\ tmp_counter \in Nat /\ make_temporary_name \in Variable
      /\ Variable \subseteq Operand
  BY <1>1, HeadTailProperties, MadeNames DEF IInv, TypeOK
<1>3. Consumes(h) => current_val \in Operand
  BY <1>1, CurrentIsSet
<1>4. CASE EmitReady
  <2>1. h.do = "emit" /\ h.ins \in TackyInstruction /\ h = Emit(h.ins)
    <3>1. h.do = "emit"
      BY <1>4 DEF EmitReady, Doing
    <3>2. h \in [do : {"emit"}, ins : TackyInstruction]
      BY <1>2, <3>1 DEF Op
    <3> QED
      BY <3>2 DEF Emit
  <2>2. ~Produces(h) /\ (Jumps(h.ins) => PushesJump(h) /\ h.ins.target = JumpTarget(h))
    BY <2>1 DEF Produces, PushesJump, JumpTarget
  <2>3. /\ instructions' = Append(instructions, h.ins) /\ todo' = <<>> \o Tail(todo)
        /\ UNCHANGED <<ast, current_val, tmp_counter, label_counter>>
    BY <1>4 DEF EmitReady, PushInstruction, Run
  <2> HIDE DEF h
  <2> QED
    BY <1>1, <1>2, <2>1, <2>2, <2>3, PushStep DEF h
<1>5. CASE EmitConditionalJump
  <2>1. h.do \in {"jz", "jnz"} /\ h.target \in LabelId /\ current_val \in Operand
    BY <1>2, <1>3, <1>5, OpFields DEF EmitConditionalJump, Doing, Consumes
  <2> DEFINE i == IF h.do = "jz" THEN JumpIfZero(current_val, h.target)
                                 ELSE JumpIfNotZero(current_val, h.target)
  <2>2. /\ i \in TackyInstruction /\ i.kind # "Label" /\ i.target = h.target
        /\ PushesJump(h) /\ JumpTarget(h) = h.target /\ ~PushesLabel(h)
    BY <2>1 DEF TackyInstruction, JumpIfZero, JumpIfNotZero, PushesJump, JumpTarget,
       PushesLabel
  <2>3. /\ instructions' = Append(instructions, i) /\ todo' = <<>> \o Tail(todo)
        /\ UNCHANGED <<ast, current_val, tmp_counter, label_counter>>
    BY <1>5 DEF EmitConditionalJump, PushInstruction, Run, Doing
  <2> HIDE DEF h, i
  <2> QED
    BY <1>1, <1>2, <2>1, <2>2, <2>3, PushStep DEF h
<1>6. CASE EmitCopyOfCurrent
  <2> DEFINE i == TackyCopy(current_val, h.dst)
  <2>1. h.do = "copy" /\ h.dst \in Variable /\ current_val \in Operand
    BY <1>2, <1>3, <1>6, OpFields DEF EmitCopyOfCurrent, Doing, Consumes
  <2>2. i \in TackyInstruction /\ i.kind # "Label" /\ ~Jumps(i) /\ ~PushesLabel(h)
    BY <2>1 DEF TackyInstruction, TackyCopy, Jumps, PushesLabel
  <2>3. /\ instructions' = Append(instructions, i) /\ todo' = <<>> \o Tail(todo)
        /\ UNCHANGED <<ast, current_val, tmp_counter, label_counter>>
    BY <1>6 DEF EmitCopyOfCurrent, PushInstruction, Run
  <2> HIDE DEF h, i
  <2> QED
    BY <1>1, <1>2, <2>1, <2>2, <2>3, PushStep DEF h
<1>7. CASE EmitReturnOfCurrent
  <2> DEFINE i == TackyReturn(current_val)
  <2>1. h.do = "return" /\ current_val \in Operand
    BY <1>3, <1>7 DEF EmitReturnOfCurrent, Doing, Consumes
  <2>2. i \in TackyInstruction /\ i.kind # "Label" /\ ~Jumps(i) /\ ~PushesLabel(h)
    BY <2>1 DEF TackyInstruction, TackyReturn, Jumps, PushesLabel
  <2>3. /\ instructions' = Append(instructions, i) /\ todo' = <<>> \o Tail(todo)
        /\ UNCHANGED <<ast, current_val, tmp_counter, label_counter>>
    BY <1>7 DEF EmitReturnOfCurrent, PushInstruction, Run
  <2> HIDE DEF h, i
  <2> QED
    BY <1>1, <1>2, <2>1, <2>2, <2>3, PushStep DEF h
<1>8. CASE EmitUnaryOfCurrent
  <2> DEFINE i == TackyUnary(h.op, current_val, make_temporary_name)
  <2>1. h.do = "unary" /\ h.op \in TackyUnaryOp /\ current_val \in Operand
    BY <1>2, <1>3, <1>8, OpFields DEF EmitUnaryOfCurrent, Doing, Consumes
  <2>2. i \in TackyInstruction /\ i.kind # "Label" /\ ~Jumps(i) /\ ~PushesLabel(h)
    BY <1>2, <2>1 DEF TackyInstruction, TackyUnary, Jumps, PushesLabel
  <2>3. /\ instructions' = Append(instructions, i) /\ todo' = <<>> \o Tail(todo)
        /\ current_val' = make_temporary_name /\ tmp_counter' = tmp_counter + 1
        /\ UNCHANGED <<ast, label_counter>>
    BY <1>8 DEF EmitUnaryOfCurrent, PushInstruction, Run
  <2>4. current_val' \in Operand /\ tmp_counter' \in Nat
    BY <1>2, <2>3
  <2> HIDE DEF h, i
  <2> QED
    BY <1>1, <1>2, <2>1, <2>2, <2>3, <2>4, PushStep DEF h
<1>9. CASE EmitBinaryOfCurrent
  <2> DEFINE i == TackyBinary(h.op, h.src1, current_val, make_temporary_name)
  <2>1. /\ h.do = "binary" /\ h.op \in TackyBinaryOp /\ h.src1 \in Operand
        /\ current_val \in Operand
    BY <1>2, <1>3, <1>9, OpFields DEF EmitBinaryOfCurrent, Doing, Consumes
  <2>2. i \in TackyInstruction /\ i.kind # "Label" /\ ~Jumps(i) /\ ~PushesLabel(h)
    BY <1>2, <2>1 DEF TackyInstruction, TackyBinary, Jumps, PushesLabel
  <2>3. /\ instructions' = Append(instructions, i) /\ todo' = <<>> \o Tail(todo)
        /\ current_val' = make_temporary_name /\ tmp_counter' = tmp_counter + 1
        /\ UNCHANGED <<ast, label_counter>>
    BY <1>9 DEF EmitBinaryOfCurrent, PushInstruction, Run
  <2>4. current_val' \in Operand /\ tmp_counter' \in Nat
    BY <1>2, <2>3
  <2> HIDE DEF h, i
  <2> QED
    BY <1>1, <1>2, <2>1, <2>2, <2>3, <2>4, PushStep DEF h
<1>10. CASE SetCurrent
  <2>1. h.do = "value" /\ h.val \in Operand /\ ~PushesLabel(h)
    BY <1>2, <1>10, OpFields DEF SetCurrent, Doing, PushesLabel
  <2> QED
    BY <1>1, <1>10, <2>1, EmptyVisit DEF SetCurrent, Run
<1> QED
  BY <1>4, <1>5, <1>6, <1>7, <1>8, <1>9, <1>10 DEF Execute

-----------------------------------------------------------------------------
(* generate_tacky starts with nothing generated and the program to visit. *)
LEMMA InitEstablishes == Init => IInv
<1> SUFFICES ASSUME Init PROVE IInv
  OBVIOUS
<1>1. ast \in Visitable /\ Accept(ast) \in Op
  BY AcceptIsOp DEF Init, Visitable
<1>2. /\ todo = <<Accept(ast)>> /\ todo \in Seq(Op) /\ Len(todo) = 1
      /\ todo[1] = Accept(ast)
  BY <1>1 DEF Init
<1>3. \A p \in 1..Len(todo) : todo[p] = Accept(ast)
  BY <1>2
<1>4. ~Consumes(Accept(ast)) /\ ~PushesJump(Accept(ast)) /\ ~PushesLabel(Accept(ast))
  BY <1>1, StatementsOfBodies
<1>5. TypeOK
  BY <1>2, EmptySeq DEF Init, TypeOK, TackyVal
<1>6. ValuesReady(todo) /\ JumpsClosed(todo) /\ LabelsApart(todo, 0, label_counter)
  BY <1>3, <1>4 DEF ValuesReady, JumpsClosed, LabelsApart
<1>7. Len(instructions) = 0
  BY EmptySeq DEF Init
<1>8. JumpsResolved /\ LabelsPushed /\ LabelsDefinedOnce
  BY <1>7 DEF JumpsResolved, LabelsPushed, LabelsDefinedOnce
<1> QED
  BY <1>5, <1>6, <1>8 DEF IInv

(* Every step of the generator keeps the invariant. *)
LEMMA NextPreserves == IInv /\ [Next]_vars => IInv'
<1> SUFFICES ASSUME IInv, [Next]_vars PROVE IInv'
  OBVIOUS
<1>1. CASE VisitExpr
  BY <1>1, PlainExprSteps, RightOperandStep, AndStep, OrStep, ConditionalStep DEF VisitExpr
<1>2. CASE VisitStmt
  BY <1>2, PlainStmtSteps, BlockStep, FunctionStep, IfElseStep, IfStep DEF VisitStmt
<1>3. CASE Execute
  BY <1>3, ExecuteSteps
<1>4. CASE UNCHANGED vars
  BY <1>4 DEF vars, IInv, TypeOK, JumpsResolved, LabelsPushed, LabelsDefinedOnce
<1> QED
  BY <1>1, <1>2, <1>3, <1>4 DEF Next

(* The inductive invariant holds of every reachable state of the generator. *)
THEOREM Inductive == Spec => []IInv
BY InitEstablishes, NextPreserves, PTL DEF Spec

(* Every variable always has its type: in particular no instruction ever   *)
(* gets the empty _current_val as an operand, which the emitting code of   *)
(* tacky.cpp never tests.                                                  *)
THEOREM TypesHold == Spec => []TypeOK
<1>1. IInv => TypeOK
  BY DEF IInv
<1> QED
  BY <1>1, Inductive, PTL

(* No label is defined twice, for programs of any size: make_label_name    *)
(* never returns a name twice, and each is pushed once.                    *)
THEOREM LabelsHold == Spec => []LabelsDefinedOnce
<1>1. IInv => LabelsDefinedOnce
  BY DEF IInv
<1> QED
  BY <1>1, Inductive, PTL

LEMMA JumpsFollow == IInv => JumpsForward
<1> SUFFICES ASSUME IInv, Finished PROVE JumpsForward
  BY DEF JumpsForward
<1>1. Len(todo) = 0
  BY EmptySeq DEF Finished
<1> QED
  BY <1>1 DEF IInv, JumpsResolved, JumpsForward

(* When generate_tacky returns, every jump has its label further on, for   *)
(* programs of any size and nesting.                                       *)
THEOREM JumpsHold == Spec => []JumpsForward
BY JumpsFollow, Inductive, PTL

-----------------------------------------------------------------------------
(***************************************************************************)
(* Temporaries.  The visit methods carry them by name across the code of   *)
(* other children: in _current_val, in src1 of a binary operator and in    *)
(* result_val.  The invariant says where each name stands in its life.     *)
(***************************************************************************)

(* The variables that an agenda entry writes. *)
Writes(o) ==
  IF o.do = "copy" THEN {o.dst}
  ELSE IF o.do = "emit" THEN Destinations(o.ins) ELSE {}

Written(v) == \E i \in 1..Len(instructions) : v \in Destinations(instructions[i])
Pending(v) == \E p \in 1..Len(todo) : v \in Writes(todo[p])

(* A temporary that is ready to be read, and that nobody will change. *)
Settled(v) == Temporary(v) => Written(v) /\ ~Pending(v)

(* The number of a temporary has been given out. *)
Numbered(v) == Temporary(v) => v.id.num < tmp_counter

TempsNumbered ==
  /\ \A i \in 1..Len(instructions) : \A v \in Destinations(instructions[i]) : Numbered(v)
  /\ \A p \in 1..Len(todo) : \A v \in Writes(todo[p]) : Numbered(v)

(* What has been read is settled. *)
ReadsSettled ==
  \A i \in 1..Len(instructions) : \A v \in Sources(instructions[i]) : Settled(v)

(* What an agenda entry holds by name: the operand of a binary operator is *)
(* settled, no instruction that is ready reads a temporary, and a result   *)
(* is written before it becomes the current value and not after.           *)
HoldsSettled(o) ==
  /\ o.do = "binary" => Settled(o.src1)
  /\ o.do = "emit" => o.ins.kind # "Binary" /\ \A v \in Sources(o.ins) : ~Temporary(v)

ResultsInOrder ==
  \A p \in 1..Len(todo) :
    todo[p].do = "value" /\ Temporary(todo[p].val) =>
      /\ Written(todo[p].val) \/ \E q \in 1..p-1 : todo[p].val \in Writes(todo[q])
      /\ \A q \in p+1..Len(todo) : todo[p].val \notin Writes(todo[q])

(* The result of a binary operator is a temporary. *)
ResultsNew ==
  \A i \in 1..Len(instructions) :
    instructions[i].kind = "Binary" => Temporary(instructions[i].dst)

TInv ==
  /\ TempsSettledWhenRead
  /\ ResultsNew
  /\ TempsNumbered
  /\ ReadsSettled
  /\ Settled(current_val)
  /\ \A p \in 1..Len(todo) : HoldsSettled(todo[p])
  /\ ResultsInOrder

LEMMA InstructionVariables ==
  ASSUME NEW i \in TackyInstruction
  PROVE  Destinations(i) \subseteq Variable /\ Sources(i) \subseteq Operand
BY DEF TackyInstruction, Destinations, Sources

LEMMA WritesVariables ==
  ASSUME NEW o \in Op
  PROVE  Writes(o) \subseteq Variable
BY OpFields, InstructionVariables DEF Writes

(* A temporary that has just been numbered is new. *)
LEMMA FreshIsNew ==
  ASSUME IInv, TInv, NEW v \in Variable, Temporary(v), v.id.num = tmp_counter
  PROVE  ~Written(v) /\ ~Pending(v)
BY DEF IInv, TypeOK, TInv, TempsNumbered, Numbered, Written, Pending

(***************************************************************************)
(* A step that opens a visit method: the body writes and hands on no other *)
(* temporary than the one that the method makes.                           *)
(***************************************************************************)
Calm(body) ==
  \A p \in 1..Len(body) :
    /\ HoldsSettled(body[p])
    /\ \A v \in Writes(body[p]) : Temporary(v) => v.id.num = tmp_counter
    /\ body[p].do = "value" /\ Temporary(body[p].val) =>
         /\ \E q \in 1..p-1 : body[p].val \in Writes(body[q])
         /\ \A q \in p+1..Len(body) : body[p].val \notin Writes(body[q])

MakesNone(body) ==
  \A p \in 1..Len(body) : \A v \in Writes(body[p]) : ~Temporary(v)

LEMMA TempVisit ==
  ASSUME IInv, TInv, todo # <<>>, Writes(Head(todo)) = {},
         NEW body \in Seq(Op), todo' = body \o Tail(todo), instructions' = instructions,
         Calm(body),
         \/ tmp_counter' = tmp_counter + 1
         \/ tmp_counter' = tmp_counter /\ MakesNone(body),
         current_val' \in TackyVal, Settled(current_val')
  PROVE  TInv'
<1>1. /\ todo \in Seq(Op) /\ instructions \in Seq(TackyInstruction)
      /\ tmp_counter \in Nat /\ current_val \in TackyVal
  BY DEF IInv, TypeOK
<1>2. /\ todo' \in Seq(Op)
      /\ Len(todo) \in Nat \ {0}
      /\ Len(todo') = Len(body) + Len(todo) - 1
      /\ Head(todo) = todo[1]
      /\ \A i \in 1..Len(body) : todo'[i] = body[i]
      /\ \A i \in 2..Len(todo) : todo'[Len(body) + i - 1] = todo[i]
      /\ \A i \in 1..Len(todo') :
           \/ i \in 1..Len(body) /\ todo'[i] = body[i]
           \/ \E k \in 2..Len(todo) : i = Len(body) + k - 1 /\ todo'[i] = todo[k]
  <2>1. RunOf(Op, todo, body, todo')
    BY <1>1, RunReplaces
  <2> QED
    BY <2>1 DEF RunOf
<1>3. Len(body) \in Nat /\ Len(instructions) \in Nat
  BY <1>1, LenProperties
<1>4. \A k \in 1..Len(todo) : Writes(todo[k]) # {} => k \in 2..Len(todo)
  <2>1. \A k \in 1..Len(todo) : k = 1 \/ k \in 2..Len(todo)
    BY <1>2
  <2> QED
    BY <1>2, <2>1
<1> DEFINE willWrite(v) == \E p \in 1..Len(todo') : v \in Writes(todo'[p])
           bodyWrites(v) == \E p \in 1..Len(body) : v \in Writes(body[p])
           ready(v) == Temporary(v) => Written(v) /\ ~willWrite(v)
<1>5. \A v : willWrite(v) => Pending(v) \/ bodyWrites(v)
  BY <1>2 DEF Pending
<1>6. \A v : Temporary(v) /\ bodyWrites(v) =>
        v.id.num = tmp_counter /\ tmp_counter' = tmp_counter + 1
  BY DEF Calm, MakesNone
<1>7. \A v : Temporary(v) /\ (Written(v) \/ Pending(v)) => v.id.num < tmp_counter
  BY DEF TInv, TempsNumbered, Numbered, Written, Pending
<1> HIDE DEF willWrite, bodyWrites
<1>8. \A v : Settled(v) => ready(v)
  BY <1>1, <1>5, <1>6, <1>7 DEF Settled
<1>9. TempsNumbered'
  <2>1. ASSUME NEW v \in Variable, Temporary(v), Written(v) \/ willWrite(v)
        PROVE  v.id.num < tmp_counter'
    <3>1. v.id.num \in Int
      BY DEF Variable, Name, NoNumber
    <3>2. tmp_counter' \in {tmp_counter, tmp_counter + 1}
      OBVIOUS
    <3>3. CASE Written(v) \/ Pending(v)
      BY <1>1, <1>7, <2>1, <3>1, <3>2, <3>3
    <3>4. CASE bodyWrites(v)
      BY <1>1, <1>6, <2>1, <3>1, <3>4
    <3> QED
      BY <1>5, <2>1, <3>3, <3>4
  <2>2. ASSUME NEW i \in 1..Len(instructions'), NEW v \in Destinations(instructions'[i])
        PROVE  Temporary(v) => v.id.num < tmp_counter'
    <3>1. v \in Variable /\ Written(v)
      BY <1>1, <2>2, ElementOfSeq, InstructionVariables DEF Written
    <3> QED
      BY <2>1, <3>1
  <2>3. ASSUME NEW p \in 1..Len(todo'), NEW v \in Writes(todo'[p])
        PROVE  Temporary(v) => v.id.num < tmp_counter'
    <3>1. v \in Variable /\ willWrite(v)
      BY <1>2, <2>3, ElementOfSeq, WritesVariables DEF willWrite
    <3> QED
      BY <2>1, <3>1
  <2> QED
    BY <2>2, <2>3 DEF TempsNumbered, Numbered
<1>10. ReadsSettled'
  <2>1. \A i \in 1..Len(instructions) : \A v \in Sources(instructions[i]) : ready(v)
    BY <1>8 DEF TInv, ReadsSettled
  <2> QED
    BY <2>1 DEF ReadsSettled, Settled, Written, Pending, willWrite
<1>11. Settled(current_val)'
  <2>1. ready(current_val')
    BY <1>8
  <2> QED
    BY <2>1 DEF Settled, Written, Pending, willWrite
<1>12. (\A p \in 1..Len(todo) : HoldsSettled(todo[p]))'
  <2>1. ASSUME NEW o, HoldsSettled(o)
        PROVE  /\ o.do = "binary" => ready(o.src1)
               /\ o.do = "emit" =>
                    o.ins.kind # "Binary" /\ \A v \in Sources(o.ins) : ~Temporary(v)
    BY <1>8, <2>1 DEF HoldsSettled
  <2>2. \A p \in 1..Len(todo') : HoldsSettled(todo'[p])
    BY <1>2 DEF Calm, TInv
  <2>3. \A p \in 1..Len(todo') :
          /\ todo'[p].do = "binary" => ready(todo'[p].src1)
          /\ todo'[p].do = "emit" =>
               todo'[p].ins.kind # "Binary" /\ \A v \in Sources(todo'[p].ins) : ~Temporary(v)
    BY <2>1, <2>2
  <2> QED
    BY <2>3 DEF HoldsSettled, Settled, Written, Pending, willWrite
<1>13. ResultsInOrder'
  <2> SUFFICES ASSUME NEW p \in 1..Len(todo'), todo'[p].do = "value",
                      NEW v, v = todo'[p].val, Temporary(v)
               PROVE  /\ Written(v) \/ \E q \in 1..p-1 : v \in Writes(todo'[q])
                      /\ \A q \in p+1..Len(todo') : v \notin Writes(todo'[q])
    BY DEF ResultsInOrder, Written
  <2>1. CASE p \in 1..Len(body) /\ todo'[p] = body[p]
    <3>1. PICK q \in 1..p-1 : v \in Writes(body[q])
      BY <2>1 DEF Calm
    <3>2. \A r \in p+1..Len(body) : v \notin Writes(body[r])
      BY <2>1 DEF Calm
    <3>3. q \in 1..Len(body) /\ todo'[q] = body[q]
      BY <1>2, <1>3, <2>1
    <3>4. v.id.num = tmp_counter
      BY <1>6, <3>1, <3>3 DEF bodyWrites
    <3>5. ~Pending(v)
      BY <1>1, <1>7, <3>4
    <3>6. ASSUME NEW r \in p+1..Len(todo'), v \in Writes(todo'[r]) PROVE FALSE
      <4>1. CASE r \in 1..Len(body) /\ todo'[r] = body[r]
        BY <1>3, <2>1, <3>2, <3>6, <4>1
      <4>2. ASSUME NEW k \in 2..Len(todo), todo'[r] = todo[k] PROVE FALSE
        BY <1>2, <3>5, <3>6, <4>2 DEF Pending
      <4>3. r \in 1..Len(todo')
        BY <1>2, <1>3
      <4> QED
        BY <1>2, <4>1, <4>2, <4>3
    <3> QED
      BY <3>1, <3>3, <3>6
  <2>2. ASSUME NEW k \in 2..Len(todo), p = Len(body) + k - 1, todo'[p] = todo[k]
        PROVE  /\ Written(v) \/ \E q \in 1..p-1 : v \in Writes(todo'[q])
               /\ \A q \in p+1..Len(todo') : v \notin Writes(todo'[q])
    <3>1. k \in 1..Len(todo)
      BY <1>2
    <3>2. /\ Written(v) \/ \E q \in 1..k-1 : v \in Writes(todo[q])
          /\ \A q \in k+1..Len(todo) : v \notin Writes(todo[q])
      BY <2>2, <3>1 DEF TInv, ResultsInOrder
    <3>3. ASSUME NEW q \in 1..k-1, v \in Writes(todo[q])
          PROVE  \E r \in 1..p-1 : v \in Writes(todo'[r])
      <4>1. q \in 1..Len(todo)
        BY <1>2
      <4>2. q \in 2..Len(todo)
        BY <1>4, <3>3, <4>1
      <4>3. Len(body) + q - 1 \in 1..p-1 /\ todo'[Len(body) + q - 1] = todo[q]
        BY <1>2, <1>3, <2>2, <4>2
      <4> QED
        BY <3>3, <4>3
    <3>4. ASSUME NEW r \in p+1..Len(todo'), v \in Writes(todo'[r]) PROVE FALSE
      <4>1. r \in 1..Len(todo') /\ r \notin 1..Len(body)
        BY <1>2, <1>3, <2>2
      <4>2. PICK m \in 2..Len(todo) : r = Len(body) + m - 1 /\ todo'[r] = todo[m]
        BY <1>2, <4>1
      <4>3. m \in k+1..Len(todo)
        BY <1>2, <1>3, <2>2, <4>2
      <4> QED
        BY <3>2, <3>4, <4>2, <4>3
    <3> QED
      BY <3>2, <3>3, <3>4
  <2> QED
    BY <1>2, <2>1, <2>2
<1>14. TempsSettledWhenRead' /\ ResultsNew'
  BY DEF TInv, TempsSettledWhenRead, ResultsNew
<1> QED
  BY <1>9, <1>10, <1>11, <1>12, <1>13, <1>14 DEF TInv

(***************************************************************************)
(* A step that pushes an instruction: it reads what is settled, and writes *)
(* what the head of the agenda announced or a temporary just numbered.     *)
(***************************************************************************)
LEMMA TempPush ==
  ASSUME IInv, TInv, todo # <<>>, NEW i \in TackyInstruction,
         instructions' = Append(instructions, i), todo' = <<>> \o Tail(todo),
         \A v \in Sources(i) : Settled(v),
         Writes(Head(todo)) \subseteq Destinations(i),
         i.kind = "Binary" => Temporary(i.dst),
         \A v \in Destinations(i) :
           \/ v \in Writes(Head(todo))
           \/ Temporary(v) => v.id.num = tmp_counter /\ tmp_counter' = tmp_counter + 1,
         tmp_counter' \in {tmp_counter, tmp_counter + 1},
         current_val' = current_val \/ current_val' \in Destinations(i) \ Writes(Head(todo))
  PROVE  TInv'
<1>1. /\ todo \in Seq(Op) /\ instructions \in Seq(TackyInstruction)
      /\ tmp_counter \in Nat
  BY DEF IInv, TypeOK
<1>2. /\ todo' \in Seq(Op)
      /\ Len(todo) \in Nat \ {0}
      /\ Len(todo') = Len(todo) - 1
      /\ Head(todo) = todo[1]
      /\ \A k \in 2..Len(todo) : todo'[k - 1] = todo[k]
      /\ \A q \in 1..Len(todo') : q + 1 \in 2..Len(todo) /\ todo'[q] = todo[q + 1]
  <2>1. <<>> \in Seq(Op) /\ Len(<<>>) = 0
    BY EmptySeq
  <2>2. /\ todo' \in Seq(Op)
        /\ Len(todo) \in Nat \ {0}
        /\ Len(todo') = Len(<<>>) + Len(todo) - 1
        /\ Head(todo) = todo[1]
        /\ \A k \in 2..Len(todo) : todo'[Len(<<>>) + k - 1] = todo[k]
    BY <1>1, <2>1, RunIsSeq
  <2>3. \A k \in 2..Len(todo) : todo'[k - 1] = todo[k]
    BY <2>1, <2>2
  <2> QED
    BY <2>1, <2>2, <2>3
<1>3. /\ instructions' \in Seq(TackyInstruction)
      /\ Len(instructions) \in Nat
      /\ Len(instructions') = Len(instructions) + 1
      /\ \A k \in 1..Len(instructions) : instructions'[k] = instructions[k]
      /\ instructions'[Len(instructions) + 1] = i
  BY <1>1, AppendProperties, LenProperties
<1> DEFINE written(v) == \E k \in 1..Len(instructions') : v \in Destinations(instructions'[k])
           willWrite(v) == \E p \in 1..Len(todo') : v \in Writes(todo'[p])
           ready(v) == Temporary(v) => written(v) /\ ~willWrite(v)
<1>4. \A v : written(v) <=> Written(v) \/ v \in Destinations(i)
  <2>1. \A k \in 1..Len(instructions') : k \in 1..Len(instructions) \/ k = Len(instructions) + 1
    BY <1>3
  <2>2. \A k \in 1..Len(instructions) : k \in 1..Len(instructions')
    BY <1>3
  <2>3. Len(instructions) + 1 \in 1..Len(instructions')
    BY <1>3
  <2> QED
    BY <1>3, <2>1, <2>2, <2>3 DEF Written
<1>5. \A v : willWrite(v) => Pending(v)
  BY <1>2 DEF Pending
<1>6. \A v : Temporary(v) /\ (Written(v) \/ Pending(v)) => v.id.num < tmp_counter
  BY DEF TInv, TempsNumbered, Numbered, Written, Pending
<1>7. \A v \in Writes(Head(todo)) : Pending(v)
  BY <1>2 DEF Pending
<1> HIDE DEF written, willWrite
<1>8. \A v : Settled(v) => ready(v)
  BY <1>4, <1>5 DEF Settled
<1>9. \A v : Temporary(v) /\ Written(v) /\ ~Pending(v) => v \notin Destinations(i)
  BY <1>1, <1>6, <1>7
<1>10. TempsNumbered'
  <2>1. ASSUME NEW v \in Variable, Temporary(v), written(v) \/ willWrite(v)
        PROVE  v.id.num < tmp_counter'
    <3>1. v.id.num \in Int
      BY DEF Variable, Name, NoNumber
    <3>2. CASE Written(v) \/ Pending(v)
      BY <1>1, <1>6, <2>1, <3>1, <3>2
    <3>3. CASE v \in Destinations(i) /\ ~Pending(v)
      BY <1>1, <1>7, <2>1, <3>3
    <3> QED
      BY <1>4, <1>5, <2>1, <3>2, <3>3
  <2>2. ASSUME NEW k \in 1..Len(instructions'), NEW v \in Destinations(instructions'[k])
        PROVE  Temporary(v) => v.id.num < tmp_counter'
    <3>1. v \in Variable /\ written(v)
      BY <1>3, <2>2, ElementOfSeq, InstructionVariables DEF written
    <3> QED
      BY <2>1, <3>1
  <2>3. ASSUME NEW p \in 1..Len(todo'), NEW v \in Writes(todo'[p])
        PROVE  Temporary(v) => v.id.num < tmp_counter'
    <3>1. v \in Variable /\ willWrite(v)
      BY <1>2, <2>3, ElementOfSeq, WritesVariables DEF willWrite
    <3> QED
      BY <2>1, <3>1
  <2> QED
    BY <2>2, <2>3 DEF TempsNumbered, Numbered
<1>11. ReadsSettled'
  <2>1. \A k \in 1..Len(instructions') : \A v \in Sources(instructions'[k]) : ready(v)
    <3>1. \A k \in 1..Len(instructions') : k \in 1..Len(instructions) \/ k = Len(instructions) + 1
      BY <1>3
    <3> QED
      BY <1>3, <1>8, <3>1 DEF TInv, ReadsSettled
  <2> QED
    BY <2>1 DEF ReadsSettled, Settled, Written, Pending, written, willWrite
<1>12. Settled(current_val)'
  <2>1. ready(current_val')
    <3>1. CASE current_val' = current_val
      BY <1>8, <3>1 DEF TInv
    <3>2. CASE current_val' \in Destinations(i) \ Writes(Head(todo))
      BY <1>1, <1>4, <1>5, <1>6, <3>2
    <3> QED
      BY <3>1, <3>2
  <2> QED
    BY <2>1 DEF Settled, Written, Pending, written, willWrite
<1>13. (\A p \in 1..Len(todo) : HoldsSettled(todo[p]))'
  <2>1. ASSUME NEW o, HoldsSettled(o)
        PROVE  /\ o.do = "binary" => ready(o.src1)
               /\ o.do = "emit" =>
                    o.ins.kind # "Binary" /\ \A v \in Sources(o.ins) : ~Temporary(v)
    BY <1>8, <2>1 DEF HoldsSettled
  <2>2. \A q \in 1..Len(todo') : HoldsSettled(todo'[q])
    <3>1. \A q \in 1..Len(todo') : q + 1 \in 1..Len(todo) /\ todo'[q] = todo[q + 1]
      BY <1>2
    <3> QED
      BY <3>1 DEF TInv
  <2>3. \A p \in 1..Len(todo') :
          /\ todo'[p].do = "binary" => ready(todo'[p].src1)
          /\ todo'[p].do = "emit" =>
               todo'[p].ins.kind # "Binary" /\ \A v \in Sources(todo'[p].ins) : ~Temporary(v)
    BY <2>1, <2>2
  <2> QED
    BY <2>3 DEF HoldsSettled, Settled, Written, Pending, written, willWrite
<1>14. ResultsInOrder'
  <2> SUFFICES ASSUME NEW p \in 1..Len(todo'), todo'[p].do = "value",
                      NEW v, v = todo'[p].val, Temporary(v)
               PROVE  /\ written(v) \/ \E q \in 1..p-1 : v \in Writes(todo'[q])
                      /\ \A q \in p+1..Len(todo') : v \notin Writes(todo'[q])
    BY DEF ResultsInOrder, Written, written
  <2>1. p + 1 \in 1..Len(todo) /\ todo'[p] = todo[p + 1]
    BY <1>2
  <2>2. /\ Written(v) \/ \E q \in 1..p : v \in Writes(todo[q])
        /\ \A q \in p+2..Len(todo) : v \notin Writes(todo[q])
    <3>1. (p + 1) - 1 = p /\ (p + 1) + 1 = p + 2
      OBVIOUS
    <3>2. /\ Written(v) \/ \E q \in 1..(p+1)-1 : v \in Writes(todo[q])
          /\ \A q \in (p+1)+1..Len(todo) : v \notin Writes(todo[q])
      BY <2>1 DEF TInv, ResultsInOrder
    <3> QED
      BY <3>1, <3>2
  <2>3. ASSUME NEW q \in 1..p, v \in Writes(todo[q])
        PROVE  written(v) \/ \E r \in 1..p-1 : v \in Writes(todo'[r])
    <3>1. CASE q = 1
      BY <1>2, <1>4, <2>3, <3>1
    <3>2. CASE q # 1
      <4>1. q - 1 \in 1..p-1 /\ q \in 2..Len(todo)
        BY <1>2, <2>1, <3>2
      <4>2. todo'[q - 1] = todo[q]
        BY <1>2, <4>1
      <4> QED
        BY <2>3, <4>1, <4>2
    <3> QED
      BY <3>1, <3>2
  <2>4. ASSUME NEW r \in p+1..Len(todo') PROVE v \notin Writes(todo'[r])
    <3>1. r \in 1..Len(todo') /\ r + 1 \in p+2..Len(todo)
      BY <1>2
    <3> QED
      BY <1>2, <2>2, <3>1
  <2> QED
    BY <1>4, <2>2, <2>3, <2>4
<1>15. TempsSettledWhenRead'
  <2> SUFFICES ASSUME NEW k \in 1..Len(instructions'), NEW v \in Sources(instructions'[k]),
                      Temporary(v)
               PROVE  /\ \E j \in 1..k-1 : v \in Destinations(instructions'[j])
                      /\ \A j \in k..Len(instructions') : v \notin Destinations(instructions'[j])
    BY DEF TempsSettledWhenRead
  <2>1. CASE k \in 1..Len(instructions)
    <3>1. /\ v \in Sources(instructions[k])
          /\ \E j \in 1..k-1 : v \in Destinations(instructions[j])
          /\ \A j \in k..Len(instructions) : v \notin Destinations(instructions[j])
      BY <1>3, <2>1 DEF TInv, TempsSettledWhenRead
    <3>2. Written(v) /\ ~Pending(v)
      BY <2>1, <3>1 DEF TInv, ReadsSettled, Settled
    <3>3. v \notin Destinations(i)
      BY <1>9, <3>2
    <3>4. \A j \in 1..k-1 : j \in 1..Len(instructions)
      BY <1>3, <2>1
    <3>5. \A j \in k..Len(instructions') :
            \/ j \in 1..Len(instructions) /\ j \in k..Len(instructions)
            \/ j = Len(instructions) + 1
      BY <1>3, <2>1
    <3> QED
      BY <1>3, <3>1, <3>3, <3>4, <3>5
  <2>2. CASE k = Len(instructions) + 1
    <3>1. v \in Sources(i)
      BY <1>3, <2>2
    <3>2. Written(v) /\ ~Pending(v)
      BY <3>1 DEF Settled
    <3>3. v \notin Destinations(i)
      BY <1>9, <3>2
    <3>4. \A j \in 1..Len(instructions) : j \in 1..k-1 /\ instructions'[j] = instructions[j]
      BY <1>3, <2>2
    <3>5. \A j \in k..Len(instructions') : j = Len(instructions) + 1
      BY <1>3, <2>2
    <3> QED
      BY <1>3, <3>2, <3>3, <3>4, <3>5 DEF Written
  <2> QED
    BY <1>3, <2>1, <2>2
<1>16. ResultsNew'
  <2>1. \A k \in 1..Len(instructions') : k \in 1..Len(instructions) \/ k = Len(instructions) + 1
    BY <1>3
  <2> QED
    BY <1>3, <2>1 DEF TInv, ResultsNew
<1> QED
  BY <1>10, <1>11, <1>12, <1>13, <1>14, <1>15, <1>16 DEF TInv

-----------------------------------------------------------------------------
(* Statements that neither write a temporary nor hold one that changes. *)
Quiet(o) ==
  /\ HoldsSettled(o)
  /\ \A v \in Writes(o) : ~Temporary(v)
  /\ o.do = "value" => ~Temporary(o.val)

LEMMA NotTemporary ==
  /\ \A x : ~Temporary(TackyVar(Source(x)))
  /\ \A c : ~Temporary(TackyConstant(c))
BY DEF Temporary, TackyVar, Source, TackyConstant

LEMMA QuietStatements ==
  /\ \A n : Quiet(Accept(n)) /\ Quiet(Branch(n))
  /\ \A op : Quiet(EmitUnary(op))
  /\ \A op, n : Quiet(Second(op, n))
  /\ \A op, v : Settled(v) => Quiet(EmitBinary(op, v))
  /\ \A x : Quiet(EmitCopy(TackyVar(Source(x)))) /\ Quiet(SetValue(TackyVar(Source(x))))
  /\ \A l : Quiet(EmitJZ(l)) /\ Quiet(EmitJNZ(l)) /\ Quiet(Emit(Jump(l))) /\ Quiet(Emit(Label(l)))
  /\ Quiet(EmitReturn) /\ Quiet(Emit(TackyReturn(TackyConstant(0))))
<1> USE DEF Quiet, HoldsSettled, Writes
<1>1. \A n : Quiet(Accept(n)) /\ Quiet(Branch(n))
  BY DEF Accept, Branch
<1>2. \A op : Quiet(EmitUnary(op))
  BY DEF EmitUnary
<1>3. \A op, n : Quiet(Second(op, n))
  BY DEF Second
<1>4. \A op, v : Settled(v) => Quiet(EmitBinary(op, v))
  BY DEF EmitBinary
<1>5. \A x : Quiet(EmitCopy(TackyVar(Source(x)))) /\ Quiet(SetValue(TackyVar(Source(x))))
  BY NotTemporary DEF EmitCopy, SetValue
<1>6. \A l : Quiet(EmitJZ(l)) /\ Quiet(EmitJNZ(l))
  BY DEF EmitJZ, EmitJNZ
<1>7. \A l : Quiet(Emit(Jump(l))) /\ Quiet(Emit(Label(l)))
  BY DEF Emit, Jump, Label, Sources, Destinations
<1>8. Quiet(EmitReturn) /\ Quiet(Emit(TackyReturn(TackyConstant(0))))
  BY NotTemporary DEF EmitReturn, Emit, TackyReturn, Sources, Destinations
<1> QED
  BY <1>1, <1>2, <1>3, <1>4, <1>5, <1>6, <1>7, <1>8

LEMMA QuietTuples ==
  ASSUME NEW o1 \in Op, NEW o2 \in Op, NEW o3 \in Op, Quiet(o1), Quiet(o2), Quiet(o3)
  PROVE  /\ <<o1>> \in Seq(Op) /\ \A p \in 1..Len(<<o1>>) : Quiet(<<o1>>[p])
         /\ <<o1, o2>> \in Seq(Op) /\ \A p \in 1..Len(<<o1, o2>>) : Quiet(<<o1, o2>>[p])
         /\ <<o1, o2, o3>> \in Seq(Op)
         /\ \A p \in 1..Len(<<o1, o2, o3>>) : Quiet(<<o1, o2, o3>>[p])
         /\ <<>> \in Seq(Op) /\ \A p \in 1..Len(<<>>) : Quiet(<<>>[p])
OBVIOUS

LEMMA QuietVisit ==
  ASSUME IInv, TInv, todo # <<>>, Writes(Head(todo)) = {},
         NEW body \in Seq(Op), todo' = body \o Tail(todo),
         \A p \in 1..Len(body) : Quiet(body[p]),
         instructions' = instructions, tmp_counter' = tmp_counter,
         current_val' \in TackyVal, Settled(current_val')
  PROVE  TInv'
<1>1. Calm(body) /\ MakesNone(body)
  BY DEF Calm, MakesNone, Quiet
<1> QED
  BY <1>1, TempVisit

(* The head of the agenda at a visit, a branch or a right operand. *)
LEMMA VisitHead ==
  ASSUME IInv, TInv, Doing("accept") \/ Doing("branch") \/ Doing("second")
  PROVE  /\ TypeOK /\ todo # <<>> /\ Writes(Head(todo)) = {} /\ Head(todo) \in Op
         /\ Head(todo).do # "second" => Head(todo).node \in Node
         /\ current_val \in TackyVal /\ Settled(current_val)
<1>1. todo # <<>> /\ Head(todo).do \in {"accept", "branch", "second"}
  BY DEF Doing
<1>2. TypeOK /\ todo \in Seq(Op) /\ current_val \in TackyVal /\ Settled(current_val)
  BY DEF IInv, TInv, TypeOK
<1>3. Head(todo) \in Op
  BY <1>1, <1>2, HeadTailProperties
<1>4. Head(todo).do # "second" => Head(todo).node \in Node
  BY <1>1, <1>3, OpFields, VisitableIsNode
<1>5. Writes(Head(todo)) = {}
  BY <1>1 DEF Writes
<1> QED
  BY <1>1, <1>2, <1>3, <1>4, <1>5

(* The visit methods that make no temporary. *)
LEMMA QuietExprSteps ==
  ASSUME IInv, TInv,
         \/ VisitConstant \/ VisitVar \/ VisitUnaryOperator \/ VisitBinaryOperator
         \/ VisitRightOperand \/ VisitAssignment \/ VisitConditional
  PROVE  TInv'
<1> DEFINE n == Head(todo).node
<1>1. /\ TypeOK /\ todo # <<>> /\ Writes(Head(todo)) = {} /\ Head(todo) \in Op
      /\ Head(todo).do # "second" => n \in Node
      /\ current_val \in TackyVal /\ Settled(current_val)
  BY VisitHead DEF VisitConstant, VisitVar, VisitUnaryOperator, VisitBinaryOperator,
     VisitRightOperand, VisitAssignment, VisitConditional, Visiting
<1>2. ASSUME NEW v \in Operand, ~Temporary(v), current_val' = v,
             todo' = <<>> \o Tail(todo),
             UNCHANGED <<ast, instructions, tmp_counter, label_counter>>
      PROVE  TInv'
  <2>1. current_val' \in TackyVal /\ Settled(current_val')
    BY <1>2 DEF TackyVal, Settled
  <2>2. <<>> \in Seq(Op) /\ Len(<<>>) = 0
    BY EmptySeq
  <2>3. \A p \in 1..Len(<<>>) : Quiet(<<>>[p])
    BY <2>2
  <2> QED
    BY <1>1, <1>2, <2>1, <2>2, <2>3, QuietVisit
<1>3. CASE VisitConstant
  <2>1. /\ current_val' = TackyConstant(n.value) /\ TackyConstant(n.value) \in Operand
        /\ ~Temporary(TackyConstant(n.value))
    BY <1>1, <1>3, Children, MadeNames, NotTemporary DEF VisitConstant, Visiting, Doing
  <2> QED
    BY <1>2, <1>3, <2>1 DEF VisitConstant, Run
<1>4. CASE VisitVar
  <2>1. /\ current_val' = TackyVar(Source(n.id)) /\ TackyVar(Source(n.id)) \in Operand
        /\ ~Temporary(TackyVar(Source(n.id)))
    BY <1>1, <1>4, Children, MadeNames, NotTemporary DEF VisitVar, Visiting, Doing
  <2> QED
    BY <1>2, <1>4, <2>1 DEF VisitVar, Run
<1>5. CASE VisitUnaryOperator
  <2> DEFINE o1 == Accept(n.expr)
             o2 == EmitUnary(convert_unop[n.op])
  <2>1. o1 \in Op /\ o2 \in Op /\ Quiet(o1) /\ Quiet(o2)
    BY <1>1, <1>5, Children, ConvertUnop, StatementsOfBodies, QuietStatements
    DEF VisitUnaryOperator, Visiting, Doing
  <2>2. todo' = <<o1, o2>> \o Tail(todo)
    BY <1>5 DEF VisitUnaryOperator, Run
  <2> HIDE DEF o1, o2
  <2> QED
    BY <1>1, <1>5, <2>1, <2>2, QuietTuples, QuietVisit DEF VisitUnaryOperator
<1>6. CASE VisitBinaryOperator
  <2> DEFINE o1 == Accept(n.left)
             o2 == Second(convert_binop[n.op], n.right)
  <2>1. o1 \in Op /\ o2 \in Op /\ Quiet(o1) /\ Quiet(o2)
    BY <1>1, <1>6, Children, ConvertBinop, StatementsOfBodies, QuietStatements
    DEF VisitBinaryOperator, Visiting, Doing
  <2>2. todo' = <<o1, o2>> \o Tail(todo)
    BY <1>6 DEF VisitBinaryOperator, Run
  <2> HIDE DEF o1, o2
  <2> QED
    BY <1>1, <1>6, <2>1, <2>2, QuietTuples, QuietVisit DEF VisitBinaryOperator
<1>7. CASE VisitRightOperand
  <2> DEFINE o1 == Accept(n)
             o2 == EmitBinary(Head(todo).op, current_val)
  <2>1. n \in Expr /\ Head(todo).op \in TackyBinaryOp /\ current_val \in Operand
    BY <1>1, <1>7, OpFields, CurrentIsSet DEF VisitRightOperand, Doing, Consumes
  <2>2. o1 \in Op /\ o2 \in Op /\ Quiet(o1) /\ Quiet(o2)
    BY <1>1, <2>1, StatementsOfBodies, QuietStatements
  <2>3. todo' = <<o1, o2>> \o Tail(todo)
    BY <1>7 DEF VisitRightOperand, Run
  <2> HIDE DEF o1, o2
  <2> QED
    BY <1>1, <1>7, <2>2, <2>3, QuietTuples, QuietVisit DEF VisitRightOperand
<1>8. CASE VisitAssignment
  <2> DEFINE dst == TackyVar(Source(n.left.id))
             o1 == Accept(n.right)
             o2 == EmitCopy(dst)
             o3 == SetValue(dst)
  <2>1. n.right \in Expr /\ dst \in Variable
    BY <1>1, <1>8, Children, MadeNames DEF VisitAssignment, Visiting, Doing
  <2>2. /\ o1 \in Op /\ o2 \in Op /\ o3 \in Op
        /\ Quiet(o1) /\ Quiet(o2) /\ Quiet(o3)
    BY <2>1, StatementsOfBodies, QuietStatements
  <2>3. todo' = <<o1, o2, o3>> \o Tail(todo)
    BY <1>8 DEF VisitAssignment, Run
  <2> HIDE DEF o1, o2, o3
  <2> QED
    BY <1>1, <1>8, <2>2, <2>3, QuietTuples, QuietVisit DEF VisitAssignment
<1>9. CASE VisitConditional
  <2> DEFINE o1 == Accept(n.cond)
             o2 == Branch(n)
  <2>1. n.cond \in Expr /\ n \in Visitable
    BY <1>1, <1>9, Children, OpFields DEF VisitConditional, Visiting, Doing
  <2>2. o1 \in Op /\ o2 \in Op /\ Quiet(o1) /\ Quiet(o2)
    BY <2>1, StatementsOfBodies, QuietStatements
  <2>3. todo' = <<o1, o2>> \o Tail(todo)
    BY <1>9 DEF VisitConditional, Run
  <2> HIDE DEF o1, o2
  <2> QED
    BY <1>1, <1>9, <2>2, <2>3, QuietTuples, QuietVisit DEF VisitConditional
<1> QED
  BY <1>3, <1>4, <1>5, <1>6, <1>7, <1>8, <1>9

LEMMA QuietStmtSteps ==
  ASSUME IInv, TInv, VisitStmt
  PROVE  TInv'
<1> DEFINE n == Head(todo).node
<1>1. /\ TypeOK /\ todo # <<>> /\ Writes(Head(todo)) = {} /\ Head(todo) \in Op
      /\ n \in Node /\ current_val \in TackyVal /\ Settled(current_val)
  BY VisitHead DEF VisitStmt, VisitReturnStmt, VisitIfStatement, BranchIfElse, BranchIf,
     VisitExpressionStmt, VisitNullStmt, VisitDeclarationVariable, VisitCompoundStmt,
     VisitBlock, VisitFunction, Visiting, Doing
<1>2. UNCHANGED <<ast, instructions, current_val, tmp_counter>>
  BY DEF VisitStmt, VisitReturnStmt, VisitIfStatement, BranchIfElse, BranchIf,
     VisitExpressionStmt, VisitNullStmt, VisitDeclarationVariable, VisitCompoundStmt,
     VisitBlock, VisitFunction
<1>3. ASSUME NEW body \in Seq(Op), \A p \in 1..Len(body) : Quiet(body[p]),
             todo' = body \o Tail(todo)
      PROVE  TInv'
  BY <1>1, <1>2, <1>3, QuietVisit
<1>4. ASSUME todo' = <<>> \o Tail(todo) PROVE TInv'
  <2>1. <<>> \in Seq(Op) /\ Len(<<>>) = 0
    BY EmptySeq
  <2>2. \A p \in 1..Len(<<>>) : Quiet(<<>>[p])
    BY <2>1
  <2> QED
    BY <1>3, <1>4, <2>1, <2>2
<1>5. ASSUME NEW o1 \in Op, Quiet(o1), todo' = <<o1>> \o Tail(todo) PROVE TInv'
  BY <1>3, <1>5, QuietTuples
<1>6. ASSUME NEW o1 \in Op, NEW o2 \in Op, Quiet(o1), Quiet(o2),
             todo' = <<o1, o2>> \o Tail(todo)
      PROVE  TInv'
  BY <1>3, <1>6, QuietTuples
<1>7. CASE VisitReturnStmt
  <2> DEFINE o1 == Accept(n.expr)
  <2>1. o1 \in Op /\ EmitReturn \in Op /\ Quiet(o1) /\ Quiet(EmitReturn)
    BY <1>1, <1>7, Children, StatementsOfBodies, QuietStatements
    DEF VisitReturnStmt, Visiting
  <2>2. todo' = <<o1, EmitReturn>> \o Tail(todo)
    BY <1>7 DEF VisitReturnStmt, Run
  <2> HIDE DEF o1
  <2> QED
    BY <1>6, <2>1, <2>2
<1>8. CASE VisitIfStatement
  <2> DEFINE o1 == Accept(n.cond)
             o2 == Branch(n)
  <2>1. n.cond \in Expr /\ n \in Visitable
    BY <1>1, <1>8, Children, OpFields DEF VisitIfStatement, Visiting, Doing
  <2>2. o1 \in Op /\ o2 \in Op /\ Quiet(o1) /\ Quiet(o2)
    BY <2>1, StatementsOfBodies, QuietStatements
  <2>3. todo' = <<o1, o2>> \o Tail(todo)
    BY <1>8 DEF VisitIfStatement, Run
  <2> HIDE DEF o1, o2
  <2> QED
    BY <1>6, <2>2, <2>3
<1>9. CASE BranchIfElse
  <2> DEFINE end_label  == make_label_name("if_end", 0)
             else_label == make_label_name("if_else", 1)
             o1 == EmitJZ(else_label)
             o2 == Accept(n.then)
             o3 == Emit(Jump(end_label))
             o4 == Emit(Label(else_label))
             o5 == Accept(n.else)
             o6 == Emit(Label(end_label))
             body == <<o1, o2, o3, o4, o5, o6>>
  <2>1. n.then \in Visitable /\ n.else \in Visitable
    BY <1>1, <1>9, Children DEF BranchIfElse, Visitable, Item
  <2>2. end_label \in LabelId /\ else_label \in LabelId
    BY <1>1, TwoLabels DEF LabelPrefix
  <2>3. todo' = body \o Tail(todo)
    BY <1>9 DEF BranchIfElse, Run
  <2>4. /\ o1 \in Op /\ o2 \in Op /\ o3 \in Op /\ o4 \in Op /\ o5 \in Op /\ o6 \in Op
        /\ Quiet(o1) /\ Quiet(o2) /\ Quiet(o3) /\ Quiet(o4) /\ Quiet(o5) /\ Quiet(o6)
    BY <2>1, <2>2, StatementsOfBodies, JumpStatements, QuietStatements
  <2> HIDE DEF o1, o2, o3, o4, o5, o6
  <2>5. body \in Seq(Op) /\ \A p \in 1..Len(body) : Quiet(body[p])
    BY <2>4
  <2> HIDE DEF body
  <2> QED
    BY <1>3, <2>3, <2>5
<1>10. CASE BranchIf
  <2> DEFINE end_label == make_label_name("if_end", 0)
             o1 == EmitJZ(end_label)
             o2 == Accept(n.then)
             o3 == Emit(Label(end_label))
  <2>1. n.then \in Visitable
    BY <1>1, <1>10, Children DEF BranchIf, Visitable, Item
  <2>2. end_label \in LabelId
    BY <1>1, TwoLabels DEF LabelPrefix
  <2>3. todo' = <<o1, o2, o3>> \o Tail(todo)
    BY <1>10 DEF BranchIf, Run
  <2>4. o1 \in Op /\ o2 \in Op /\ o3 \in Op /\ Quiet(o1) /\ Quiet(o2) /\ Quiet(o3)
    BY <2>1, <2>2, StatementsOfBodies, JumpStatements, QuietStatements
  <2> HIDE DEF o1, o2, o3
  <2> QED
    BY <1>3, <2>3, <2>4, QuietTuples
<1>11. CASE VisitExpressionStmt
  <2> DEFINE o1 == Accept(n.expr)
  <2>1. o1 \in Op /\ Quiet(o1)
    BY <1>1, <1>11, Children, StatementsOfBodies, QuietStatements
    DEF VisitExpressionStmt, Visiting
  <2>2. todo' = <<o1>> \o Tail(todo)
    BY <1>11 DEF VisitExpressionStmt, Run
  <2> HIDE DEF o1
  <2> QED
    BY <1>5, <2>1, <2>2
<1>12. CASE VisitNullStmt
  BY <1>4, <1>12 DEF VisitNullStmt, Run
<1>13. CASE VisitDeclarationVariable
  <2>1. CASE n.init = Nil
    BY <1>4, <1>13, <2>1 DEF VisitDeclarationVariable, Run
  <2>2. CASE n.init # Nil
    <3> DEFINE dst == TackyVar(Source(n.id))
               o1 == Accept(n.init)
               o2 == EmitCopy(dst)
    <3>1. n.init \in Expr /\ dst \in Variable
      BY <1>1, <1>13, <2>2, Children, MadeNames DEF VisitDeclarationVariable, Visiting
    <3>2. o1 \in Op /\ o2 \in Op /\ Quiet(o1) /\ Quiet(o2)
      BY <3>1, StatementsOfBodies, QuietStatements
    <3>3. todo' = <<o1, o2>> \o Tail(todo)
      BY <1>13, <2>2 DEF VisitDeclarationVariable, Run
    <3> HIDE DEF o1, o2
    <3> QED
      BY <1>6, <3>2, <3>3
  <2> QED
    BY <2>1, <2>2
<1>14. CASE VisitCompoundStmt
  <2> DEFINE o1 == Accept(n.block)
  <2>1. o1 \in Op /\ Quiet(o1)
    BY <1>1, <1>14, Children, StatementsOfBodies, QuietStatements
    DEF VisitCompoundStmt, Visiting, Visitable
  <2>2. todo' = <<o1>> \o Tail(todo)
    BY <1>14 DEF VisitCompoundStmt, Run
  <2> HIDE DEF o1
  <2> QED
    BY <1>5, <2>1, <2>2
<1>15. ASSUME NEW items \in Seq(Item)
       PROVE  /\ AcceptAll(items) \in Seq(Op)
              /\ \A p \in 1..Len(AcceptAll(items)) : Quiet(AcceptAll(items)[p])
  <2>1. Len(items) \in Nat /\ AcceptAll(items) \in Seq(Op)
    BY LenProperties, AcceptAllIsPlain
  <2>2. /\ Len(AcceptAll(items)) = Len(items)
        /\ \A p \in 1..Len(items) : AcceptAll(items)[p] = Accept(items[p])
    <3>1. DOMAIN AcceptAll(items) = 1..Len(items)
      BY DEF AcceptAll
    <3> QED
      BY <2>1, <3>1, LenProperties DEF AcceptAll
  <2> QED
    BY <2>1, <2>2, QuietStatements
<1>16. CASE VisitBlock
  <2> DEFINE body == AcceptAll(n.items)
  <2>1. n.items \in Seq(Item)
    BY <1>1, <1>16, Children DEF VisitBlock, Visiting
  <2>2. todo' = body \o Tail(todo)
    BY <1>16 DEF VisitBlock, Run
  <2>3. body \in Seq(Op) /\ \A p \in 1..Len(body) : Quiet(body[p])
    BY <1>15, <2>1
  <2> HIDE DEF body
  <2> QED
    BY <1>3, <2>2, <2>3
<1>17. CASE VisitFunction
  <2> DEFINE list == AcceptAll(n.block.items)
             last == Emit(TackyReturn(TackyConstant(0)))
             body == list \o <<last>>
  <2>1. n.block.items \in Seq(Item)
    <3>1. n.block \in Body
      BY <1>1, <1>17, Children DEF VisitFunction, Visiting
    <3> QED
      BY <3>1, Children DEF Body
  <2>2. todo' = body \o Tail(todo)
    BY <1>17 DEF VisitFunction, Run
  <2>3. list \in Seq(Op) /\ \A p \in 1..Len(list) : Quiet(list[p])
    BY <1>15, <2>1
  <2>4. last \in Op /\ Quiet(last)
    BY QuietStatements DEF Op, TackyInstruction, Operand, Emit, TackyReturn, TackyConstant
  <2> HIDE DEF list, last
  <2>5. /\ body \in Seq(Op)
        /\ \A p \in 1..Len(body) : body[p] = last \/ \E q \in 1..Len(list) : body[p] = list[q]
    BY <2>3, <2>4
  <2>6. \A p \in 1..Len(body) : Quiet(body[p])
    BY <2>3, <2>4, <2>5
  <2> HIDE DEF body
  <2> QED
    BY <1>3, <2>2, <2>5, <2>6
<1> QED
  BY <1>7, <1>8, <1>9, <1>10, <1>11, <1>12, <1>13, <1>14, <1>16, <1>17 DEF VisitStmt

(* What the results of &&, || and ?: write and hold. *)
LEMMA CopyOfConstant ==
  ASSUME NEW c, NEW d
  PROVE  LET o == Emit(TackyCopy(TackyConstant(c), d))
         IN  o.do = "emit" /\ HoldsSettled(o) /\ Writes(o) = {d}
BY NotTemporary DEF Emit, TackyCopy, HoldsSettled, Writes, Sources, Destinations

LEMMA ResultValue ==
  ASSUME NEW d
  PROVE  /\ SetValue(d).do = "value" /\ SetValue(d).val = d
         /\ HoldsSettled(SetValue(d)) /\ Writes(SetValue(d)) = {}
         /\ EmitCopy(d).do = "copy" /\ HoldsSettled(EmitCopy(d)) /\ Writes(EmitCopy(d)) = {d}
BY DEF SetValue, EmitCopy, HoldsSettled, Writes

LEMMA TempAndStep ==
  ASSUME IInv, TInv, VisitAnd
  PROVE  TInv'
<1> DEFINE n == Head(todo).node
           false_label == make_label_name("and_false", 0)
           end_label  == make_label_name("and_else", 1)
           result_val == make_temporary_name
           body == <<Accept(n.left), EmitJZ(false_label),
                     Accept(n.right), EmitJZ(false_label),
                     Emit(TackyCopy(TackyConstant(1), result_val)),
                     Emit(Jump(end_label)),
                     Emit(Label(false_label)),
                     Emit(TackyCopy(TackyConstant(0), result_val)),
                     Emit(Label(end_label)),
                     SetValue(result_val)>>
<1>1. /\ TypeOK /\ todo # <<>> /\ Writes(Head(todo)) = {} /\ n \in Node
      /\ n.k = "BinaryOperator" /\ current_val \in TackyVal /\ Settled(current_val)
  BY VisitHead DEF VisitAnd, Visiting, Doing
<1>2. n.left \in Expr /\ n.right \in Expr /\ result_val \in Variable
  BY <1>1, Children, MadeNames
<1>3. false_label \in LabelId /\ end_label \in LabelId
  BY <1>1, TwoLabels DEF LabelPrefix
<1>4. /\ todo' = body \o Tail(todo) /\ tmp_counter' = tmp_counter + 1
      /\ instructions' = instructions /\ current_val' = current_val
  BY DEF VisitAnd, Run
<1>5. result_val.id.num = tmp_counter
  BY DEF make_temporary_name, TackyVar, Tmp
<1> HIDE DEF n, false_label, end_label, result_val
<1>6. /\ Len(body) = 10
      /\ body[1] = Accept(n.left) /\ body[2] = EmitJZ(false_label)
      /\ body[3] = Accept(n.right) /\ body[4] = EmitJZ(false_label)
      /\ body[5] = Emit(TackyCopy(TackyConstant(1), result_val))
      /\ body[6] = Emit(Jump(end_label)) /\ body[7] = Emit(Label(false_label))
      /\ body[8] = Emit(TackyCopy(TackyConstant(0), result_val))
      /\ body[9] = Emit(Label(end_label)) /\ body[10] = SetValue(result_val)
  OBVIOUS
<1>7. body \in Seq(Op)
  BY <1>2, <1>3, StatementsOfBodies, JumpStatements
<1> HIDE DEF body
<1>8. \A p \in 1..Len(body) : p \notin {5, 8, 10} => Quiet(body[p])
  BY <1>6, QuietStatements
<1>9. /\ body[5].do = "emit" /\ HoldsSettled(body[5]) /\ Writes(body[5]) = {result_val}
      /\ body[8].do = "emit" /\ HoldsSettled(body[8]) /\ Writes(body[8]) = {result_val}
      /\ body[10].do = "value" /\ HoldsSettled(body[10]) /\ Writes(body[10]) = {}
      /\ body[10].val = result_val
  BY <1>6, CopyOfConstant, ResultValue
<1>10. Calm(body)
  BY <1>5, <1>6, <1>8, <1>9 DEF Calm, Quiet
<1> QED
  BY <1>1, <1>4, <1>7, <1>10, TempVisit

LEMMA TempOrStep ==
  ASSUME IInv, TInv, VisitOr
  PROVE  TInv'
<1> DEFINE n == Head(todo).node
           true_label == make_label_name("or_true", 0)
           end_label  == make_label_name("or_end", 1)
           result_val == make_temporary_name
           body == <<Accept(n.left), EmitJNZ(true_label),
                     Accept(n.right), EmitJNZ(true_label),
                     Emit(TackyCopy(TackyConstant(0), result_val)),
                     Emit(Jump(end_label)),
                     Emit(Label(true_label)),
                     Emit(TackyCopy(TackyConstant(1), result_val)),
                     Emit(Label(end_label)),
                     SetValue(result_val)>>
<1>1. /\ TypeOK /\ todo # <<>> /\ Writes(Head(todo)) = {} /\ n \in Node
      /\ n.k = "BinaryOperator" /\ current_val \in TackyVal /\ Settled(current_val)
  BY VisitHead DEF VisitOr, Visiting, Doing
<1>2. n.left \in Expr /\ n.right \in Expr /\ result_val \in Variable
  BY <1>1, Children, MadeNames
<1>3. true_label \in LabelId /\ end_label \in LabelId
  BY <1>1, TwoLabels DEF LabelPrefix
<1>4. /\ todo' = body \o Tail(todo) /\ tmp_counter' = tmp_counter + 1
      /\ instructions' = instructions /\ current_val' = current_val
  BY DEF VisitOr, Run
<1>5. result_val.id.num = tmp_counter
  BY DEF make_temporary_name, TackyVar, Tmp
<1> HIDE DEF n, true_label, end_label, result_val
<1>6. /\ Len(body) = 10
      /\ body[1] = Accept(n.left) /\ body[2] = EmitJNZ(true_label)
      /\ body[3] = Accept(n.right) /\ body[4] = EmitJNZ(true_label)
      /\ body[5] = Emit(TackyCopy(TackyConstant(0), result_val))
      /\ body[6] = Emit(Jump(end_label)) /\ body[7] = Emit(Label(true_label))
      /\ body[8] = Emit(TackyCopy(TackyConstant(1), result_val))
      /\ body[9] = Emit(Label(end_label)) /\ body[10] = SetValue(result_val)
  OBVIOUS
<1>7. body \in Seq(Op)
  BY <1>2, <1>3, StatementsOfBodies, JumpStatements
<1> HIDE DEF body
<1>8. \A p \in 1..Len(body) : p \notin {5, 8, 10} => Quiet(body[p])
  BY <1>6, QuietStatements
<1>9. /\ body[5].do = "emit" /\ HoldsSettled(body[5]) /\ Writes(body[5]) = {result_val}
      /\ body[8].do = "emit" /\ HoldsSettled(body[8]) /\ Writes(body[8]) = {result_val}
      /\ body[10].do = "value" /\ HoldsSettled(body[10]) /\ Writes(body[10]) = {}
      /\ body[10].val = result_val
  BY <1>6, CopyOfConstant, ResultValue
<1>10. Calm(body)
  BY <1>5, <1>6, <1>8, <1>9 DEF Calm, Quiet
<1> QED
  BY <1>1, <1>4, <1>7, <1>10, TempVisit

LEMMA TempConditionalStep ==
  ASSUME IInv, TInv, BranchConditional
  PROVE  TInv'
<1> DEFINE n == Head(todo).node
           e2_label   == make_label_name("e2_end", 0)
           end_label  == make_label_name("conditional_end", 1)
           result_val == make_temporary_name
           body == <<EmitJZ(e2_label),
                     Accept(n.true), EmitCopy(result_val), Emit(Jump(end_label)),
                     Emit(Label(e2_label)),
                     Accept(n.false), EmitCopy(result_val),
                     Emit(Label(end_label)),
                     SetValue(result_val)>>
<1>1. /\ TypeOK /\ todo # <<>> /\ Writes(Head(todo)) = {} /\ n \in Node
      /\ n.k = "Conditional" /\ current_val \in TackyVal /\ Settled(current_val)
  BY VisitHead DEF BranchConditional, Doing
<1>2. n.true \in Expr /\ n.false \in Expr /\ result_val \in Variable
  BY <1>1, Children, MadeNames
<1>3. e2_label \in LabelId /\ end_label \in LabelId
  BY <1>1, TwoLabels DEF LabelPrefix
<1>4. /\ todo' = body \o Tail(todo) /\ tmp_counter' = tmp_counter + 1
      /\ instructions' = instructions /\ current_val' = current_val
  BY DEF BranchConditional, Run
<1>5. result_val.id.num = tmp_counter
  BY DEF make_temporary_name, TackyVar, Tmp
<1> HIDE DEF n, e2_label, end_label, result_val
<1>6. /\ Len(body) = 9
      /\ body[1] = EmitJZ(e2_label) /\ body[2] = Accept(n.true)
      /\ body[3] = EmitCopy(result_val) /\ body[4] = Emit(Jump(end_label))
      /\ body[5] = Emit(Label(e2_label)) /\ body[6] = Accept(n.false)
      /\ body[7] = EmitCopy(result_val) /\ body[8] = Emit(Label(end_label))
      /\ body[9] = SetValue(result_val)
  OBVIOUS
<1>7. body \in Seq(Op)
  BY <1>2, <1>3, StatementsOfBodies, JumpStatements
<1> HIDE DEF body
<1>8. \A p \in 1..Len(body) : p \notin {3, 7, 9} => Quiet(body[p])
  BY <1>6, QuietStatements
<1>9. /\ body[3].do = "copy" /\ HoldsSettled(body[3]) /\ Writes(body[3]) = {result_val}
      /\ body[7].do = "copy" /\ HoldsSettled(body[7]) /\ Writes(body[7]) = {result_val}
      /\ body[9].do = "value" /\ HoldsSettled(body[9]) /\ Writes(body[9]) = {}
      /\ body[9].val = result_val
  BY <1>6, ResultValue
<1>10. Calm(body)
  BY <1>5, <1>6, <1>8, <1>9 DEF Calm, Quiet
<1> QED
  BY <1>1, <1>4, <1>7, <1>10, TempVisit

(* The statements that push an instruction, and those that set the value. *)
LEMMA TempExecuteSteps ==
  ASSUME IInv, TInv, Execute
  PROVE  TInv'
<1> DEFINE h == Head(todo)
<1>1. todo # <<>>
  BY DEF Execute, EmitReady, EmitConditionalJump, EmitCopyOfCurrent,
     EmitReturnOfCurrent, EmitUnaryOfCurrent, EmitBinaryOfCurrent, SetCurrent, Doing
<1>2. /\ TypeOK /\ todo \in Seq(Op) /\ h \in Op /\ Len(todo) \in Nat \ {0} /\ h = todo[1]
      /\ tmp_counter \in Nat /\ make_temporary_name \in Variable
      /\ Variable \subseteq Operand /\ Operand \subseteq TackyVal
  <2>1. TypeOK /\ todo \in Seq(Op)
    BY DEF IInv, TypeOK
  <2>2. h \in Op /\ Len(todo) \in Nat \ {0} /\ h = todo[1]
    BY <1>1, <2>1, HeadTailProperties, EmptySeq, LenProperties
  <2> QED
    BY <2>1, <2>2, MadeNames DEF TypeOK, TackyVal
<1>3. Consumes(h) => current_val \in Operand
  BY <1>1, CurrentIsSet
<1>4. HoldsSettled(h) /\ Settled(current_val)
  BY <1>2 DEF TInv
<1>5. make_temporary_name.id.num = tmp_counter
  BY DEF make_temporary_name, TackyVar, Tmp
<1>6. CASE EmitReady
  <2>1. h.do = "emit" /\ h.ins \in TackyInstruction
    BY <1>2, <1>6, OpFields DEF EmitReady, Doing
  <2>2. /\ Writes(h) = Destinations(h.ins) /\ h.ins.kind # "Binary"
        /\ \A v \in Sources(h.ins) : Settled(v)
    BY <1>4, <2>1 DEF Writes, HoldsSettled, Settled
  <2>3. /\ instructions' = Append(instructions, h.ins) /\ todo' = <<>> \o Tail(todo)
        /\ UNCHANGED <<current_val, tmp_counter>>
    BY <1>6 DEF EmitReady, PushInstruction, Run
  <2> QED
    BY <1>1, <2>1, <2>2, <2>3, TempPush
<1>7. CASE EmitConditionalJump
  <2>1. h.do \in {"jz", "jnz"} /\ h.target \in LabelId /\ current_val \in Operand
    BY <1>2, <1>3, <1>7, OpFields DEF EmitConditionalJump, Doing, Consumes
  <2> DEFINE i == IF h.do = "jz" THEN JumpIfZero(current_val, h.target)
                                 ELSE JumpIfNotZero(current_val, h.target)
  <2>2. /\ i \in TackyInstruction /\ Sources(i) = {current_val} /\ Destinations(i) = {}
        /\ Writes(h) = {} /\ i.kind # "Binary"
    BY <2>1 DEF TackyInstruction, JumpIfZero, JumpIfNotZero, Sources, Destinations, Writes
  <2>3. /\ instructions' = Append(instructions, i) /\ todo' = <<>> \o Tail(todo)
        /\ UNCHANGED <<current_val, tmp_counter>>
    BY <1>7 DEF EmitConditionalJump, PushInstruction, Run, Doing
  <2> HIDE DEF i
  <2> QED
    BY <1>1, <1>4, <2>2, <2>3, TempPush
<1>8. CASE EmitCopyOfCurrent
  <2> DEFINE i == TackyCopy(current_val, h.dst)
  <2>1. h.do = "copy" /\ h.dst \in Variable /\ current_val \in Operand
    BY <1>2, <1>3, <1>8, OpFields DEF EmitCopyOfCurrent, Doing, Consumes
  <2>2. /\ i \in TackyInstruction /\ Sources(i) = {current_val} /\ Destinations(i) = {h.dst}
        /\ Writes(h) = {h.dst} /\ i.kind # "Binary"
    BY <2>1 DEF TackyInstruction, TackyCopy, Sources, Destinations, Writes
  <2>3. /\ instructions' = Append(instructions, i) /\ todo' = <<>> \o Tail(todo)
        /\ UNCHANGED <<current_val, tmp_counter>>
    BY <1>8 DEF EmitCopyOfCurrent, PushInstruction, Run
  <2> HIDE DEF i
  <2> QED
    BY <1>1, <1>4, <2>2, <2>3, TempPush
<1>9. CASE EmitReturnOfCurrent
  <2> DEFINE i == TackyReturn(current_val)
  <2>1. h.do = "return" /\ current_val \in Operand
    BY <1>3, <1>9 DEF EmitReturnOfCurrent, Doing, Consumes
  <2>2. /\ i \in TackyInstruction /\ Sources(i) = {current_val} /\ Destinations(i) = {}
        /\ Writes(h) = {} /\ i.kind # "Binary"
    BY <2>1 DEF TackyInstruction, TackyReturn, Sources, Destinations, Writes
  <2>3. /\ instructions' = Append(instructions, i) /\ todo' = <<>> \o Tail(todo)
        /\ UNCHANGED <<current_val, tmp_counter>>
    BY <1>9 DEF EmitReturnOfCurrent, PushInstruction, Run
  <2> HIDE DEF i
  <2> QED
    BY <1>1, <1>4, <2>2, <2>3, TempPush
<1>10. CASE EmitUnaryOfCurrent
  <2> DEFINE i == TackyUnary(h.op, current_val, make_temporary_name)
  <2>1. h.do = "unary" /\ h.op \in TackyUnaryOp /\ current_val \in Operand
    BY <1>2, <1>3, <1>10, OpFields DEF EmitUnaryOfCurrent, Doing, Consumes
  <2>2. /\ i \in TackyInstruction /\ Sources(i) = {current_val} /\ i.kind # "Binary"
        /\ Destinations(i) = {make_temporary_name} /\ Writes(h) = {}
    BY <1>2, <2>1 DEF TackyInstruction, TackyUnary, Sources, Destinations, Writes
  <2>3. /\ instructions' = Append(instructions, i) /\ todo' = <<>> \o Tail(todo)
        /\ current_val' = make_temporary_name /\ tmp_counter' = tmp_counter + 1
    BY <1>10 DEF EmitUnaryOfCurrent, PushInstruction, Run
  <2> HIDE DEF i
  <2> QED
    BY <1>1, <1>4, <1>5, <2>2, <2>3, TempPush
<1>11. CASE EmitBinaryOfCurrent
  <2> DEFINE i == TackyBinary(h.op, h.src1, current_val, make_temporary_name)
  <2>1. /\ h.do = "binary" /\ h.op \in TackyBinaryOp /\ h.src1 \in Operand
        /\ current_val \in Operand
    BY <1>2, <1>3, <1>11, OpFields DEF EmitBinaryOfCurrent, Doing, Consumes
  <2>2. /\ i \in TackyInstruction /\ Sources(i) = {h.src1, current_val}
        /\ Destinations(i) = {make_temporary_name} /\ Writes(h) = {}
        /\ i.dst = make_temporary_name
    BY <1>2, <2>1 DEF TackyInstruction, TackyBinary, Sources, Destinations, Writes
  <2>3. Settled(h.src1) /\ Temporary(make_temporary_name)
    BY <1>2, <1>4, <2>1 DEF HoldsSettled, Temporary, make_temporary_name, TackyVar, Tmp, NoNumber
  <2>4. /\ instructions' = Append(instructions, i) /\ todo' = <<>> \o Tail(todo)
        /\ current_val' = make_temporary_name /\ tmp_counter' = tmp_counter + 1
    BY <1>11 DEF EmitBinaryOfCurrent, PushInstruction, Run
  <2> HIDE DEF i
  <2> QED
    BY <1>1, <1>4, <1>5, <2>2, <2>3, <2>4, TempPush
<1>12. CASE SetCurrent
  <2>1. h.do = "value" /\ h.val \in Operand /\ Writes(h) = {}
    BY <1>2, <1>12, OpFields DEF SetCurrent, Doing, Writes
  <2>2. Settled(h.val)
    <3> SUFFICES ASSUME Temporary(h.val) PROVE Written(h.val) /\ ~Pending(h.val)
      BY DEF Settled
    <3>1. /\ Written(h.val) \/ \E q \in 1..1-1 : h.val \in Writes(todo[q])
          /\ \A q \in 1+1..Len(todo) : h.val \notin Writes(todo[q])
      BY <1>2, <2>1 DEF TInv, ResultsInOrder
    <3>2. \A q \in 1..Len(todo) : q = 1 \/ q \in 1+1..Len(todo)
      BY <1>2
    <3> QED
      BY <1>2, <2>1, <3>1, <3>2 DEF Pending
  <2>3. /\ current_val' = h.val /\ todo' = <<>> \o Tail(todo)
        /\ UNCHANGED <<instructions, tmp_counter>>
    BY <1>12 DEF SetCurrent, Run
  <2>4. <<>> \in Seq(Op) /\ Len(<<>>) = 0
    BY EmptySeq
  <2>5. \A p \in 1..Len(<<>>) : Quiet(<<>>[p])
    BY <2>4
  <2>6. current_val' \in TackyVal /\ Settled(current_val')
    BY <1>2, <2>1, <2>2, <2>3
  <2> QED
    BY <1>1, <2>1, <2>3, <2>4, <2>5, <2>6, QuietVisit
<1> QED
  BY <1>6, <1>7, <1>8, <1>9, <1>10, <1>11, <1>12 DEF Execute

LEMMA TempInit == Init => TInv
<1> SUFFICES ASSUME Init PROVE TInv
  OBVIOUS
<1>1. Len(instructions) = 0 /\ Len(todo) = 1 /\ todo[1] = Accept(ast)
  BY EmptySeq DEF Init
<1>2. \A p \in 1..Len(todo) : Quiet(todo[p]) /\ todo[p].do # "value"
  BY <1>1, QuietStatements DEF Accept
<1>3. Settled(current_val)
  BY DEF Init, Settled, Temporary, NoVal
<1> QED
  BY <1>1, <1>2, <1>3
  DEF TInv, TempsSettledWhenRead, TempsNumbered, Numbered, ReadsSettled, ResultsInOrder,
  ResultsNew, Quiet

LEMMA TempNext == IInv /\ TInv /\ [Next]_vars => TInv'
<1> SUFFICES ASSUME IInv, TInv, [Next]_vars PROVE TInv'
  OBVIOUS
<1>1. CASE VisitExpr
  BY <1>1, QuietExprSteps, TempAndStep, TempOrStep, TempConditionalStep DEF VisitExpr
<1>2. CASE VisitStmt
  BY <1>2, QuietStmtSteps
<1>3. CASE Execute
  BY <1>3, TempExecuteSteps
<1>4. CASE UNCHANGED vars
  BY <1>4 DEF vars, TInv, TempsSettledWhenRead, TempsNumbered, Numbered, ReadsSettled,
     ResultsInOrder, ResultsNew, HoldsSettled, Settled, Written, Pending
<1> QED
  BY <1>1, <1>2, <1>3, <1>4 DEF Next

(* For programs of any size: a temporary is read only after an instruction *)
(* has written it, and never written again once it has been read.  The     *)
(* operands that the visit methods of tacky.cpp carry by name across the   *)
(* code of their other children are never overwritten there.               *)
THEOREM TempsHold == Spec => []TempsSettledWhenRead
<1>1. TInv => TempsSettledWhenRead
  BY DEF TInv
<1>2. Spec => []TInv
  BY TempInit, TempNext, Inductive, PTL DEF Spec
<1> QED
  BY <1>1, <1>2, PTL

(* The result of an arithmetic or relational operator is not its second    *)
(* operand: what CodeGen relies on when it writes the result before it     *)
(* reads that operand.                                                     *)
ResultsApart ==
  \A i \in 1..Len(instructions) :
    instructions[i].kind = "Binary" => instructions[i].dst # instructions[i].src2

LEMMA TempsApart == TInv => ResultsApart
<1> SUFFICES ASSUME TInv, NEW i \in 1..Len(instructions), instructions[i].kind = "Binary",
                    instructions[i].dst = instructions[i].src2
             PROVE  FALSE
  BY DEF ResultsApart
<1>1. Temporary(instructions[i].src2)
  BY DEF TInv, ResultsNew
<1>2. /\ instructions[i].src2 \in Sources(instructions[i])
      /\ instructions[i].dst \in Destinations(instructions[i])
  BY DEF Sources, Destinations
<1>3. \A j \in i..Len(instructions) : instructions[i].src2 \notin Destinations(instructions[j])
  BY <1>1, <1>2 DEF TInv, TempsSettledWhenRead
<1>4. i \in i..Len(instructions)
  OBVIOUS
<1> QED
  BY <1>2, <1>3, <1>4

(* No operator of the generated code writes its own second operand, for    *)
(* programs of any size.                                                   *)
THEOREM ResultsHold == Spec => []ResultsApart
<1>1. Spec => []TInv
  BY TempInit, TempNext, Inductive, PTL DEF Spec
<1> QED
  BY <1>1, TempsApart, PTL

-----------------------------------------------------------------------------
(***************************************************************************)
(* What CodeGen is handed.  visit(Function) pushes its return last, so the *)
(* agenda ends with that return from then on.                              *)
(***************************************************************************)

FinalReturn == Emit(TackyReturn(TackyConstant(0)))

EndsWithReturn ==
  IF todo = <<>>
  THEN instructions # <<>> /\ instructions[Len(instructions)] = TackyReturn(TackyConstant(0))
  ELSE todo = <<Accept(ast)>> \/ todo[Len(todo)] = FinalReturn

LEMMA EndKept ==
  ASSUME IInv, NEW S, NEW body \in Seq(S), Run(body),
         \/ Len(todo) >= 2 /\ todo[Len(todo)] = FinalReturn
         \/ todo # <<>> /\ body # <<>> /\ body[Len(body)] = FinalReturn /\ Len(todo) = 1
  PROVE  todo' # <<>> /\ todo'[Len(todo')] = FinalReturn
<1>1. todo \in Seq(Op) /\ todo # <<>> /\ Len(todo) \in Nat \ {0}
  <2>1. todo \in Seq(Op) /\ Len(todo) \in Nat
    BY LenProperties DEF IInv, TypeOK
  <2> QED
    BY <2>1, EmptySeq
<1>2. /\ Tail(todo) \in Seq(Op) /\ Len(Tail(todo)) = Len(todo) - 1
      /\ \A i \in 1..(Len(todo) - 1) : Tail(todo)[i] = todo[i + 1]
  BY <1>1, HeadTailProperties
<1>3. Len(body) \in Nat /\ (body # <<>> => Len(body) # 0)
  BY LenProperties, EmptySeq
<1>4. /\ Len(todo') = Len(body) + Len(todo) - 1 /\ todo' \in Seq(S \cup Op)
      /\ \A i \in 1..(Len(body) + Len(todo) - 1) :
           todo'[i] = IF i <= Len(body) THEN body[i] ELSE Tail(todo)[i - Len(body)]
  <2>1. body \in Seq(S \cup Op) /\ Tail(todo) \in Seq(S \cup Op)
    BY <1>2, SeqMonotonic
  <2> QED
    BY <1>1, <1>2, <1>3, <2>1, ConcatProperties DEF Run
<1>5. CASE Len(todo) >= 2 /\ todo[Len(todo)] = FinalReturn
  <2>1. /\ Len(todo') \in 1..(Len(body) + Len(todo) - 1) /\ ~(Len(todo') <= Len(body))
        /\ Len(todo') - Len(body) = Len(todo) - 1 /\ Len(todo) - 1 \in 1..(Len(todo) - 1)
    BY <1>1, <1>3, <1>4, <1>5
  <2> QED
    BY <1>2, <1>4, <1>5, <2>1, EmptySeq
<1>6. CASE body # <<>> /\ body[Len(body)] = FinalReturn /\ Len(todo) = 1
  <2>1. Len(todo') = Len(body) /\ Len(todo') \in 1..(Len(body) + Len(todo) - 1)
    BY <1>3, <1>4, <1>6
  <2> QED
    BY <1>4, <1>6, <2>1, EmptySeq
<1> QED
  BY <1>5, <1>6

LEMMA AnyTuple ==
  ASSUME NEW e1, NEW e2, NEW e3, NEW e4, NEW e5, NEW e6, NEW e7, NEW e8, NEW e9, NEW e10
  PROVE  /\ <<>> \in Seq({e1})
         /\ <<e1>> \in Seq({e1})
         /\ <<e1, e2>> \in Seq({e1, e2})
         /\ <<e1, e2, e3>> \in Seq({e1, e2, e3})
         /\ <<e1, e2, e3, e4, e5, e6>> \in Seq({e1, e2, e3, e4, e5, e6})
         /\ <<e1, e2, e3, e4, e5, e6, e7, e8, e9>>
               \in Seq({e1, e2, e3, e4, e5, e6, e7, e8, e9})
         /\ <<e1, e2, e3, e4, e5, e6, e7, e8, e9, e10>>
               \in Seq({e1, e2, e3, e4, e5, e6, e7, e8, e9, e10})
OBVIOUS

(* Every step but the visit of the function replaces the head of the       *)
(* agenda by a tuple, and keeps the rest.                                  *)
LEMMA StepsRun ==
  ASSUME IInv, Next
  PROVE  todo # <<>> /\ \E S : \E body \in Seq(S) : Run(body)
<1>1. ASSUME NEW e1, NEW e2, NEW e3,
             Run(<<>>) \/ Run(<<e1>>) \/ Run(<<e1, e2>>) \/ Run(<<e1, e2, e3>>)
      PROVE  \E S : \E body \in Seq(S) : Run(body)
  <2> HIDE DEF Run
  <2>1. /\ <<>> \in Seq({e1}) /\ <<e1>> \in Seq({e1})
        /\ <<e1, e2>> \in Seq({e1, e2}) /\ <<e1, e2, e3>> \in Seq({e1, e2, e3})
    BY AnyTuple
  <2> QED
    BY <1>1, <2>1
<1>2. ASSUME NEW e1, NEW e2, NEW e3, NEW e4, NEW e5, NEW e6,
             Run(<<e1, e2, e3, e4, e5, e6>>)
      PROVE  \E S : \E body \in Seq(S) : Run(body)
  BY <1>2, AnyTuple
<1>3. ASSUME NEW e1, NEW e2, NEW e3, NEW e4, NEW e5, NEW e6, NEW e7, NEW e8, NEW e9,
             Run(<<e1, e2, e3, e4, e5, e6, e7, e8, e9>>)
      PROVE  \E S : \E body \in Seq(S) : Run(body)
  BY <1>3, AnyTuple
<1>4. ASSUME NEW e1, NEW e2, NEW e3, NEW e4, NEW e5, NEW e6, NEW e7, NEW e8, NEW e9, NEW e10,
             Run(<<e1, e2, e3, e4, e5, e6, e7, e8, e9, e10>>)
      PROVE  \E S : \E body \in Seq(S) : Run(body)
  BY <1>4, AnyTuple
<1>5. CASE VisitConstant \/ VisitVar \/ VisitNullStmt \/ Execute
  BY <1>1, <1>5
  DEF VisitConstant, VisitVar, VisitNullStmt, Execute, EmitReady, EmitConditionalJump,
      EmitCopyOfCurrent, EmitReturnOfCurrent, EmitUnaryOfCurrent, EmitBinaryOfCurrent,
      SetCurrent, PushInstruction, Visiting, Doing
<1>6. CASE VisitUnaryOperator \/ VisitBinaryOperator \/ VisitRightOperand \/ VisitAssignment
           \/ VisitConditional
  BY <1>1, <1>6
  DEF VisitUnaryOperator, VisitBinaryOperator, VisitRightOperand, VisitAssignment,
      VisitConditional, Visiting, Doing
<1>7. CASE VisitReturnStmt \/ VisitIfStatement \/ BranchIf \/ VisitExpressionStmt
           \/ VisitDeclarationVariable \/ VisitCompoundStmt
  BY <1>1, <1>7
  DEF VisitReturnStmt, VisitIfStatement, BranchIf, VisitExpressionStmt,
      VisitDeclarationVariable, VisitCompoundStmt, Visiting, Doing
<1>8. CASE VisitAnd
  BY <1>4, <1>8 DEF VisitAnd, Visiting, Doing
<1>9. CASE VisitOr
  BY <1>4, <1>9 DEF VisitOr, Visiting, Doing
<1>10. CASE BranchConditional
  BY <1>3, <1>10 DEF BranchConditional, Doing
<1>11. CASE BranchIfElse
  BY <1>2, <1>11 DEF BranchIfElse, Doing
<1>12. CASE VisitBlock
  <2>1. todo # <<>> /\ Head(todo).node.items \in Seq(Item)
    BY <1>12, NodeAtHead, Children DEF VisitBlock, Visiting
  <2>2. AcceptAll(Head(todo).node.items) \in Seq(Op)
    BY <2>1, AcceptAllIsPlain
  <2> QED
    BY <1>12, <2>1, <2>2 DEF VisitBlock
<1>13. CASE VisitFunction
  <2>1. /\ todo # <<>> /\ Head(todo).node \in Node /\ Head(todo).node.k = "Function"
    BY <1>13, NodeAtHead DEF VisitFunction, Visiting
  <2>2. AcceptAll(Head(todo).node.block.items) \in Seq(Op)
    BY <2>1, Children, AcceptAllIsPlain DEF Body
  <2>3. FinalReturn \in Op
    BY DEF FinalReturn, Op, TackyInstruction, Operand, Emit, TackyReturn, TackyConstant
  <2>4. AcceptAll(Head(todo).node.block.items) \o <<FinalReturn>> \in Seq(Op)
    BY <2>2, <2>3
  <2> QED
    BY <1>13, <2>1, <2>4 DEF VisitFunction, FinalReturn
<1> QED
  BY <1>5, <1>6, <1>7, <1>8, <1>9, <1>10, <1>11, <1>12, <1>13 DEF Next, VisitExpr, VisitStmt

LEMMA FinalFields ==
  /\ FinalReturn.do = "emit" /\ FinalReturn.ins = TackyReturn(TackyConstant(0))
  /\ \A n : Accept(n).do = "accept" /\ Accept(n).node = n
BY DEF FinalReturn, Emit, Accept

LEMMA EndNext == IInv /\ EndsWithReturn /\ [Next]_vars => EndsWithReturn'
<1> SUFFICES ASSUME IInv, EndsWithReturn, [Next]_vars PROVE EndsWithReturn'
  OBVIOUS
<1>1. CASE UNCHANGED vars
  BY <1>1 DEF vars, EndsWithReturn
<1>2. CASE Next
  <2>1. todo # <<>> /\ \E S : \E body \in Seq(S) : Run(body)
    BY <1>2, StepsRun
  <2>2. todo \in Seq(Op) /\ Len(todo) \in Nat \ {0} /\ Head(todo) = todo[1]
        /\ instructions \in Seq(TackyInstruction)
    <3>1. todo \in Seq(Op) /\ Len(todo) \in Nat /\ instructions \in Seq(TackyInstruction)
      BY LenProperties DEF IInv, TypeOK
    <3> QED
      BY <2>1, <3>1, EmptySeq
  <2>3. CASE todo = <<Accept(ast)>>
    <3>1. Len(todo) = 1 /\ Head(todo) = Accept(ast) /\ ast.k = "Function"
      BY <2>3 DEF IInv, TypeOK, Program
    <3>2. Head(todo).do = "accept" /\ Head(todo).node.k = "Function"
      BY <3>1, FinalFields
    <3>3. VisitFunction
      BY <1>2, <3>2
      DEF Next, VisitExpr, VisitStmt, Execute, VisitConstant, VisitVar, VisitUnaryOperator,
          VisitAnd, VisitOr, VisitBinaryOperator, VisitRightOperand, VisitAssignment,
          VisitConditional, BranchConditional, VisitReturnStmt, VisitIfStatement,
          BranchIfElse, BranchIf, VisitExpressionStmt, VisitNullStmt,
          VisitDeclarationVariable, VisitCompoundStmt, VisitBlock, EmitReady,
          EmitConditionalJump, EmitCopyOfCurrent, EmitReturnOfCurrent, EmitUnaryOfCurrent,
          EmitBinaryOfCurrent, SetCurrent, Visiting, Doing
    <3> DEFINE list == AcceptAll(Head(todo).node.block.items)
               body == list \o <<FinalReturn>>
    <3>4. Run(body)
      BY <3>3 DEF VisitFunction, FinalReturn
    <3>5. list \in Seq(Op)
      BY <3>3, NodeAtHead, Children, AcceptAllIsPlain DEF VisitFunction, Visiting, Body
    <3>6. FinalReturn \in Op
      BY DEF FinalReturn, Op, TackyInstruction, Operand, Emit, TackyReturn, TackyConstant
    <3> HIDE DEF list
    <3>7. /\ body \in Seq(Op) /\ Len(body) = Len(list) + 1 /\ Len(list) \in Nat
          /\ body[Len(list) + 1] = FinalReturn
      BY <3>5, <3>6, LenProperties
    <3> HIDE DEF body
    <3>8. body # <<>> /\ body[Len(body)] = FinalReturn
      BY <3>7, EmptySeq
    <3>9. todo' # <<>> /\ todo'[Len(todo')] = FinalReturn
      BY <2>1, <3>1, <3>4, <3>7, <3>8, EndKept
    <3> QED
      BY <3>9 DEF EndsWithReturn
  <2>4. CASE Len(todo) >= 2 /\ todo[Len(todo)] = FinalReturn
    <3>1. todo' # <<>> /\ todo'[Len(todo')] = FinalReturn
      BY <2>1, <2>4, EndKept
    <3> QED
      BY <3>1 DEF EndsWithReturn
  <2>5. CASE Len(todo) = 1 /\ todo[Len(todo)] = FinalReturn
    <3>1. Head(todo).do = "emit" /\ Head(todo).ins = TackyReturn(TackyConstant(0))
      BY <2>2, <2>5, FinalFields
    <3>2. EmitReady
      BY <1>2, <3>1
      DEF Next, VisitExpr, VisitStmt, Execute, VisitConstant, VisitVar, VisitUnaryOperator,
          VisitAnd, VisitOr, VisitBinaryOperator, VisitRightOperand, VisitAssignment,
          VisitConditional, BranchConditional, VisitReturnStmt, VisitIfStatement,
          BranchIfElse, BranchIf, VisitExpressionStmt, VisitNullStmt,
          VisitDeclarationVariable, VisitCompoundStmt, VisitBlock, VisitFunction,
          EmitConditionalJump, EmitCopyOfCurrent, EmitReturnOfCurrent, EmitUnaryOfCurrent,
          EmitBinaryOfCurrent, SetCurrent, Visiting, Doing
    <3>3. /\ instructions' = Append(instructions, TackyReturn(TackyConstant(0)))
          /\ todo' = <<>> \o Tail(todo)
      BY <3>1, <3>2 DEF EmitReady, PushInstruction, Run
    <3>4. Tail(todo) \in Seq(Op) /\ Len(Tail(todo)) = 0
      BY <2>1, <2>2, <2>5, HeadTailProperties
    <3>5. todo' = <<>>
      BY <3>3, <3>4, EmptySeq
    <3>6. TackyReturn(TackyConstant(0)) \in TackyInstruction
      BY DEF TackyInstruction, Operand, TackyReturn, TackyConstant
    <3>7. /\ instructions' # <<>>
          /\ instructions'[Len(instructions')] = TackyReturn(TackyConstant(0))
      BY <2>2, <3>3, <3>6, AppendProperties
    <3> QED
      BY <3>5, <3>7 DEF EndsWithReturn
  <2>6. todo = <<Accept(ast)>> \/ todo[Len(todo)] = FinalReturn
    BY <2>1 DEF EndsWithReturn
  <2>7. Len(todo) >= 2 \/ Len(todo) = 1
    <3>1. \A n \in Nat \ {0} : n >= 2 \/ n = 1
      OBVIOUS
    <3> QED
      BY <2>2, <3>1
  <2> QED
    BY <2>3, <2>4, <2>5, <2>6, <2>7
<1> QED
  BY <1>1, <1>2

LEMMA EndInit == Init => EndsWithReturn
BY DEF Init, EndsWithReturn

(* When it returns, the generator has made code that CodeGen can be given. *)
GeneratesWellFormed == Finished => WellFormed(instructions)

LEMMA WellFormedFollows == IInv /\ TInv /\ EndsWithReturn => GeneratesWellFormed
<1> SUFFICES ASSUME IInv, TInv, EndsWithReturn, Finished PROVE WellFormed(instructions)
  BY DEF GeneratesWellFormed
<1>1. instructions \in Seq(TackyInstruction) /\ DOMAIN instructions = 1..Len(instructions)
  BY LenProperties DEF IInv, TypeOK
<1>2. instructions # <<>> /\ instructions[Len(instructions)].kind = "Return"
  BY DEF Finished, EndsWithReturn, TackyReturn
<1>3. ASSUME NEW i \in DOMAIN instructions, Jumps(instructions[i])
      PROVE  \E j \in DOMAIN instructions : instructions[j] = Label(instructions[i].target)
  BY <1>1, <1>3, JumpsFollow DEF JumpsForward, Finished
<1>4. ASSUME NEW i \in DOMAIN instructions, instructions[i].kind = "Label",
             NEW j \in DOMAIN instructions, instructions[j] = instructions[i]
      PROVE  j = i
  BY <1>1, <1>4 DEF IInv, LabelsDefinedOnce
<1>5. ASSUME NEW i \in DOMAIN instructions, instructions[i].kind = "Binary"
      PROVE  instructions[i].dst # instructions[i].src2
  BY <1>1, <1>5, TempsApart DEF ResultsApart
<1> QED
  BY <1>2, <1>3, <1>4, <1>5 DEF WellFormed

(* Whatever the program, the code that the generator returns ends with a   *)
(* return, every jump in it has one label to go to, and no operator writes *)
(* its own second operand.                                                 *)
THEOREM WellFormedHolds == Spec => []GeneratesWellFormed
<1>1. Spec => []TInv
  BY TempInit, TempNext, Inductive, PTL DEF Spec
<1>2. Spec => []EndsWithReturn
  BY EndInit, EndNext, Inductive, PTL DEF Spec
<1> QED
  BY <1>1, <1>2, WellFormedFollows, Inductive, PTL
=============================================================================
