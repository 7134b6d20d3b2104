-------------------------------- MODULE X86 --------------------------------
(***************************************************************************)
(* The part of an x86-64 processor that the printed instructions use: four *)
(* general registers, the stack with its two pointers, and the flags, one  *)
(* machine instruction per step.  This is the environment of the compiled  *)
(* code and no part of the repository.                                     *)
(***************************************************************************)
EXTENDS Asm, Words

VARIABLES
  code,    (* the machine instructions of the function                       *)
  ip,      (* the next one                                                   *)
  reg,     (* the 32-bit halves of the registers, and %rsp and %rbp          *)
  mem,     (* the cells of the stack, by address; the function is called     *)
           (* with the return address at CallSite                            *)
  flags,   (* what a condition can tell of the last cmp, or Clobbered        *)
  status   (* "off", "on", "exited", "fault", or "lost" after a ret to an    *)
           (* address that is not the caller's                               *)

cpu_vars == <<code, ip, reg, mem, flags, status>>

Clobbered == [equal |-> FALSE, less |-> FALSE, valid |-> FALSE]
Compared(x, y) == [equal |-> x = y, less |-> x < y, valid |-> TRUE]

(* Addresses count from the cell into which the function saves %rbp.  The  *)
(* two values below are told apart from every word.                        *)
CallSite       == 8
ReturnAddress  == 1000
CallersFrame   == 2000

PowerOff ==
  /\ ip = 1
  /\ reg = [r \in RegASM \cup {"SP", "BP"} |-> 0]
  /\ mem = <<>>
  /\ flags = Clobbered
  /\ status = "off"

(* The loader calls the function: registers and slots hold what was there. *)
Enter(registers, slots) ==
  /\ status = "off"
  /\ status' = "on"
  /\ \E r \in registers :
       reg' = [x \in RegASM \cup {"SP", "BP"} |->
                 CASE x = "SP" -> CallSite [] x = "BP" -> CallersFrame [] OTHER -> r[x]]
  /\ \E s \in slots :
       mem' = [a \in DOMAIN s \cup {CallSite, CallSite - 8} |->
                 CASE a = CallSite -> ReturnAddress [] a = CallSite - 8 -> 0 [] OTHER -> s[a]]
  /\ UNCHANGED <<code, ip, flags>>

-----------------------------------------------------------------------------
Fetch(mnemonics) == status = "on" /\ ip \in DOMAIN code /\ code[ip].m \in mnemonics
Src == code[ip].src
Dst == code[ip].dst

Address(o) == reg["BP"] + o.offset

Read(o) ==
  CASE o.type = "IMM"   -> Wrap(o.val)
    [] o.type = "REG"   -> reg[o.reg]
    [] o.type = "STACK" -> mem[Address(o)]

Write(o, x) ==
  \/ o.type = "REG" /\ reg' = [reg EXCEPT ![o.reg] = x] /\ UNCHANGED mem
  \/ o.type = "STACK" /\ mem' = [mem EXCEPT ![Address(o)] = x] /\ UNCHANGED reg

Advance == ip' = ip + 1 /\ UNCHANGED <<code, status>>

Move ==
  /\ Fetch({"movl", "movq"})
  /\ Write(Dst, Read(Src))
  /\ Advance /\ UNCHANGED flags

Arithmetic ==
  /\ Fetch({"addl", "subl", "imull"})
  /\ LET x == Read(Dst)
         y == Read(Src)
     IN  Write(Dst, Wrap(CASE code[ip].m = "addl" -> x + y
                           [] code[ip].m = "subl" -> x - y
                           [] code[ip].m = "imull" -> x * y))
  /\ Advance /\ flags' = Clobbered

(* neg changes the flags, not does not. *)
Complement ==
  /\ Fetch({"notl"})
  /\ Write(Dst, -Read(Dst) - 1)
  /\ Advance /\ UNCHANGED flags

Negate ==
  /\ Fetch({"negl"})
  /\ Write(Dst, Wrap(-Read(Dst)))
  /\ Advance /\ flags' = Clobbered

(* cmpl s, d compares d with s. *)
Compare ==
  /\ Fetch({"cmpl"})
  /\ flags' = Compared(Read(Dst), Read(Src))
  /\ Advance /\ UNCHANGED <<reg, mem>>

Holds(cc) ==
  CASE cc = "E"  -> flags.equal
    [] cc = "NE" -> ~flags.equal
    [] cc = "L"  -> flags.less
    [] cc = "LE" -> flags.less \/ flags.equal
    [] cc = "G"  -> ~flags.less /\ ~flags.equal
    [] cc = "GE" -> ~flags.less

(* setcc writes the low byte and keeps the others. *)
SetByte ==
  /\ Fetch({"set"})
  /\ Write(Dst, (Read(Dst) \div ByteSize) * ByteSize
                + Bool(Holds(code[ip].cc)))
  /\ Advance /\ UNCHANGED flags

(* cdq spreads the sign of %eax over %edx. *)
SignExtend ==
  /\ Fetch({"cdq"})
  /\ reg' = [reg EXCEPT !["DX"] = IF reg["AX"] < 0 THEN -1 ELSE 0]
  /\ Advance /\ UNCHANGED <<mem, flags>>

(* idiv divides %edx:%eax, and faults when the quotient has no word. *)
Divide ==
  /\ Fetch({"idivl"})
  /\ LET dividend == reg["DX"] * Modulus + (reg["AX"] % Modulus)
         divisor  == Read(Src)
     IN  IF divisor = 0 \/ Quotient(dividend, divisor) \notin Word
         THEN /\ status' = "fault"
              /\ UNCHANGED <<code, ip, reg, mem, flags>>
         ELSE /\ reg' = [reg EXCEPT !["AX"] = Quotient(dividend, divisor),
                                    !["DX"] = Remainder(dividend, divisor)]
              /\ Advance /\ flags' = Clobbered /\ UNCHANGED mem

LineOf(l) == CHOOSE i \in DOMAIN code : code[i].m = "label" /\ code[i].label = l

JumpTo(l) == ip' = LineOf(l) /\ UNCHANGED <<code, reg, mem, flags, status>>

JumpAlways == Fetch({"jmp"}) /\ JumpTo(code[ip].label)

JumpOnCondition ==
  /\ Fetch({"j"})
  /\ IF Holds(code[ip].cc)
     THEN JumpTo(code[ip].label)
     ELSE Advance /\ UNCHANGED <<reg, mem, flags>>

PassLabel ==
  /\ Fetch({"label"})
  /\ Advance /\ UNCHANGED <<reg, mem, flags>>

(* The quadword at the top of the stack is one cell. *)
Push ==
  /\ Fetch({"pushq"})
  /\ reg' = [reg EXCEPT !["SP"] = @ - 8]
  /\ mem' = [mem EXCEPT ![reg["SP"] - 8] = Read(Src)]
  /\ Advance /\ UNCHANGED flags

Pop ==
  /\ Fetch({"popq"})
  /\ reg' = [reg EXCEPT !["SP"] = @ + 8, ![Dst.reg] = mem[reg["SP"]]]
  /\ Advance /\ UNCHANGED <<mem, flags>>

Return ==
  /\ Fetch({"ret"})
  /\ reg' = [reg EXCEPT !["SP"] = @ + 8]
  /\ status' = IF mem[reg["SP"]] = ReturnAddress THEN "exited" ELSE "lost"
  /\ UNCHANGED <<code, ip, mem, flags>>

Execute ==
  \/ Move \/ Arithmetic \/ Complement \/ Negate \/ Compare \/ SetByte
  \/ SignExtend \/ Divide \/ JumpAlways \/ JumpOnCondition \/ PassLabel
  \/ Push \/ Pop \/ Return
=============================================================================
