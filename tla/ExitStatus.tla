----------------------------- MODULE ExitStatus -----------------------------
(***************************************************************************)
(* The whole compiler against the meaning of C: what the program that it   *)
(* makes leaves in %eax when it exits.                                     *)
(***************************************************************************)
EXTENDS Compiler, CSemantics

(* The exit status of the program is what C says, whenever C says one.     *)
ResultIsRight ==
  /\ status = "exited" => Meaning(ast).undef \/ reg["AX"] = Meaning(ast).val
  /\ status = "fault" => Meaning(ast).undef

(* The same for programs in which no declaration hides another one.        *)
ResultIsRightWithoutHiding == ~Hides(ast) => ResultIsRight
=============================================================================
