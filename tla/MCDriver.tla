------------------------------ MODULE MCDriver ------------------------------
(***************************************************************************)
(* Two runs on the same input, one after the other or overlapping in every *)
(* way: one with an option, with none, or with two that stop at different  *)
(* places; the other without.  --validate and --tacky are left out: they   *)
(* stop between --parse and --codegen, where nothing happens to the files. *)
(* A run alone is among the behaviours, up to the start of the other.      *)
(***************************************************************************)
EXTENDS Driver

CONSTANTS d1, d2

TwoRuns == {d1, d2}

MCOptionSets ==
  [d \in TwoRuns |->
     IF d = d1
     THEN {{}, {"assemble_only", "codegen"}} \cup {{o} : o \in Option \ {"validate", "tacky"}}
     ELSE {{}}]
=============================================================================
