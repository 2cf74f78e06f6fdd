------------------------- MODULE MCCompilerProcess -------------------------
(***************************************************************************)
(* Instances of CompilerProcess for TLC: calls that run at the same time   *)
(* and one after another, each observed through a slot of its own.         *)
(***************************************************************************)
EXTENDS CompilerProcess

OwnSlots == [c \in Calls |-> c]
=============================================================================
