----------------------------- MODULE MCDevLoop -----------------------------
(***************************************************************************)
(* Instances of DevLoop for TLC: an App that begins to use a native        *)
(* library, which may begin to use another one, and whose lenso.toml breaks.*)
(***************************************************************************)
EXTENDS DevLoop

SubDeclared == [v \in 0 .. MaxEdits[Intent] |-> {"sub"}]
UsesLater ==
  [r \in Sources |-> [v \in 0 .. MaxEdits[r] |->
     CASE r = App /\ v = 1 -> {"lib"}
       [] r = "lib" /\ v = 1 -> {"sub"}
       [] OTHER -> {}]]
FewEdits == [r \in Roots |-> IF r = "sub" THEN 0 ELSE 1]

\* A library that the App uses from its first edit on.
FromTheFirstEdit ==
  [r \in Sources |-> [v \in 0 .. MaxEdits[r] |-> IF r = App /\ v = 1 THEN {"lib"} ELSE {}]]
NothingDeclared == [v \in 0 .. MaxEdits[Intent] |-> {}]
OneEdit == [r \in Roots |-> IF r = Intent THEN 0 ELSE 1]
=============================================================================
