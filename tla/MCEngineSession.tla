-------------------------- MODULE MCEngineSession --------------------------
(***************************************************************************)
(* Instances of EngineSession for TLC: a reader of one file, an index of   *)
(* what it read, whose identity sorts before the reader's, and a linker    *)
(* that does not declare the tools it uses.                                *)
(***************************************************************************)
EXTENDS EngineSession, TLC

Read == [id |-> 2, plugin |-> "reader", inputs |-> {"a"}, after |-> {}]
Index == [id |-> 1, plugin |-> "index", inputs |-> {}, after |-> {2}]
Link == [id |-> 3, plugin |-> "linker", inputs |-> {"b"}, after |-> {1}]
\* A linker whose output the reader would need.
Backwards == [id |-> 2, plugin |-> "reader", inputs |-> {"a"}, after |-> {3}]

LinkAlone == [Link EXCEPT !.after = {}]

\* The first set of processors has all three; the second links a file it does not look for.
MCSteps(e, f) ==
  CASE e = "flat" ->
         (IF "a" \in DOMAIN f THEN {Read} ELSE {}) \union {LinkAlone}
    [] e = "all" /\ "a" \notin DOMAIN f -> {}
    [] e = "all" /\ "b" \notin DOMAIN f -> {Read, Index}
    [] e = "all" /\ "b" \in DOMAIN f /\ f["b"] = "loop" -> {Backwards, Index, Link}
    [] OTHER -> {Read, Index, Link}

MCPaths == {"a", "b"}
MCBytes == {"x", "y", "big", "vast", "bad", "loop"}
MCContents == ("a" :> {"x", "y", "vast", "bad"}) @@ ("b" :> {"x", "big", "loop"})
MCPlans ==
  [e \in {"all", "flat"} |->
     [f \in UNION {[S -> MCBytes] : S \in SUBSET MCPaths} |-> MCSteps(e, f)]]
MCWeight == [b \in MCBytes |-> CASE b = "vast" -> 3 [] b = "big" -> 2 [] OTHER -> 1]
\* The first snapshot has no plan.
MCSource == ("a" :> "x") @@ ("b" :> "loop")
=============================================================================
