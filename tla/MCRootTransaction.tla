------------------------- MODULE MCRootTransaction -------------------------
(***************************************************************************)
(* Instances of RootTransaction for TLC.  Two instance configurations that *)
(* the Host only accepts in step with one another while none is disabled,  *)
(* the marker that disables one of them, and the canonical and the legacy  *)
(* dependency selection files, of which at most one may exist.             *)
(***************************************************************************)
EXTENDS RootTransaction, TLC

ASSUME SampleAssumption == RootAssumptions

\* The bytes of the files before and after a change.
MCContents == {"v1", "v2"}
MCFiles == {"a.toml", "b.toml", "b.disabled", ".dependencies.json", "dependencies.json"}
MCMarkers == {"b.disabled"}

\* The roots host.resolve accepts in the model.
MCResolvable ==
  {r \in [MCFiles -> MCContents \union {Absent}] :
     /\ r["b.disabled"] = Absent => r["b.toml"] \in {r["a.toml"], Absent}
     /\ r["b.toml"] = Absent => r["b.disabled"] = Absent
     /\ Absent \in {r[".dependencies.json"], r["dependencies.json"]}}

\* A legacy root that has never adopted its dependency selections; one of its
\* instances is disabled.
MCInitRoot ==
  ("a.toml" :> "v1") @@ ("b.toml" :> "v1") @@ ("b.disabled" :> "v1")
  @@ (".dependencies.json" :> Absent) @@ ("dependencies.json" :> "v1")

Reconfigure == ("a.toml" :> "v2") @@ ("b.toml" :> "v2")
Adopt == (".dependencies.json" :> "v2") @@ ("dependencies.json" :> Absent)
ReconfigureAndAdopt ==
  ("a.toml" :> "v1") @@ ("b.toml" :> "v1") @@ Adopt

MCTransactions == {Reconfigure, Adopt, ReconfigureAndAdopt}
OneTransaction == {ReconfigureAndAdopt}
TwoTransactions == {Reconfigure, ReconfigureAndAdopt}
\* set_dependency_selections on an adopted root, one atomic_write, and
\* remove_instance_difference, two removals.
MCDirect ==
  {".dependencies.json" :> "v1", ("b.toml" :> Absent) @@ ("b.disabled" :> Absent)}
NoChanges == {}

\* A root of dependency selections only, which one command adopts.
SmallFiles == {".dependencies.json", "dependencies.json"}
SmallRoot == [f \in SmallFiles |-> MCInitRoot[f]]
SmallTransactions == {Adopt}
SmallResolvable ==
  {r \in [SmallFiles -> MCContents \union {Absent}] :
     Absent \in {r[".dependencies.json"], r["dependencies.json"]}}

\* The names of transactions are random and interchangeable (staging directories);
\* only safety is checked under this symmetry.
AnyNames == Permutations(Txns)
=============================================================================
