---------------------------- MODULE MCArtifacts ----------------------------
(***************************************************************************)
(* Artifacts for TLC: the samples of MCPublication, and samples of         *)
(* sources, of a Plugin Root, of contracts and of local tools.             *)
(***************************************************************************)
EXTENDS Artifacts, MCPublication

-----------------------------------------------------------------------------
\* Two sources of which not every pair of contents makes an App; the last
\* content declares another Release. One process makes every output, another
\* only Host authoring outputs.
MCKinds == {[s \in Sources |-> "bundle"],
            [s \in Sources |-> IF s = "a" THEN "project" ELSE "convention"],
            [s \in Sources |-> IF s = "a" THEN "bundle" ELSE "native"]}
MCMakes == [p \in Processes |-> IF p = "p" THEN {"host", "distribution", "local"} ELSE {"host"}]
PairsThatResolve == {c \in [Sources -> 1..3]: ~(c["a"] = 2 /\ c["b"] = 3)}
MCReleases == [c \in 1..3 |-> IF c = 3 THEN "r2" ELSE "r1"]

-----------------------------------------------------------------------------
\* Commands that change a configuration and adopt the dependency selections it
\* needs.
MCFirstRoot == [f \in RootFiles |-> IF f = DependenciesFile THEN Absent ELSE "v1"]
AdoptingChange == [f \in RootFiles |-> IF f = "dependencies.json" THEN Absent ELSE "v2"]
MCChanges == {AdoptingChange}
MCRoots ==
  {r \in [RootFiles -> {"v1", "v2", Absent}] :
     /\ r["a.toml"] = "v2" => r[DependenciesFile] = "v2"
     /\ Absent \in {r[DependenciesFile], r["dependencies.json"]}}

-----------------------------------------------------------------------------
\* A contract with a Rust source, a projection of its descriptor in another
\* package, and a contract whose descriptor is written by hand. The second
\* version of each may not replace the first, nor the third the second.
MCUses == [c \in Contracts |-> IF c = "view" THEN "rust" ELSE c]
MCAsks == {Contracts, {"view"}, {"rust", "hand"}}
MCFamily == [v \in 1..(MaxContractEdits + 1) |-> IF v = 2 THEN "other" ELSE "same"]

-----------------------------------------------------------------------------
\* A workflow whose only preset may turn into a cycle, a second name for the one
\* directory of tools, and tools that exchange their identities and artifacts.
Says(presets, roots, plugins) ==
  [presets |-> presets, sources |-> {"src"}, roots |-> roots, plugins |-> plugins]
Tool(identity, artifacts) ==
  [identity |-> identity, program |-> "prog", artifacts |-> artifacts]
MCText == [f \in {"engine", "base", "t", "u"} |->
  CASE f = "engine" -> <<Says(<<"base">>, <<>>, {}), Says(<<>>, <<"dir">>, {"s"}),
                         Says(<<"base">>, <<"dir">>, {"r"})>>
    [] f = "base" -> <<Says(<<>>, <<"dir">>, {"r"}), Says(<<"engine">>, <<"dir">>, {"r"}), None>>
    [] f = "t" -> <<Tool("r", {}), Tool("s", {"lib"}), Tool("r", {"lib"})>>
    [] f = "u" -> <<None, Tool("r", {"lib"}), Tool("s", {})>>]
MCBelow == [r \in {"dir"} |-> Tools]

-----------------------------------------------------------------------------
\* Of the kinds that are not chosen, one initial state is enough.
MCInit ==
  /\ ArtifactsInit
  /\ part # "generations" => request = [p \in Publishers |-> "first"]
  /\ part # "outputs" => /\ oKind = [s \in Sources |-> "bundle"]
                         /\ oOut = [d \in Apps!Outputs |-> None]
  /\ part # "workspace" => iPlugins = None /\ iValid = [p \in Processes |-> TRUE]
  /\ part # "contracts" => None \notin {gBaseline["rust"], gDisk[<<"descriptor", "rust">>]}

MCSpec == MCInit /\ [][ArtifactsNext]_artifactVars
=============================================================================
