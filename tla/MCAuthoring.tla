---------------------------- MODULE MCAuthoring ----------------------------
(***************************************************************************)
(* Authoring for TLC: the samples of MCRootAuthority and HostSamples, and  *)
(* samples of Bundles, of catalogs and of Plugin projects.                 *)
(***************************************************************************)
EXTENDS Authoring, MCRootAuthority

\* Six Host builds; the files below plugins/ begin in one of three states.
Samples == INSTANCE HostSamples
MCInstances == Samples!SampleInstances
MCRootBundles == Samples!SampleBundles
MCHostNames == DOMAIN Samples!SampleBuilds
MCHostBuilds == Samples!SampleBuilds
MCInitFiles == Samples!SampleFiles
MCRootRequests == Samples!SampleRequests
ASSUME HostsAreLowered == Samples!SamplesAreValid

-----------------------------------------------------------------------------
\* Two Plugins of two versions; q is made once, and needs the first version
\* of p; the archive of its first version was made by another tool.
MCUnmadeBundles ==
  {b \in [plugin: StorePlugins, version: StoreVersions, build: StoreBuilds]:
     IF b.plugin = "q" THEN b.version = "v2" \/ b.build = "y"
                       ELSE b.version = "v2" /\ b.build = "y"}
MCForeignBundles ==
  {b \in [plugin: StorePlugins, version: StoreVersions, build: StoreBuilds]:
     b.plugin = "q" /\ b.version = "v1"}
QNeedsFirst == {c \in [StorePlugins -> StoreVersions \union {None}]: c["q"] # None => c["p"] = "v1"}

-----------------------------------------------------------------------------
\* One Release, which a publisher lists and revokes in three revisions, and
\* names a wrong manifest or another archive for; another catalog; an unsigned
\* and two invalid snapshots.
MCHolds == [a \in {"A", "B"} |-> IF a = "A" THEN "mA" ELSE "mB"]
MCIdentities == {[archive |-> "A", manifest |-> "mA"], [archive |-> "B", manifest |-> "mB"],
                    [archive |-> "A", manifest |-> "mB"]}
Snapshot(c, n, i, e, listing) ==
  [catalog |-> c, revision |-> n, issuedAt |-> i, expiresAt |-> e, releases |-> [r \in {"r"} |-> listing]]
Listings == {None} \union [identity: MCIdentities, availability: {"listed", "revoked"}]
Listed == [identity |-> [archive |-> "A", manifest |-> "mA"], availability |-> "listed"]
MCEnvelopes ==
  {[snapshot |-> Snapshot("ours", n, i, i + 1, x), signed |-> TRUE]: n \in 1..3, i \in 0..1, x \in Listings}
  \union {[snapshot |-> s, signed |-> TRUE]:
            s \in {Snapshot("ours", 0, 0, 1, Listed), Snapshot("ours", 3, 0, 2, Listed),
                   Snapshot("other", 3, 0, 1, Listed)}}
  \union {[snapshot |-> Snapshot("ours", 3, 1, 2, Listed), signed |-> FALSE]}

-----------------------------------------------------------------------------
\* A project of each runtime, two that are refused, and one whose declared
\* implementations have roots of their own. The second version of the sources
\* exposes another Capability, the third requires one and names another release.
Cargo(implementations, runtime, outputs) ==
  [package |-> "cargo", implementations |-> implementations, runtime |-> runtime,
   outputs |-> outputs]
MCMetadata ==
  {Cargo(<<>>, None, <<>>), Cargo(<<>>, "process", <<>>), Cargo(<<>>, "bun", <<>>),
   Cargo(<<>>, None, <<"wasm", "process">>), Cargo(<<"process", "bun">>, None, <<>>),
   Cargo(<<"bun", "bun">>, None, <<>>), [Cargo(<<>>, None, <<>>) EXCEPT !.package = "npm"]}
MCFace == [v \in 1..(MaxPluginEdits + 1) |->
             [capability |-> IF v = 2 THEN "c2" ELSE "c1", requires |-> v = 3]]
MCNamedRelease == [v \in 1..(MaxPluginEdits + 1) |-> IF v = 3 THEN "r2" ELSE "r1"]

-----------------------------------------------------------------------------
\* Of the kinds that are not chosen, one initial state is enough.
MCInit ==
  /\ AuthoringInit
  /\ part # "differences" => dInstalled = "first" /\ dCanonical # None
  /\ part # "bundles" => sVisible = [q \in StorePlugins |-> None] /\ sDirectory = {}
  /\ part # "projects" => /\ bMetadata = Cargo(<<>>, None, <<>>)
                          /\ bAuthoring = [i \in {"wasm", "process"} |-> 1]

MCSpec == MCInit /\ [][AuthoringNext]_authoringVars

\* Clients and processes only differ in their names.
Symmetry == Permutations(Clients) \union Permutations(Processes)
=============================================================================
