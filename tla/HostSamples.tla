---------------------------- MODULE HostSamples ----------------------------
(***************************************************************************)
(* Hosts, Bundles and Roots for TLC.  A Plugin copy needs a store; a and b *)
(* are stores, b also as a Bundle of two releases and with a second        *)
(* Instance.  In the "split" Host copy needs two stores where it needed    *)
(* one before.                                                             *)
(***************************************************************************)
EXTENDS HostPolicy

Kv(n) == [id |-> n, capability |-> "kv", named |-> TRUE]
StoreOf(p, provides) == [plugin |-> p, slot |-> "store", provides |-> provides, requires |-> {}]
CopyOf(names) == [plugin |-> "copy", slot |-> "copy", provides |-> {},
                  requires |-> {Kv(n) : n \in names}]
Copy == <<"copy", "default">>
A == <<"a", "default">>
B == <<"b", "default">>
Extra == <<"b", "extra">>
SampleInstances == {A, B, Extra}

First == [descriptor |-> StoreOf("b", {"kv"}), digest |-> 1]
Second == [descriptor |-> StoreOf("b", {"kv", "list"}), digest |-> 2]
SampleBundles == {First, Second}

Input(d) == [id |-> <<d.plugin, "default">>, descriptor |-> d, configuration |-> Preset]
Grant(n, providers) == [consumer |-> Copy, requirement |-> n, providers |-> providers, default |-> A]

\* Closed Hosts admit one store beside their own, of the second release of b
\* and with its preset configuration.
Inputs(names, stores) == {Input(CopyOf(names))} \union {Input(StoreOf(p, {"kv"})) : p \in stores}
Slots == [s \in {"store"} |-> "many"]
Rules(stores) == {[slot |-> "store", max |-> Cardinality(stores) + 1, ceiling |-> {Preset},
                   releases |-> {Second}]}
Grants(names, stores) == {Grant(n, {<<p, "default">> : p \in stores}) : n \in names}
Closed(names, stores) == Lower(Inputs(names, stores), Slots, Rules(stores), Grants(names, stores))

\* A local Host of the sources of copy, a and the shared b.
LocalInputs == {[descriptor |-> CopyOf({"source"}), digest |-> 9, owned |-> TRUE],
                [descriptor |-> StoreOf("a", {"kv"}), digest |-> 9, owned |-> TRUE],
                [descriptor |-> First.descriptor, digest |-> 1, owned |-> FALSE]}
Adopting == [EmptyRoot EXCEPT !.instances = [i \in {B} |-> Preset]]

SampleBuilds ==
  [split |-> Closed({"from", "to"}, {"a", "b"}), first |-> Closed({"source"}, {"a", "b"}),
   extended |-> Closed({"source"}, {"a"}),
   local |-> WithLocalRoot(LowerLocal(LocalInputs), EmptyRoot),
   adopted |-> WithLocalRoot(LowerLocal(LocalInputs), Adopting),
   legacy |-> [LowerLocal(LocalInputs) EXCEPT !.kind = "legacy", !.admissions = {}]]

\* Lowering accepts the Hosts, and refuses a store nobody declared as many.
SamplesAreValid ==
  /\ \A args \in {<<{"from", "to"}, {"a", "b"}>>, <<{"source"}, {"a", "b"}>>, <<{"source"}, {"a"}>>} :
       /\ Lowerable(Inputs(args[1], args[2]), Slots, Rules(args[2]), Grants(args[1], args[2]))
       /\ Valid(Closed(args[1], args[2]))
  /\ ~Lowerable(Inputs({"source"}, {"a", "b"}), <<>>, {}, {})
  /\ LocallyLowerable(LocalInputs)
  /\ Valid(SampleBuilds.local) /\ Valid(SampleBuilds.adopted)

Pick(names, i) == [k \in {<<Copy, n>> : n \in names} |-> i]
SampleRequests ==
  {Pick({"source"}, A), Pick({"source"}, B), Pick({"from"}, A), Pick({"from", "to"}, A),
   [k \in {<<Copy, n>> : n \in {"from", "to"}} |-> IF k[2] = "from" THEN B ELSE A],
   [k \in {<<Copy, n>> : n \in {"from", "to"}} |-> IF k[2] = "from" THEN A ELSE B]}

NoFiles == [toml |-> [i \in SampleInstances |-> None], marker |-> {}, resources |-> {},
            bundle |-> {}, canonical |-> None, legacy |-> None]
SampleFiles ==
  {NoFiles, [NoFiles EXCEPT !.canonical = Pick({"source"}, A)],
   [NoFiles EXCEPT !.legacy = Pick({"source"}, B), !.toml[B] = Preset, !.resources = {B}]}
=============================================================================
