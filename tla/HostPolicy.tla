----------------------------- MODULE HostPolicy -----------------------------
(***************************************************************************)
(* What a generated Host admits: how host-build.json is lowered from the   *)
(* Plugins, Slots, release admissions and dependency grants a Host author  *)
(* gives (a closed Host), or from local sources (a local Host), and how a  *)
(* Plugin Root is resolved under it.                                       *)
(*                                                                         *)
(* A descriptor is a record [plugin, slot, provides, requires]; a          *)
(* requirement is [id, capability, named]; an Instance is a pair <<plugin, key>>; *)
(* a Root is [releases, instances, disabled, choices], its choices a       *)
(* function of pairs <<Instance, requirement id>>, or None before any were *)
(* saved.  Requirements of cardinality many bind whatever there is.        *)
(***************************************************************************)
EXTENDS Naturals, FiniteSets

CONSTANTS
  None,
  Configurations,  \* what an Instance may be configured with
  Preset,          \* the configuration of a descriptor's defaults
  Limit            \* 256 in the code

EmptyRoot == [releases |-> {}, instances |-> <<>>, disabled |-> {}, choices |-> None]

DefaultIds(h) == {d.id : d \in h.defaults}
AdmittedReleases(h) == UNION {rule.releases : rule \in h.admissions}
AdmittedDescriptors(h) == {r.descriptor : r \in AdmittedReleases(h)}

\* GeneratedHostBuild::descriptor: a release of the Root before the catalog's.
Described(h, root, plugin) ==
  LET own == {d \in root.releases : d.plugin = plugin}
      theirs == {d \in h.plugins : d.plugin = plugin}
  IN IF own # {} THEN CHOOSE d \in own : TRUE
     ELSE IF theirs # {} THEN CHOOSE d \in theirs : TRUE ELSE None

-----------------------------------------------------------------------------
(* The shared resolver of lenso_app_plan, as far as its callers rely on it. *)

\* A default gives way in a replaceable Slot to another Instance of the Root.
Yields(h, root, d) ==
  LET mine == Described(h, root, d.id[1]) IN
  \E i \in (DOMAIN root.instances \ root.disabled) \ {d.id} :
    LET other == Described(h, root, i[1]) IN
    /\ None \notin {mine, other} /\ mine.slot = other.slot
    /\ mine.slot \in DOMAIN h.slots /\ h.slots[mine.slot] = "replaceable"

\* The active Instances, each with its descriptor.
App(h, root) ==
  [i \in ({d.id : d \in {e \in h.defaults : ~Yields(h, root, e)}} \union DOMAIN root.instances)
           \ root.disabled |-> Described(h, root, i[1])]

Requirements(app) == UNION {{<<c, q>> : q \in app[c].requires} : c \in DOMAIN app}

\* The Instances a requirement can be bound to: they provide it, and the Host
\* grants them, if it says anything about the requirement.
Candidates(h, app, k) ==
  LET granted == {b \in h.bindings : b.consumer = k[1] /\ b.requirement = k[2].id} IN
  {i \in DOMAIN app : /\ k[2].capability \in app[i].provides
                      /\ \A b \in granted : i \in b.providers}

Selectable(h, app) ==
  {k \in Requirements(app) :
     \E b \in h.bindings : b.consumer = k[1] /\ b.requirement = k[2].id /\ b.selectable}

Saved(root) == IF root.choices = None THEN <<>> ELSE root.choices

\* A saved choice, the only candidate, or the default the Host grants.
Bound(h, root, app, k) ==
  LET able == Candidates(h, app, k)
      favourites == {b.default : b \in {c \in h.bindings : c.consumer = k[1] /\ c.requirement = k[2].id}}
  IN IF <<k[1], k[2].id>> \in DOMAIN Saved(root) THEN Saved(root)[k[1], k[2].id]
     ELSE IF Cardinality(able) = 1 THEN CHOOSE i \in able : TRUE
     ELSE IF favourites \intersect able # {} THEN CHOOSE i \in favourites \intersect able : TRUE
     ELSE None

Resolved(h, root, app) ==
  /\ \A i \in DOMAIN app : app[i] # None /\ app[i].slot \in DOMAIN h.slots
  /\ \A d \in h.defaults : d.id \in root.disabled => d.disableable
  /\ \A d \in root.releases, e \in h.plugins :
       d.plugin = e.plugin /\ d # e => e.plugin \in h.overridable
  /\ \A s \in DOMAIN h.slots : h.slots[s] # "many" =>
       Cardinality({i \in DOMAIN app : app[i].slot = s}) <= 1
  /\ DOMAIN Saved(root) \subseteq {<<k[1], k[2].id>> : k \in Selectable(h, app)}
  /\ \A k \in Requirements(app) : Bound(h, root, app, k) \in Candidates(h, app, k)

\* What propose_plugin_root saves: every selectable requirement and its provider.
Proposed(h, root) ==
  LET app == App(h, root)
      keys == Selectable(h, app)
  IN [key \in {<<k[1], k[2].id>> : k \in keys} |->
        Bound(h, root, app, CHOOSE k \in keys : <<k[1], k[2].id>> = key)]

-----------------------------------------------------------------------------
(* validate_policy, admit and resolve_with.                                 *)

ValidPolicy(h) ==
  /\ Cardinality(h.admissions) <= Limit /\ Cardinality(h.defaults) <= Limit
  /\ Cardinality(DOMAIN h.slots) <= Limit /\ Cardinality(AdmittedReleases(h)) <= Limit
  /\ h.kind = "closed" => \A d \in h.defaults : ~d.disableable
  /\ \A r, s \in h.admissions : r.slot = s.slot => r = s
  /\ \A r \in h.admissions : r.slot \in DOMAIN h.slots /\ r.max \in 1..Limit
  /\ \A r, s \in h.admissions : \A x \in r.releases, y \in s.releases :
       x.descriptor.plugin = y.descriptor.plugin => x = y
  /\ \A r \in h.admissions : \A x \in r.releases :
       /\ x.descriptor.slot = r.slot
       /\ \A d \in h.plugins : d.plugin = x.descriptor.plugin => d.slot = r.slot
  /\ \A s \in DOMAIN h.slots : h.slots[s] = "replaceable" =>
       \E r \in h.admissions : r.slot = s /\ r.releases # {}

\* Mutant: an Instance is admitted by the name of its Plugin.
AdmitsByName(h, root) ==
  \A i \in DOMAIN root.instances \union root.disabled :
    i \in DefaultIds(h) \/ \E d \in AdmittedDescriptors(h) : d.plugin = i[1]

\* Every release of the Root, and every Instance that is not a default, is of
\* a release the Host admits, to the letter of its descriptor.
Admits(h, root) ==
  /\ root.releases \subseteq AdmittedDescriptors(h)
  /\ \A i \in DOMAIN root.instances \union root.disabled :
       i \in DefaultIds(h) \/ Described(h, root, i[1]) \in AdmittedDescriptors(h)

EffectiveConfiguration(h, root, i) ==
  IF i \in DOMAIN root.instances THEN root.instances[i]
  ELSE (CHOOSE d \in h.defaults : d.id = i).configuration

\* Within a Slot's rule: no more Instances, and none configured beyond it.
WithinRule(h, root, app, rule) ==
  LET selected == {i \in DOMAIN app : app[i].slot = rule.slot}
  IN /\ Cardinality(selected) <= rule.max
     /\ \A i \in selected : EffectiveConfiguration(h, root, i) \in rule.ceiling

\* A legacy host-catalog.json has no policy.
HostResolves(h, root) ==
  LET app == App(h, root) IN
  /\ h.kind # "legacy" => ValidPolicy(h) /\ Admits(h, root)
  /\ Resolved(h, root, app)
  /\ h.kind # "legacy" => /\ Cardinality(DOMAIN app) <= Limit
                          /\ \A rule \in h.admissions : WithinRule(h, root, app, rule)

\* propose resolves what it saves; its callers resolve that again.
HostProposes(h, root) == HostResolves(h, root)

-----------------------------------------------------------------------------
(* lower_with_dependencies: closed Host authority.                          *)

\* A dependency an App may choose, among providers the Host grants.
Grantable(dep, inputs) ==
  LET ids == {i.id : i \in inputs} IN
  /\ dep.providers # {} /\ dep.providers \subseteq ids /\ dep.consumer \in ids
  /\ \E i \in inputs : /\ i.id = dep.consumer
                       /\ dep.requirement \in {q.id : q \in i.descriptor.requires}
  /\ dep.default \in dep.providers \union {None}

\* No two inputs are one Instance, or differ in what their Plugin is; a Slot
\* nobody declared has one default, and a declared one has a candidate.
Lowerable(inputs, slots, admissions, deps) ==
  /\ \A i, j \in inputs : i.id = j.id => i = j
  /\ \A i, j \in inputs : i.descriptor.plugin = j.descriptor.plugin => i.descriptor = j.descriptor
  /\ \A i, j \in inputs : i.descriptor.slot = j.descriptor.slot /\ i # j =>
       i.descriptor.slot \in DOMAIN slots
  /\ \A s \in DOMAIN slots :
       \/ \E i \in inputs : i.descriptor.slot = s
       \/ \E r \in admissions : r.slot = s /\ r.releases # {}
  /\ \A d \in deps : Grantable(d, inputs)

Lower(inputs, slots, admissions, deps) ==
  LET offered == {i.descriptor.slot : i \in inputs} \ DOMAIN slots
      plugins == {i.descriptor : i \in inputs}
      admitted == {x.descriptor.plugin : x \in UNION {r.releases : r \in admissions}}
  IN [kind |-> "closed",
      slots |-> [s \in DOMAIN slots \union offered |-> IF s \in offered THEN "one" ELSE slots[s]],
      plugins |-> plugins,
      overridable |-> {d.plugin : d \in plugins} \intersect admitted,
      defaults |-> {[id |-> i.id, configuration |-> i.configuration, disableable |-> FALSE] :
                      i \in inputs},
      bindings |-> {[consumer |-> d.consumer, requirement |-> d.requirement,
                     providers |-> d.providers, default |-> d.default, selectable |-> TRUE] :
                      d \in deps},
      admissions |-> admissions]

\* validate: a closed Host resolves with nothing in the Root.
Valid(h) == ValidPolicy(h) /\ (h.kind = "closed" => HostProposes(h, EmptyRoot))

-----------------------------------------------------------------------------
(* lower_local and with_local_root: a Host of local sources.                *)

LocallyLowerable(inputs) ==
  \A i, j \in inputs : i.descriptor.plugin = j.descriptor.plugin => i = j

LowerLocal(inputs) ==
  LET slots == {i.descriptor.slot : i \in inputs} IN
  [kind |-> "local",
   slots |-> [s \in slots |-> "many"],
   plugins |-> {i.descriptor : i \in inputs},
   overridable |-> {},
   defaults |-> {[id |-> <<i.descriptor.plugin, "default">>, configuration |-> Preset,
                  disableable |-> TRUE] : i \in {j \in inputs : j.owned}},
   bindings |-> {},
   admissions |->
     {[slot |-> s, max |-> Limit, ceiling |-> Configurations,
       releases |-> {[descriptor |-> i.descriptor, digest |-> i.digest] :
                       i \in {j \in inputs : j.descriptor.slot = s}}] : s \in slots}]

\* Choices among the Instances that the Host and the Root already declare.
WithLocalRoot(h, root) ==
  LET declared == DefaultIds(h) \union DOMAIN root.instances
      known == {i \in declared : Described(h, root, i[1]) # None}
      able(q) == {i \in known : q.capability \in Described(h, root, i[1]).provides}
      roles == UNION {{<<c, q>> : q \in Described(h, root, c[1]).requires} : c \in known}
  IN [h EXCEPT !.bindings =
        {[consumer |-> k[1], requirement |-> k[2].id, providers |-> able(k[2]),
          default |-> None, selectable |-> k[2].named] : k \in {r \in roles : able(r[2]) # {}}}]

-----------------------------------------------------------------------------
(* Bundles against a Host.                                                  *)

\* select_bundle: the Plugin and the manifest digest are of one admitted
\* release; a legacy Host takes the descriptor of the Bundle itself.
SelectBundle(h, bundle) ==
  LET same == {r \in AdmittedReleases(h) :
                 r.descriptor.plugin = bundle.descriptor.plugin /\ r.digest = bundle.digest}
  IN IF h.kind = "legacy" THEN bundle.descriptor
     ELSE IF same = {} THEN None ELSE (CHOOSE r \in same : TRUE).descriptor

\* verify_distribution_bundle, of a Bundle that was verified again.
BelongsTo(h, bundle) ==
  \/ bundle.descriptor \in h.plugins
  \/ [descriptor |-> bundle.descriptor, digest |-> bundle.digest] \in AdmittedReleases(h)
=============================================================================
