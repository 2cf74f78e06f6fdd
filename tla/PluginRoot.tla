----------------------------- MODULE PluginRoot -----------------------------
(***************************************************************************)
(* The App owner's differences below plugins/: configurations, markers of  *)
(* disabled Instances, resource directories, Bundles and saved dependency  *)
(* choices, as the files they are, and the commands that change them.      *)
(*                                                                         *)
(* A command holds the authoring lock, reads the files, resolves the Root  *)
(* it is about to make, and writes the files of it; how several files are  *)
(* replaced together, and what runs between commands, is RootTransaction   *)
(* and RootAuthority.  Between commands a person may change files, and     *)
(* another Host may be built.                                              *)
(***************************************************************************)
EXTENDS HostPolicy, Functions

CONSTANTS
  Instances,     \* pairs <<plugin, key>>
  Bundles,       \* records [descriptor, digest]
  HostNames,
  Builds,        \* the Host builds there may be, by name
  InitFiles,     \* what plugins/ may hold before the first command
  Requests,      \* dependency choices a command may ask for
  MaxCommands,
  MaxEdits,
  MaxHosts,
  MaxFaults

VARIABLES
  installed,  \* .lenso/host-build.json or .lenso/host-catalog.json
  toml,       \* plugins/<id>/<instance>.toml, by Instance
  marker,     \* the Instances with a <instance>.disabled file
  resources,  \* the Instances with a directory <instance>/
  bundle,     \* the verified Bundles plugins/<id>/bundle
  canonical,  \* plugins/.dependencies.json
  legacy,     \* plugins/dependencies.json
  last,       \* what the last command did, if nothing was changed since
  commands, edits, hosts, faults

files == <<toml, marker, resources, bundle, canonical, legacy>>
vars == <<installed, files, last, commands, edits, hosts, faults>>

host == Builds[installed]

ChoiceSets == UNION {[S -> Instances] : S \in SUBSET UNION {DOMAIN c : c \in Requests}}
Roots == [releases : SUBSET {b.descriptor : b \in Bundles},
          instances : UNION {[S -> Configurations] : S \in SUBSET Instances},
          disabled : SUBSET Instances, choices : ChoiceSets \union {None}]

TypeOK ==
  /\ installed \in HostNames
  /\ toml \in [Instances -> Configurations \union {None}]
  /\ marker \subseteq Instances /\ resources \subseteq Instances
  /\ bundle \subseteq Bundles
  /\ \A b, c \in bundle : b.descriptor.plugin = c.descriptor.plugin => b = c
  /\ {canonical, legacy} \subseteq ChoiceSets \union {None}
  /\ last # None =>
       /\ last.op \in {"configure", "select", "replace", "publish", "disable", "enable", "reset",
                     "remove"}
       /\ last.root.disabled \subseteq Instances
       /\ DOMAIN last.root.instances \subseteq Instances
  /\ commands \in 0..MaxCommands /\ edits \in 0..MaxEdits
  /\ hosts \in 0..MaxHosts /\ faults \in 0..MaxFaults

Init ==
  /\ installed \in HostNames
  /\ \E f \in InitFiles :
       /\ toml = f.toml /\ marker = f.marker /\ resources = f.resources
       /\ bundle = f.bundle /\ canonical = f.canonical /\ legacy = f.legacy
  /\ last = None
  /\ commands = 0 /\ edits = 0 /\ hosts = 0 /\ faults = 0

-----------------------------------------------------------------------------
(* snapshot_plugin_root: what the files say, if they can be read.           *)

Configured == {i \in Instances : toml[i] # None}
Orphans == resources \ Configured

Readable ==
  /\ Orphans = {}
  /\ None \in {canonical, legacy}
  /\ \A b \in bundle : SelectBundle(host, b) # None

Snapshot ==
  [releases |-> {SelectBundle(host, b) : b \in bundle},
   instances |-> [i \in Configured |-> toml[i]],
   disabled |-> marker,
   choices |-> IF canonical # None THEN canonical ELSE legacy]

\* load_resolved_app succeeds.
Loads == Readable /\ HostResolves(host, Snapshot)

-----------------------------------------------------------------------------
(* What every command begins with, and how it ends.                         *)

Begins ==
  /\ commands < MaxCommands
  /\ commands' = commands + 1
  /\ UNCHANGED <<installed, edits, hosts>>

\* It resolved this Root, wrote it, and reports success. What was asked of
\* the saved choices is kept with it.
Succeeds(op, root, asked) ==
  /\ Readable /\ HostResolves(host, root)
  /\ last' = [op |-> op, root |-> root, asked |-> asked]

Refused(root) ==
  /\ ~(Readable /\ HostResolves(host, root))
  /\ last' = None
  /\ UNCHANGED <<files, faults>>

\* candidate_configuration_instances, with what was saved of dependencies.
WithConfiguration(i, c) ==
  [Snapshot EXCEPT !.instances = [j \in DOMAIN @ \union {i} |-> IF j = i THEN c ELSE @[j]]]

\* configure_instance; publish_plugin_root_changes of one configuration.
Configure(i, c) ==
  /\ Begins
  /\ \/ /\ Succeeds("configure", WithConfiguration(i, c), {})
        /\ toml' = [toml EXCEPT ![i] = c]
        /\ UNCHANGED <<marker, resources, bundle, canonical, legacy, faults>>
     \/ Refused(WithConfiguration(i, c))

Marked(i, disabling) ==
  [Snapshot EXCEPT !.disabled = IF disabling THEN @ \union {i} ELSE @ \ {i}]

\* set_instance_disabled: an empty marker, written or removed.
SetDisabled(i, disabling) ==
  /\ Begins
  /\ disabling \/ i \in marker
  /\ \/ /\ Succeeds(IF disabling THEN "disable" ELSE "enable", Marked(i, disabling), {})
        /\ marker' = IF disabling THEN marker \union {i} ELSE marker \ {i}
        /\ UNCHANGED <<toml, resources, bundle, canonical, legacy, faults>>
     \/ Refused(Marked(i, disabling))

-----------------------------------------------------------------------------
(* Dependency choices: `plugins bind` and reviewed changes.                 *)

\* apply_dependency_selections: asked for by key, or as the whole set.
Merged(asked, all) ==
  IF all THEN asked
  ELSE [k \in (DOMAIN Saved(Snapshot)) \union DOMAIN asked |->
          IF k \in DOMAIN asked THEN asked[k] ELSE Saved(Snapshot)[k]]

Chosen(choices) == [Snapshot EXCEPT !.choices = choices]
Adopted(choices) == Chosen(Proposed(host, Chosen(choices)))

\* Mutant: the legacy file stays beside the canonical one.
WriteBeside(choices) ==
  /\ canonical' = choices
  /\ UNCHANGED legacy

\* The canonical file is written and the legacy file, if any, removed.
WriteChoices(choices) ==
  /\ canonical' = choices
  /\ legacy' = None

SetSelections(asked, all) ==
  LET wanted == Chosen(Merged(asked, all)) IN
  /\ Begins
  /\ \/ /\ Readable /\ HostProposes(host, wanted)
        /\ LET root == Adopted(wanted.choices) IN
           \/ /\ Succeeds(IF all THEN "replace" ELSE "select", root, DOMAIN asked)
              /\ WriteChoices(root.choices)
              /\ UNCHANGED <<toml, marker, resources, bundle, faults>>
           \/ Refused(root)
     \/ Refused(wanted)

\* requirement_migrations: a saved requirement that is gone, and the new ones
\* of the same consumer that the same provider is bound to.
Migrations(before, after) ==
  {<<k, {n \in DOMAIN after \ DOMAIN before : n[1] = k[1] /\ after[n] = before[k]}>> :
     k \in DOMAIN before \ DOMAIN after}

\* Mutant: one part that was asked for is enough.
UnreviewedWhole(before, after, asked) ==
  \E m \in Migrations(before, after) :
    Cardinality(m[2]) > 1 /\ m[2] \intersect DOMAIN asked = {}

\* has_unreviewed_split
UnreviewedSplit(before, after, asked) ==
  \E m \in Migrations(before, after) : Cardinality(m[2]) > 1 /\ ~(m[2] \subseteq DOMAIN asked)

\* A reviewed change names the whole set of choices; it is published if every
\* part of a split requirement is among them.
PublishChoices(asked) ==
  LET wanted == Chosen(asked) IN
  /\ Begins
  /\ \/ /\ Readable /\ HostProposes(host, wanted)
        /\ LET root == Adopted(asked) IN
           IF UnreviewedSplit(Saved(Snapshot), Saved(root), asked)
           THEN last' = None /\ UNCHANGED <<files, faults>>
           ELSE \/ /\ Succeeds("publish", root, DOMAIN asked)
                   /\ WriteChoices(root.choices)
                   /\ UNCHANGED <<toml, marker, resources, bundle, faults>>
                \/ Refused(root)
     \/ Refused(wanted)

-----------------------------------------------------------------------------
(* remove_instance_difference and remove_plugin.                            *)

Without(ids) ==
  [Snapshot EXCEPT !.instances = Restrict(@, DOMAIN @ \ ids), !.disabled = @ \ ids]

\* The configuration is removed, then the marker; nothing is written down
\* first, and an error in between leaves the marker.
RemoveDifference(i) ==
  /\ Begins
  /\ \/ /\ Succeeds("reset", Without({i}), {})
        /\ toml' = [toml EXCEPT ![i] = None]
        /\ marker' = marker \ {i}
        /\ UNCHANGED <<resources, bundle, canonical, legacy, faults>>
     \/ /\ Readable /\ HostResolves(host, Without({i}))
        /\ faults < MaxFaults /\ faults' = faults + 1
        /\ last' = None
        /\ toml' = [toml EXCEPT ![i] = None]
        /\ UNCHANGED <<marker, resources, bundle, canonical, legacy>>
     \/ Refused(Without({i}))

WithoutPlugin(p) ==
  LET root == Without({i \in Instances : i[1] = p}) IN
  [root EXCEPT !.releases = {d \in @ : d.plugin # p}]

HasDirectory(p) ==
  \/ \E i \in Configured \union marker \union resources : i[1] = p
  \/ \E b \in bundle : b.descriptor.plugin = p

\* The whole directory moves to the trash.
RemovePlugin(p) ==
  LET gone == {i \in Instances : i[1] = p} IN
  /\ Begins
  /\ \/ /\ HasDirectory(p)
        /\ Succeeds("remove", WithoutPlugin(p), {})
        /\ toml' = [i \in Instances |-> IF i \in gone THEN None ELSE toml[i]]
        /\ marker' = marker \ gone /\ resources' = resources \ gone
        /\ bundle' = {b \in bundle : b.descriptor.plugin # p}
        /\ UNCHANGED <<canonical, legacy, faults>>
     \/ Refused(WithoutPlugin(p))

\* One requirement is bound, or a file of choices is reviewed and published.
Bind(asked) == SetSelections(asked, FALSE) \/ PublishChoices(asked)

Command ==
  \/ \E i \in Instances : \/ \E c \in Configurations : Configure(i, c)
                          \/ \E disabling \in BOOLEAN : SetDisabled(i, disabling)
                          \/ RemoveDifference(i)
  \/ \E asked \in Requests : Bind(asked) \/ SetSelections(asked, TRUE)
  \/ \E p \in {i[1] : i \in Instances} : RemovePlugin(p)

-----------------------------------------------------------------------------
(* Between commands.                                                        *)

Edits == edits < MaxEdits /\ edits' = edits + 1 /\ last' = None

\* A person adds a configuration with the resources that belong to it.
AddResources(i) ==
  /\ Edits
  /\ resources' = resources \union {i}
  /\ \E c \in Configurations : toml' = [toml EXCEPT ![i] = IF @ = None THEN c ELSE @]
  /\ UNCHANGED <<installed, marker, bundle, canonical, legacy, commands, hosts, faults>>

\* A person puts another Bundle in the place of a Plugin's.
SwapBundle(b) ==
  /\ Edits
  /\ bundle' = {b} \union {c \in bundle : c.descriptor.plugin # b.descriptor.plugin}
  /\ UNCHANGED <<installed, toml, marker, resources, canonical, legacy, commands, hosts, faults>>

\* Another Host build is installed.
ReplaceHost(h) ==
  /\ hosts < MaxHosts /\ hosts' = hosts + 1
  /\ installed' = h /\ last' = None
  /\ UNCHANGED <<files, commands, edits, faults>>

Next ==
  \/ Command
  \/ \E i \in Instances : AddResources(i)
  \/ \E b \in Bundles : SwapBundle(b)
  \/ \E h \in HostNames : ReplaceHost(h)

Spec == Init /\ [][Next]_vars

-----------------------------------------------------------------------------
\* After a command that succeeded, the files say exactly what it resolved: the
\* App it returned is the App the next command loads. (A reset Instance that
\* has resources is the exception, see RemainingAppLoads.)
LoadsWhatItResolved ==
  last # None =>
    \/ Readable /\ Snapshot = last.root /\ HostResolves(host, last.root)
    \/ last.op = "reset" /\ Orphans # {}

\* Whatever a person puts below plugins/ and whichever Host is installed, an
\* App that loads runs the Host's own Plugins and releases it admits to the
\* letter, in no greater number and no wider configuration than it admits.
RunsWhatTheHostAdmits ==
  LET app == App(host, Snapshot) IN
  Loads /\ host.kind # "legacy" =>
    /\ \A i \in DOMAIN app :
         \/ app[i] \in AdmittedDescriptors(host)
         \/ i \in DefaultIds(host) /\ app[i] \in host.plugins
    /\ \A b \in bundle : b \in AdmittedReleases(host) /\ BelongsTo(host, b)
    /\ \A rule \in host.admissions : WithinRule(host, Snapshot, app, rule)
    /\ host.kind = "closed" => DefaultIds(host) \intersect marker = {}

\* A saved choice changes its provider only where a command was asked to, unless the
\* whole set was asked for, which gives what it leaves out back to the Host; a
\* requirement that was split is not rebound by a reviewed change that leaves out
\* one of its parts.
ChoicesChangeAsAsked ==
  [][LET before == Saved(Snapshot)
         after == Saved(Snapshot)'
     IN last' # None =>
        LET asked == last'.asked IN
          /\ \A k \in (DOMAIN before) \intersect DOMAIN after : before[k] # after[k] =>
               k \in asked \/ last'.op \in {"replace", "publish"}
          /\ \A m \in Migrations(before, after) :
               last'.op = "publish" /\ Cardinality(m[2]) > 1 => m[2] \subseteq asked]_vars

\* remove_instance_difference validates the remaining App and reports that it
\* is removed: then the remaining App loads.
RemainingAppLoads == last # None => Loads
=============================================================================
