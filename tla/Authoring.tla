----------------------------- MODULE Authoring -----------------------------
(***************************************************************************)
(* The commands that make Plugins and change a Plugin Root, one kind at a  *)
(* time: reviewed changes and selections (RootAuthority), the files they   *)
(* leave behind (PluginRoot), Plugin Bundles built (PluginBuild) and       *)
(* installed (PluginStore), and what is installed from the signed catalog  *)
(* (SignedCatalog).  The states of the kinds that are not chosen stay as   *)
(* they were.                                                              *)
(***************************************************************************)
EXTENDS RootAuthority, Sequences

CONSTANTS
  None, MaxPersonEdits, MaxNewHosts, MaxFailures,
  \* See PluginRoot and HostPolicy.
  Configurations, Preset, Limit, Instances, RootBundles, HostNames, HostBuilds, InitFiles,
  RootRequests, MaxRootCommands,
  \* See PluginStore.
  Processes, StorePlugins, StoreVersions, StoreBuilds, UnmadeBundles, ForeignBundles,
  Resolvable, Torn, Damaged, MaxStoreCommands,
  \* See SignedCatalog.
  Releases, CatalogArchives, Holds, Identities, Envelopes, MaxTime, MaxValidity, MaxAccepted,
  MaxTampers,
  \* See PluginBuild.
  Metadata, PluginCommands, Face, NamedRelease, Broken, MaxPluginEdits, MaxPluginCommands

VARIABLES part,
  dInstalled, dToml, dMarker, dResources, dBundle, dCanonical, dLegacy, dLast, dCommands,
  dEdits, dHosts, dFaults,
  sVisible, sDirectory, sStore, sTrash, sLock, sPc, sJob, sStaged, sResult, sLanded,
  sHeld, sCommands, sFaults,
  cNow, cCheckpoint, cHeld, cAccepted, cSelected, cArchive, cDirectory, cInstalled, cTampers,
  bMetadata, bAuthoring, bSource, bTarget, bOut, bPc, bJob, bCommands, bSwapped, bMixed, bRan

differenceVars == <<dInstalled, dToml, dMarker, dResources, dBundle, dCanonical, dLegacy, dLast,
  dCommands, dEdits, dHosts, dFaults>>
storeVars == <<sVisible, sDirectory, sStore, sTrash, sLock, sPc, sJob, sStaged, sResult,
  sLanded, sHeld, sCommands, sFaults>>
catalogVars == <<cNow, cCheckpoint, cHeld, cAccepted, cSelected, cArchive, cDirectory,
  cInstalled, cTampers>>
projectVars == <<bMetadata, bAuthoring, bSource, bTarget, bOut, bPc, bJob, bCommands,
  bSwapped, bMixed, bRan>>
otherVars == <<storeVars, catalogVars, projectVars>>
authoringVars == <<part, vars, differenceVars, otherVars>>

-----------------------------------------------------------------------------
Differences == INSTANCE PluginRoot WITH
  Bundles <- RootBundles, Builds <- HostBuilds, Requests <- RootRequests,
  MaxCommands <- MaxRootCommands, MaxEdits <- MaxPersonEdits, MaxHosts <- MaxNewHosts,
  MaxFaults <- MaxFailures,
  installed <- dInstalled, toml <- dToml, marker <- dMarker, resources <- dResources,
  bundle <- dBundle, canonical <- dCanonical, legacy <- dLegacy, last <- dLast,
  commands <- dCommands, edits <- dEdits, hosts <- dHosts, faults <- dFaults

Store == INSTANCE PluginStore WITH
  Plugins <- StorePlugins, Versions <- StoreVersions, Builds <- StoreBuilds,
  Unmade <- UnmadeBundles, Foreign <- ForeignBundles,
  MaxCommands <- MaxStoreCommands, MaxFaults <- MaxFailures,
  visible <- sVisible, directory <- sDirectory, store <- sStore, trash <- sTrash,
  lock <- sLock, pc <- sPc, job <- sJob, staged <- sStaged, result <- sResult,
  landed <- sLanded, held <- sHeld, commands <- sCommands, faults <- sFaults

Catalog == INSTANCE SignedCatalog WITH
  Archives <- CatalogArchives,
  now <- cNow, checkpoint <- cCheckpoint, held <- cHeld, accepted <- cAccepted,
  selected <- cSelected, archive <- cArchive, directory <- cDirectory,
  installed <- cInstalled, tampers <- cTampers

Projects == INSTANCE PluginBuild WITH
  Builders <- Processes, Commands <- PluginCommands, Release <- NamedRelease,
  MaxEdits <- MaxPluginEdits, MaxCommands <- MaxPluginCommands,
  metadata <- bMetadata, authoring <- bAuthoring, source <- bSource, target <- bTarget,
  out <- bOut, pc <- bPc, job <- bJob, commands <- bCommands, swapped <- bSwapped,
  mixed <- bMixed, ran <- bRan

-----------------------------------------------------------------------------
\* The files, requests and Hosts an App may have: a digest is of one descriptor, and
\* what a Host lets an App choose is among what is requested.
ASSUME DifferencesAssumption ==
  /\ None \notin Configurations \union Differences!ChoiceSets
  /\ RootRequests \subseteq Differences!ChoiceSets
  /\ \A f \in InitFiles :
       /\ f.toml \in [Instances -> Configurations \union {None}]
       /\ f.marker \subseteq Instances /\ f.resources \subseteq Instances
       /\ f.bundle \subseteq RootBundles
       /\ \A b, c \in f.bundle : b.descriptor.plugin = c.descriptor.plugin => b = c
       /\ {f.canonical, f.legacy} \subseteq Differences!ChoiceSets \union {None}
  /\ {MaxRootCommands, MaxPersonEdits, MaxNewHosts} \subseteq Nat
ASSUME DigestAssumption ==
  \A b \in RootBundles :
    /\ b = [descriptor |-> b.descriptor, digest |-> b.digest]
    /\ \A h \in HostNames : \A r \in Differences!AdmittedReleases(HostBuilds[h]) :
         r.digest = b.digest /\ r.descriptor.plugin = b.descriptor.plugin => r = b
ASSUME SelectableAssumption ==
  \A h \in HostNames : \A b \in HostBuilds[h].bindings : b.selectable =>
    /\ <<b.consumer, b.requirement>> \in UNION {DOMAIN c : c \in RootRequests}
    /\ b.providers \subseteq Instances

\* What stands for nothing, or for what is broken, is no Bundle, process or snapshot.
ASSUME StoreAssumption ==
  /\ None \notin Store!Bundles \union Store!Archives \union Processes \union {"done", "failed"}
  /\ Torn \notin Store!Archives \union {None}
  /\ Damaged \notin Store!Bundles \union {None}
  /\ MaxStoreCommands \in Nat /\ MaxFailures \in Nat

\* Declared implementations are a list.
ASSUME ProjectsAssumption ==
  /\ \A m \in Metadata : m.implementations \in Seq(STRING)
  /\ MaxPluginEdits \in Nat /\ MaxPluginCommands \in Nat

ASSUME CatalogAssumption ==
  /\ \A e \in Envelopes : e.snapshot \in Catalog!Snapshots
  /\ Identities \subseteq [archive : CatalogArchives, manifest : Catalog!Manifests]
  /\ None \notin Identities \union Catalog!Entries \union Catalog!Manifests
  /\ None \notin [snapshot : Catalog!Snapshots, identities : [Releases -> Identities \union {None}]]
  /\ MaxTime \in Nat /\ MaxTampers \in Nat

-----------------------------------------------------------------------------
AuthoringInit ==
  /\ part \in {"changes", "differences", "bundles", "catalog", "projects"}
  /\ Init /\ Differences!Init /\ Store!Init /\ Catalog!Init /\ Projects!Init

\* Commands are bounded; when all are spent, nothing happens any more.
Rests == part \in {"differences", "bundles", "projects"} /\ UNCHANGED authoringVars

AuthoringNext ==
  \/ /\ part = "changes" /\ Next
     /\ UNCHANGED <<part, differenceVars, otherVars>>
  \/ /\ part = "differences" /\ Differences!Next
     /\ UNCHANGED <<part, vars, otherVars>>
  \/ /\ part = "bundles" /\ Store!Next
     /\ UNCHANGED <<part, vars, differenceVars, catalogVars, projectVars>>
  \/ /\ part = "catalog" /\ Catalog!Next
     /\ UNCHANGED <<part, vars, differenceVars, storeVars, projectVars>>
  \/ /\ part = "projects" /\ Projects!Next
     /\ UNCHANGED <<part, vars, differenceVars, storeVars, catalogVars>>
  \/ Rests

AuthoringSpec == AuthoringInit /\ [][AuthoringNext]_authoringVars

-----------------------------------------------------------------------------
\* The properties of the kinds that are not chosen hold of their one state.
\* Every variable of the chosen kind has its type.
AuthoringTypeOK ==
  CASE part = "changes" -> TypeOK
    [] part = "differences" -> Differences!TypeOK
    [] part = "bundles" -> Store!TypeOK
    [] part = "catalog" -> Catalog!TypeOK
    [] part = "projects" -> Projects!TypeOK

\* See PluginStore and PluginRoot: what plugins/ holds makes an App, whoever
\* changes it, and it is the App that the command resolved.
RootResolves ==
  /\ part = "bundles" => Store!RootResolves
  /\ part = "differences" => Differences!LoadsWhatItResolved
\* See PluginRoot: no App runs what its Host does not admit.
RunsWhatTheHostAdmits == part = "differences" => Differences!RunsWhatTheHostAdmits
\* See PluginRoot: saved dependency choices change where that was asked for.
ChoicesChangeAsAsked == Differences!ChoicesChangeAsAsked
\* See PluginStore: no command overwrites a Bundle that cannot be brought
\* back, nor reports anything but whether it changed plugins/.
NothingIsLost == part = "bundles" => Store!NothingIsLost /\ Store!ReportsItsCommit
\* See PluginBuild: a packed Bundle states the Contract of what is in it, and
\* dev invokes nothing else.
BundlesAreAsStated ==
  part = "projects" => Projects!PackedAsStated /\ Projects!RunsAsStated
\* See SignedCatalog: what a consumer accepts is one history, in which a withdrawn
\* Release does not come back; what it installed is in it, and it can read its own
\* checkpoint again.
CatalogIsOneHistory ==
  /\ [][part = "catalog" => Catalog!AcceptedIsOneHistory' /\ Catalog!InstalledAsSigned'
                            /\ Catalog!CheckpointReadsBack']_catalogVars
  /\ Catalog!SelectsFromTheNewest
=============================================================================
