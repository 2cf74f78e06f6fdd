# Verification of lenso-engine

TLA+ models of the parts of lenso-engine in which several processes, or one
process and the next, work on the same state; TLC configurations that check
them on small instances; and TLAPS proofs of the properties that matter most,
for every value of the constants. Paths below are relative to `src/crates/`.

## 1. Inventory

| Component | State it keeps | Operations | What makes it correct |
| --- | --- | --- | --- |
| Plugin Root transaction (`lenso-engine-authoring/src/root_transaction.rs`, `lib.rs`) | files below `plugins/`, the guard `plugins/.transaction`, `.lenso` staging with a record per transaction, the advisory lock file | lock, recover, stage, guard, rename each path, commit, verify, clean up; snapshot under the shared lock | a change set is visible as a whole or not at all, whatever is killed; a person's edit is never overwritten by recovery; a reader sees one root |
| Plugin Root authority (`configuration_authority.rs`, `selection_authority.rs`) | revisions (digests) of root, Host catalog and source files; proposals in the hands of reviewers | propose, publish | what is published is what was reviewed, against the root it was reviewed for |
| Plugin Root contents (`lib.rs`, `configuration_authority.rs`) | configurations, markers of disabled Instances, resource directories, Bundles, saved dependency choices | configure, disable, enable, bind, reset, remove; resolve against a Host | the App a command resolved is the App the next one loads; saved choices change where that was asked |
| Bundles (`lib.rs` 900-1180, 1439-1475, `lenso-engine-app/src/plugins.rs`) | Plugin directories, retained archives, trash | add, install, update, roll back, remove | the candidate is resolved under the lock it is committed under; no Bundle is overwritten that cannot be brought back |
| Host authoring (`host_authoring.rs`, `host_authoring/`) | a Host's policy: admissions, Slots, grants | make the policy, resolve a root under it | nothing runs that the Host does not admit |
| Generation engine (`lenso-engine/src/lib.rs`) | registered compilers, compiler cache | register, plan, execute, cancel | every compiler runs after its dependencies; a cached output equals a fresh one; no partial output |
| Engine session (`session.rs`) | last input, current output | refresh, replace the engine, watch | the current output belongs to the last successful input; failures change nothing |
| Generation publication (`publication.rs`) | `generations/<id>`, `current.json`, flock | publish, verify | `current.json` names a complete, unmodified generation |
| Compiler process (`process.rs`) | live compilers, their process groups | run with a time limit, cancel, terminate all | a compiler is reaped once, never outlives its command, and is never killed after its identity was reused |
| External compilers, bootstrap (`external.rs`, `bootstrap.rs`) | lock files with proofs of binaries | compose, resolve, load | outputs are accepted only of a tool that ran with what the lock proves |
| App development loop (`lenso-engine-app/src/app/local_dev.rs`, `local_host.rs`) | a bounded queue of changes, the running App | watch, debounce, rebuild, restart, stop | the last edit is eventually built; a failed build keeps the old App |
| Source watcher (`watch.rs`) | a channel of notifications, or a fingerprint of the files | wait for a change, debounce, fall back to polling | every edit is reported to a build that starts after it |
| Plugin development (`plugin/dev.rs`, `plugin/web_dev.rs`) | the last build, the Host process | build, invoke or serve, rebuild, stop | the Host is of the last build and never runs beside the next one |
| App outputs (`lenso-engine-app/src/app/build.rs`, `prepare.rs`, `assemble.rs`, `precompiled.rs`, `preset.rs`, `convention_build.rs`) | staged and published directories | build a Host authoring output, a distribution, a local App | an output is what it describes itself to be, of contents that existed together |
| App contracts (`app/contracts.rs`, `app/contracts/source.rs`) | generated files, baselines, a lock | synchronise before an App is assembled | generated files and baselines are of one moment of the sources, or as they were; contracts change compatibly |
| Plugin build (`plugin.rs`, `plugin/dev.rs`) | cargo's target directory, the packed Bundle | check, pack, dev | a Bundle states one Contract, which all its implementations have |
| App init (`app.rs`) | two staged trees | rename into place, validate, take back | no half-made App |
| Signed catalog (`lenso-plugin-catalog`, `archive.rs`, `archive_download.rs`) | the checkpoint of a consumer | verify, select, download, install | what is accepted is one history; what is installed is in it |
| Discovery, code generation, command line, binaries | none between calls | one sequential pass over one input | best tested; see section 21 |

### How the components interact

The command line and the running Host reach `plugins/` only through
`lenso-engine-authoring`. Writers take the exclusive advisory lock, recover
what a stopped writer left, take a snapshot, let the Host catalog resolve the
candidate and only then change files. Readers (`load_resolved_app`,
`inspect_plugin_root`, runtime resolution) take the shared lock. People edit the
same files with an editor and take no lock. The authority builds its proposals
on snapshots and publishes them through the transaction; the App build resolves
the root, runs the generation engine, whose compilers are child processes, and
publishes a generation; the development loop repeats that on every edit.

### What is hard

* Crashes between any two file operations, during recovery as well.
* Readers and writers in different processes, with an advisory lock that some
  paths do not take, and people who never take it.
* State read under one lock and used under another (proposals; the second lock
  of `publish_instance_configuration`; bundles copied before the lock).
* Caches and current outputs that must not outlive what they were made from.
* Cancellation and time limits that race the end of a child process.
* Edits that arrive while the previous one is being built.

`PROJECT.json` lists each hazard at its line with the properties that cover it.

## 2. Plan

Done, in this order:

1. `AtomicRoot`, `RootTransaction` - the Plugin Root transaction and its readers,
   with `RootTransaction_proofs`.
2. `RootAuthority` - proposals and their publication over an atomic root.
3. `GenerationStore`, `Publication` - generations and `current.json`, with
   theorems in `Artifacts_proofs`.
4. `EngineSession` - plan, execution, compiler cache, refresh and watch, with
   `EngineSession_proofs`.
5. `CompilerProcess` - time limit, cancellation, reaping, the registry, with
   `CompilerProcess_proofs`.
6. `DevLoop` - notifications, debounce, build, replacement of the Host.
7. `PluginDev` - notifications with the polling fallback and the two Plugin
   development sessions that wait for them, with `PluginDev_proofs`.
8. `PluginStore` - Bundles, retained archives and the trash, beside the
   transaction of 1, with `PluginStore_proofs`.
9. `HostPolicy`, `PluginRoot` - what a Host admits, and what the files of a
   Plugin Root say under it, with `HostSamples`.
10. `SignedCatalog` - the checkpoint and the way of a Release to a Plugin Root.
11. `AppOutputs`, `AppInit`, `ContractSync` - what the App commands publish.
12. `PluginBuild`, `BootstrapLock` - Bundles from sources; the locked tools.
13. `Authoring` - 2, 8, 9, 10 and `PluginBuild`, the commands on Plugins and on a
    Plugin Root, with `Authoring_proofs`. `Development` - 6 and 7, the two
    development commands, with `Development_proofs`.

14. `Artifacts` - 3, 11, `BootstrapLock` and a second instance of 1, what the
    commands publish, with `Artifacts_proofs`.

`Authoring`, `Development` and `Artifacts` put components of one kind behind one
question per run. A variable says which of them a behaviour is about; the variables
of the others keep one value, so a suite has the sum and not the product of their
states. They are parameterised by every constant of their components, so that the
theorems are about all values; `MCAuthoring`, `MCDevelopment` and `MCArtifacts` only
give these their samples.

Next:

15. `Discovery` as a function of a source tree, against a declarative reference.
16. `lenso app add`, which reads and writes `lenso.toml` without a lock, and the
    creation of a local workflow.

Abstract specifications: `AtomicRoot` for 1 and 2, and `GenerationStore`
for 3.

Theorems: every safety property that a passing run checks is stated by one; the four
that are left are about liveness. Next come the theorems of 15 and 16.

## 3. RootTransaction

One `Writers` process runs one command after another; `pc` says how far it is.

| Action | Code |
| --- | --- |
| `Inspect` | the snapshot with which `configure_instance` starts, `lib.rs` 293-413 |
| `Lock` | `lock_plugin_root` up to `file.lock()`, `lib.rs` 1492-1505 |
| `NothingToRecover`, `StartRecovery`, `RefuseRecovery` | `recover_plugin_root_transaction`, `ensure_recoverable`, `validate_record` |
| `Stage` | snapshot, `host.resolve`, then `publish_root_files` up to the prepared record |
| `CreateGuard`, `WriteGuard` | the two effects of `create_guard` |
| `BeginWrite`, `FinishWrite`, `Remove` | `apply_record`: `atomic_write`'s temporary file and its rename; `remove_file_if_exists` |
| `CommitRecord`, `Restored` | the second `write_record`; the end of recovery's `apply_record` |
| `VerifyPath`, `VerifyFails` | `verify_record`, path by path |
| `RemoveGuard`, `CleanPublished`, `CleanRecovered` | `remove_guard`, `remove_dir_all` |
| `StartDirect`, `FinishDirect` | commands that change files with no guard: `set_instance_disabled_inner`, the adopted case of `apply_dependency_selections`, and the two removals of `remove_instance_difference`, which are `Remove` steps with a stop possible in between |
| `Decline` | a proposal only, a stale revision, an unresolvable candidate, a failing snapshot |
| `IoError`, `Kill` | any `?`; the process ends and the system drops its lock |
| `OpenShared`, `OpenUnlocked`, `ListRoot`, `ReadFile`, `EndRead`, `AbandonRead` | `lock_plugin_root_shared`, `snapshot_plugin_root`, `scan_plugin_directory` |
| `ManualEdit` | a person, who takes no lock |

`disk` holds the bytes of the paths, `guard` and `staging` the transaction,
`litter` the temporary files of killed processes. A digest is modelled by the
bytes it is of. A record is atomic because it is renamed into place; the paths
of a change are written in any order, which includes the code's.

`AtomicRoot` is what everybody relies on: a mapping from paths to bytes that a
command replaces on all its paths in one step. The refinement mapping `Root`
takes a path of an unresolved transaction as old before the commit record and
as new after it. The single step that maps to an `Update` is the rename of the
committed record; every kill, rollback and repeated recovery is a stutter.

One command is not atomic. `remove_instance_difference` unlinks the file of an
instance and then its marker, with neither guard nor record, so a process that
stops in between leaves a root that no command has resolved, and no recovery knows
of it. `lib.rs` 1-6 speaks of "atomic authoring operations" without that
exception. `AtomicRoot` has the removal as two steps, `BeginRemoval` and an `Update`,
and the variable `half` says that the root is what the first of them has left. It is
the only exception that `RestsResolvable` and `SnapshotResolvable` make, and it ends
with the next change of the root.

### Runs

| Run | Shows | Bounds |
| --- | --- | --- |
| `root_transaction` | the refinement, `AlwaysRecoverable`, `RestsResolvable`, `SnapshotResolvable` | two writers, one of which inspects first, two transaction identities, one reader, two faults, no edits; five paths: two instances that must agree, the marker of one of them, two files of which one may exist |
| `root_edits` | `SettledUnlessEditedLater` with edits at any moment, also while the lock file does not exist yet; `GuardResolved` under fairness | two writers, one of which inspects first, one transaction identity, one reader, two paths of which one may exist, two faults (a publication and its recovery can be stopped), two edits |
| `publication`, part "edited" | `ManualEditSurvives` with edits between commands (in `NothingIsOverwritten`) | one writer, three files of which one is removed, two faults, two edits |
| `torn_guard`, `killed_write`, `unlocked_reader` | the findings of section 20 | |

The bounds: two faults are a stopped publication whose recovery is stopped as
well; a third changes nothing new because recovery starts from the same guard
and record. Two transaction identities let one stopped record lie beside the
next; they and nothing else are exchanged by the symmetry. Two paths that must
agree make every mixture visible as an unresolvable root; the marker of one of them
makes half a removal visible too, because a marker without its file does not
resolve; the pair of dependency files adds creation and removal. `Txns` bounds the
number of records that are never cleaned, so commands end by `Decline` when all are
used. A reader takes one snapshot: what it reads does not depend on those it took
before.

In `root_edits` the read of a path's old bytes and the snapshot before it are
one step; edits that fall between them are lost by the code, which is an
observation of section 20.

`GuardResolved` is about commands that take the lock before they look at the root.
`snapshot_plugin_root` tells the user to "run a configuration command to recover"
(`lib.rs` 506-511), but `configure_instance` inspects the root first (1186), fails
with that very message and recovers nothing. The run has such a command beside
another (`w2` in `InspectFirst`), which therefore makes no progress until the other
one has recovered the root; if everybody only ran `plugins configure`, the property
would be false and the guard would stay. That the message is wrong about this
command is an observation of section 20.

### Fairness

`FairSpec` asks weak fairness of a running command's own steps and of its next
attempt to start. A command is a sequential program that the system schedules,
and someone keeps using the tool; without the second assumption a stopped
transaction may of course stay. A reader that has begun is scheduled, too, and
takes one snapshot: advisory locks are not fair between readers and writers, so
with endless readers no liveness is claimed.

## 4. RootAuthority

A client sees a revision, asks for a proposal, reviews it with no lock held and
publishes it. A command is several steps because its guards are read at
different moments; `holder` is the exclusive lock.

| Action | Code |
| --- | --- |
| `Inspect` | `inspect_plugin_root` |
| `StartProposal`, `LockAndLoad` | `propose_plugin_root_changes`, the lock and `load_host_catalog` |
| `Propose` | `propose_instance_configuration`, `build_root_change_proposal`: candidate, selections that the Host materializes, verdict, digests |
| `Precheck` | `publish_instance_configuration`, which compares under one lock and gives it back |
| `StartPublication`, `Fence`, `Rebuild`, `Write`, `Confirm` | `publish_plugin_root_changes`: the revision, Host and source digests, the rebuilt proposal, the change set, the root read back |
| `StartSelection`, `Select` | `set_instance_enabled_fenced`, `set_instance_disabled_inner` |
| `Refuse`, `Stop` | every bail; a process that stops |
| `ManualEdit`, `ReplaceHost` | a person; another Host build |

The run `root_authority`, part "changes", checks that a change set is written
only onto the root and the sources its proposal was made for
(`PublishedOntoReviewedRoot`), that it resolves under the Host that was reviewed
(`ResolvesUnderReviewedHost`) and that a command that succeeds leaves what its
client accepted (`CommittedIsConfirmed`). Two clients, which a symmetry
exchanges, with one Host change, one edit and one stop are enough for each of the
fences to be the only one that refuses: a comment changes bytes but no revision,
a second Host resolves a different set of roots and settles on other selections.

Publishing a change set is one step here; `RootTransaction` is what implements
it. Edits fall between commands (`RacingEdits = FALSE`), the case with edits at
any moment being `root_edits`; so do Host changes (`RacingHost = FALSE`): a
Host replaced while a proposal is built can give it the digest of one Host and
the verdict of another, which nothing in the code prevents (a hazard without a
property).

## 5. Publication

| Action | Code |
| --- | --- |
| `Start` | `publish` up to the exclusive lock |
| `RefuseRequest` | conflicting paths, budget |
| `Reuse`, `RefuseDamaged` | a target that exists is verified |
| `StartStaging`, `WriteFile`, `RenameGeneration` | the staging directory, each file, the rename to the digest |
| `Persist`, `Succeed` | the rename of `current.json`; the result |
| `IoError`, `Kill` | every `?`; a process that stops |
| `ReadCurrent`, `CompareFile`, `RejectFile`, `EndReading` | a consumer reads `current.json`, then `verify` |
| `Tamper` | somebody changes or removes a file of a generation, at any moment |

A generation is identified by the digest of its files, so the model identifies
it by them. `GenerationStore` is an atomic store of generations with a
selection, in which a generation is selected after it was found whole or made
(`Check`, `Add`, then `Select`; `Forget` when the publisher stops in between).
`ImplementsStore` is the refinement. The run `publication`, part "generations",
has two publishers, three requests for two generations that share a file (one of them
repeated), one refused request, a consumer, two stops and one changed file.

The lock keeps other publishers out and nobody else. What a person changes after
`publish` has verified the directory (`publication.rs` 111) or renamed its own into
place (121), and before it renames `current.json` (126), is selected all the same:
`late` are the generations changed in that window. `NeverSelectsDamaged` says that
what is selected is whole or was changed in it, so that damage done before the
verification, however long ago and by whatever sequence of stops, is never selected;
`ConsumersFindEverything` speaks of undamaged stores. `NamedIsComplete` and `ReturnedIsSelected` are proved and
not run. A
consumer may read `current.json` and then find another one selected, but never
a missing file, because nothing removes a generation.

## 6. EngineSession

| Action | Code |
| --- | --- |
| `StartRefresh`, `StartWatch`, `Poll`, `StopWatch` | `Session::refresh`, `Session::watch` |
| `Invalidate`, `ReplaceEngine` | `invalidate`, `replace_engine` |
| `ReadFile`, `InputTooLarge` | `Snapshot::read`, file by file while people edit |
| `Same` | the snapshot is that of the last success |
| `Plan`, `RefusePlan` | `Engine::plan`: the steps, or what it refuses |
| `CacheHit`, `StartProcess`, `Keep`, `OutputTooLarge`, `SeeCancelled` | one item of `Engine::execute` |
| `Succeed`, `Fault` | the new current output; every `?`, a failing processor |
| `Edit`, `UpgradeTools`, `Cancel` | people, a toolchain that changes, the host's token |

A digest is modelled by what it is of, and an output by the term of everything
its processor was given, so a cached output that differs from a fresh one is
visible: the linker of the instance uses tools it does not declare, and must not
be cached. `Plan` orders the steps as the code does, by the smallest identity
whose dependencies are done. When a plan has several errors the one that is
reported is chosen freely. Names are not validated and `register` is not an
action: a model's `Engines` are sets of registered processors.

`engine_session` checks that the current output belongs to the last successful
input, also after failures and replacements (`CurrentBelongsToInput`); that
outputs equal what their processors make of that input (`OutputsAreFresh`); that
the watch's host knows the current output or the failure that stands
(`HostIsTold`); and that a watch nobody cancels catches up with files that rest
(`WatchCatchesUp`). Two files, two edits, one cancellation or fault, one
replacement and one new toolchain reach each refusal: too much input, output or
generation, a full cache, a cycle, a missing dependency, a rejected content.

Fairness: weak fairness of the session's steps and of the processor that runs.
The loop has no other condition than its sleep, and a compiler returns because
its time is limited (section 7).

## 7. CompilerProcess

| Action | Code |
| --- | --- |
| `Spawn`, `NeverStart` | the process group is spawned, or not |
| `Observe`, `Register` | `CompilerGroup::new` |
| `TryWait`, `Check` | one turn of the polling loop |
| `KillGroup`, `Wait` | the end for a reason |
| `Abandon` | a failing system call; `ChildGuard::drop` |
| `TakeSlot`, `StopGroup`, `Unregister` | `CompilerGroup::drop` |
| `Finish` | output and status |
| `Terminate` | `terminate_active_processes` from the shutdown hook |
| `Cancel`, `TimeUp`, `WriteTooMuch` | why a call ends early |
| `Exit`, `Fork`, `StrangerStarts` | the operating system |

`compiler_process` has two concurrent calls, two pids that are given out again,
helpers in the process group, one stranger and one fault. `NothingIsLeftBehind`:
a call that has returned has no live process in its group.
`NoStrangerIsKilled` relates registry, slot and pid reuse. `CallsReturn` asks weak
fairness of the call and of its deadline only, not of compilers. Which of several
reasons a call reports (`Wait`, `Finish`) is modelled; no property restates it.

Assumptions: helpers stay in the group (one that leaves it is out of the code's
reach); the unix path; a pid is not given out between the reaping in `try_wait`
and the end of the guard (`Reuse = FALSE`; with `TRUE` a stranger can be
signalled); each call has a slot of its own (`SlotOf`), as
each processor has its own `active`.

## 8. DevLoop

`lenso app dev` is one loop (`pc`) around a child process (`build`). A source
root is a version that grows with each edit. The App's directory is two roots: `App`
stands for the projects in it, which a build digests, and `Intent` for `lenso.toml`
and `plugins/`, which it reads in other ways.

| Action | Code |
| --- | --- |
| `StartBuild`, `BuildEnds` | `app build` is spawned; its end and `watch_dependencies` |
| `Discover` | `Intent` is read: `lenso.toml`, which may be invalid, and the copy of `plugins/` (`assemble.rs` 73-75) |
| `DigestApp` | the projects of the App; only with a native candidate does `assemble` go on to `local_host::generate` (133-141) |
| `ReadManifest` | `cargo metadata`, manifest by manifest, which decides what the dependencies are (`local_host.rs` 70-95) |
| `WriteRoots`, `Hash` | `watch-roots.json`; the digests of the dependencies, taken after it (257-260) |
| `Compile` | `cargo build`, which reads the manifests again and may find other dependencies |
| `Check`, `PublishOutput` | the digests of the dependencies, of the App and the selection of a fresh discovery are compared (`assemble.rs` 317-335); the rename |
| `NextPass`, `BuildFails` | from one pass over the roots to the next; whatever Cargo, the file system or the resolution refuses |
| `Drain`, `StartHost`, `Retire` | `stop`, spawn, `remove_dir_all` |
| `ForgetHost` | `try_wait` of a Host that exited |
| `Receive`, `Coalesce`, `Rewatch` | an event, the debounce and its drain, the new watcher |
| `Interrupt`, `DrainLast`, `Leave` | Ctrl-C |
| `Fail` | every `?` |
| `Deliver`, `WatcherError` | the notification thread and `try_send` |
| `Edit`, `HostExits` | people, the Host |

`WatchedEditsAreBuilt` (in `EditsAreBuilt`): a build starts after every edit of a
watched root, with a channel of one place, wherever the loop stands.
`OneHostWithItsFiles` relates Host processes and directories; `HostsGoForward`,
about the way Hosts are replaced and dev ends, is proved and not run.

`BuiltFromOneMoment` says what the comparisons of the code are worth. The App's
projects and the path dependencies that were digested were compiled as they were
together at one moment, and the digests published with the output (`local-sources.json`,
the local inputs) are of that moment, too. With a native candidate that is everything that was compiled,
unless a dependency's manifest was edited between `cargo metadata` and the digest of
that dependency: the digest then has the edit, nothing has the dependency it brings
in, and no later comparison notices. Beyond the property, because the code has nothing
to compare there: `plugins/` is copied once (section 13), the path dependencies of an
App without native Plugins have no digest at all, and a file that is changed and
changed back between two digests leaves none. Versions only grow here.

The App of the run `development` begins to use the library `lib`, as a native Plugin,
in its one edit; `lib` begins to use `sub` in its own; the one edit of `lenso.toml`
makes it invalid. `sub` is also a plugin source that `lenso.toml` declares, so that it
is watched for that reason while it is not a dependency. Each edit can fall into any
pass of a build, between `cargo metadata` and a digest too. `watch-roots.json` may
name `lib` from an earlier session. One fault at any place; a queue of one change, so
that the next one is dropped. `dependency_edits` needs an edit of the App and one of
`lib` only.

Fairness: the loop, the build and the delivery of notifications, by the one thread
that delivers them. Builds end and `stop` has a time limit; edits, faults, Host exits
and Ctrl-C are never owed. Deadlock is not checked because dev ends.

Files a build writes below the App (generated contracts, lock files) would be
edits the loop itself causes; they are written only when they differ, so they
add a rebuild and are not modelled. Lost notifications of the system (an
overflow event has no path and is ignored) are not modelled either.

## 9. PluginDev

`lenso plugin dev --watch` waits in `SourceWatcher::changed` between two builds.
`kind` is the session: "invoke" (`dev.rs`) calls the Plugin once per build,
"serve" (`web_dev.rs`) keeps a Host running.

| Action | Code |
| --- | --- |
| `FirstBaseline`, `Fingerprint` | `SourceWatcher::new` without notifications; `source_fingerprint`, file by file while people edit |
| `Receive`, `Debounce` | `changed` with notifications; `debounce_notifications` |
| `FallBack`, `FallenBack` | the two ends of `use_polling_fallback`, after a failed receive (a rebuild is owed) or a failed debounce (it is not) |
| `Poll`, `Compare` | `changed` when it polls |
| `StartBuild`, `BuildSucceeds`, `BuildFails` | `dev_once`; `DevHost::build`, `spawn` |
| `StopHost`, `HostIsGone`, `Interrupt`, `Close` | `stop`, `child.wait`, Ctrl-C, `wait_for_signal_shutdown` |
| `Fail` | every other `?` |
| `Edit`, `Deliver`, `NotificationsFail`, `LoseNotification`, `HostExits` | people, the notification back end, the Host |

`BaselineIsBuilt`: when the watcher is about to sleep, its fingerprint holds no
edit made after the last build started. It is why `rebuild_pending` exists: the
first fingerprint may already contain an edit whose notification was lost, and
comparing with it would never show that edit. It is proved and not run;
`PluginEditsAreBuilt` (in `EditsAreBuilt`) is the same promise over time, and `ServesTheLastBuild` relates Host, builds and the end of
the session.

`Development` lets the author choose one of the two development commands, with
`MCDevLoop`'s samples in `MCDevelopment`, and the run `development` checks both
models; they share nothing. Two files make
a fingerprint that is taken in two steps; two edits are one that is lost and one
that falls into the fingerprint; two faults are failing notifications and one
more failure, of a fingerprint, a Host or the channel once more.

Fairness: the watcher, the session and the delivery of notifications that are
not lost. Builds end because Cargo does, and `stop` has a time limit. Nothing is
asked of faults, edits, Host exits and Ctrl-C. Without a failure the back end is
assumed to report every edit; after one it may lose any of them.

Left out: notifications about files nobody watches, which only open the debounce
window anew; a `src` directory that is created or replaced after the watcher,
which has no watch of its own then; Ctrl-C while a
build runs, which the terminal sends to Cargo as well and is a failed build.

## 10. PluginStore

`Processes` run `lenso app plugins add | install | update | rollback | remove`.

| Action | Code |
| --- | --- |
| `Add`, `Fetch`, `Rollback`, `RollbackUnavailable` | the commands up to their staging directory, with no lock held |
| `Prepare`, `Refuse` | `prepare_bundle_mutation`, `resolve_bundle_mutation` |
| `AlreadyRetained`, `DifferentBytes`, `StartCopy`, `FinishCopy` | `retain_current_bundle`, `retain_archive` |
| `MakeParent`, `Publish`, `Retire` | `commit_staged_bundle_with` |
| `Remove` | `remove_plugin` |
| `Error`, `PublishFails`, `Kill` | every `?`; a failed rename; a process that stops |

`RootResolves`: `plugins/` makes an App whoever changes it. `NothingIsLost`: a
Bundle that was visible is visible, retained whole or in the trash; the retained
files are copied under their final names, so a copy that is cut short is `Torn`
and must never be taken for the Bundle. It includes `ReportsItsCommit`: success
is reported exactly when `plugins/` changed. Two processes, three commands, one
fault; two versions of one Plugin and one of another that needs the first;
Bundles of one version that differ; an archive that another tool made.

## 11. HostPolicy and PluginRoot

`HostPolicy` is a set of operators: how a Host is lowered from what its author
gives (`Lower`, `Lowerable`, `ValidPolicy`; `LowerLocal`, `WithLocalRoot`), what
it admits (`Admits`, `WithinRule`, `SelectBundle`, `BelongsTo`), which provider
each requirement is bound to (`Candidates`, `Bound`), and whether a root resolves
(`HostResolves`). `PluginRoot` is the files below `plugins/` and the commands on
them; each command is one step, because the lock and the transaction make it so
(sections 3 and 4).

| Action | Code |
| --- | --- |
| `Configure` | `configure_instance`, `candidate_configuration_instances` |
| `SetDisabled` | `set_instance_disabled` |
| `SetSelections`, `PublishChoices` | `apply_dependency_selections`; a reviewed change, `requirement_migrations`, `has_unreviewed_split` |
| `RemoveDifference`, `RemovePlugin` | `remove_instance_difference` (with the failure between its two files), `remove_plugin` |
| `AddResources`, `SwapBundle`, `ReplaceHost` | people; another Host build |

`LoadsWhatItResolved` (in `RootResolves`): after a command the files say exactly
what it resolved. `RunsWhatTheHostAdmits`: whatever people put there and whichever
Host is installed, an App that loads has only releases and configurations the
Host admits. `ChoicesChangeAsAsked`: a saved choice changes its provider only
where a command was asked to, also when a new release splits a requirement.
`HostSamples` has six Hosts - closed, with a requirement that is split, with a
release more, local, local with an adopted Instance, legacy - and two releases of
one Plugin; two commands, one edit, one other Host, one fault. One of the requests
is a reviewed change that names the whole set and leaves a saved choice out: the
choice falls back to the Host, which is what was asked. Other changes leave a
choice they do not name as it is, and `ChoicesChangeAsAsked` tells the two apart.
The expected violation `removed_difference` is section 20's.

## 12. SignedCatalog

The consumer keeps a checkpoint on disk and a snapshot in memory.

| Action | Code |
| --- | --- |
| `Fetch`, `Browse` | verification of an envelope, fresh or for browsing only, against the checkpoint |
| `Select` | `VerifiedSnapshot::select` |
| `Download` | `download_release`, `read_release`: where the URL leads, status, encoding, length, bytes |
| `Install`, `GiveUp` | `prepare_mutation` of the archive; its `Drop` |
| `Tamper`, `SetClock`, `Restart` | somebody at the extracted directory; the clock; a consumer that comes back |

`AcceptedIsOneHistory`, `SelectsFromTheNewest`, `InstalledAsSigned` and
`CheckpointReadsBack` are checked together as `CatalogIsOneHistory`: a revision is
one snapshot, a Release keeps its bytes, a withdrawn Release is not selected from
an older snapshot, what is installed is named by an accepted one, and a consumer
can read its own checkpoint. Envelopes: one Release listed, revoked or left out
in three revisions at two moments, with a wrong manifest or other bytes; another
catalog, a revision of zero, a validity that is too long, no signature.

## 13. AppOutputs

| Action | Code |
| --- | --- |
| `Build`, `Archive`, `Describe`, `Lower` | `app build --source`: Bundles are archived first, what is staged is described and lowered |
| `Prepare`, `Validate`, `CopyAuthority`, `CopyBundle`, `CopyArtifact` | `app prepare` |
| `Plan`, `StartAssembly`, `CopyRoot`, `Digest`, `StartMaking`, `Compile`, `Make`, `InstallHost`, `Resolve`, `Recheck` | `app build`: preset, `assemble`, `convention_build`, the precompiled Host |
| `Publish`, `Stop` | `publish_new_output`; every `?` and every stop |
| `Edit`, `ChangeBack`, `ReplaceHost`, `Meddle` | authors, and people at outputs |

`assemble` copies `plugins/` without the lock of section 3. While somebody writes there
the copy may be whole, of several moments and still an App (`mixed`), or none
(`torn`). Only the last is refused: the copy has to resolve (`assemble.rs` 321), and
the comparisons after that (323-335) are of other inputs. A mixed root that resolves is
published, and `LocalIsOfOneMoment` is about the digested sources of such an output;
of its root it says that it resolves.

`HostIsWhatItDescribes`, `DistributionIsTheBuild` and `LocalIsOfOneMoment` are
checked together with section 14 as `OutputsAreWhole`; `FirstOutputStays` in
`NothingIsOverwritten`. Two sources of three combinations of kinds, of which not
every pair of contents makes an App; two edits, one meddling, two commands of two
processes. `app prepare` reads its input twice, and what it copies is not what it
verified when somebody replaces the input in between: the property excepts it.

## 14. AppInit

`Start`, `PublishControl`, `PublishPlugins`, `Load` are the staged trees, the two
renames and the validation of `lenso app init`; `UndoPlugins`, `UndoControl`,
`UndoDirectory` what it takes back; `Kill` a process that stops; `Fill` somebody
who makes `plugins/` meanwhile. `InitIsWhole`: who reports an App has made both
directories, and no half of one stays unless an init was killed. Two processes,
four runs, one kill. A rename onto a directory succeeds only while it is empty,
which is why the removal of `.lenso/` takes two steps.

## 15. ContractSync

| Action | Code |
| --- | --- |
| `Lock`, `Digest`, `AllDigested` | `synchronize`: the contracts, `contracts.lock`, the digests |
| `Stage`, `AllStaged`, `Refuse` | extraction, `lint_compatibility`, projections in the staging directory |
| `CompareInput`, `InputChanged` | the second reading of the inputs |
| `Backup`, `Install`, `InstallFails`, `Restore`, `RestoreFails`, `Restored` | the installation and its undoing |
| `Record`, `RecordFails`, `Synchronized` | the baselines |
| `Kill`, `Edit` | a process that stops; people |

`GeneratedTogether`: a success leaves files and baselines of one moment of the
sources, a failed write leaves what was there. `ChangesCompatibly`: from one
success to the next a contract changes compatibly, however many failed in
between. Both are `ContractsStayInStep`. Three contracts (a Rust source, a
projection of it in another package, a descriptor written by hand), three sets
of contracts a build may ask for, two edits, one fault. A file whose writing was
broken off may be taken for an authored one or left alone, and both are excepted. Each
contract names the contract it is generated from, and one with a source is generated
from itself: two with a source for one descriptor are refused ("multiple owners").

## 16. PluginBuild

`Plan` lists, for each implementation that a command builds by itself, the steps
this takes; both Rust implementations of one package are one such list, and
declared implementations are built one list after the other (`steps`, `later`).
`Build`, `Describe`, `Typecheck`, `Bundle`, `Assemble` are these steps, `Archive`,
`Persist`, `Reopen` the rest of `plugin pack`, `Invoke` of `plugin dev`. Cargo's
target directory is shared by all commands. `PackedAsStated`: a
packed Bundle states what each of its implementations exposes; `RunsAsStated`:
what dev invokes has the Capability of its Bundle (both in `BundlesAreAsStated`).
Seven projects, two processes with two commands, two edits that change the
Capability, the requirements and the release. A Process that another command
builds anew between its description and its copy is excepted (`mixed`): nothing
in the code prevents it, an observation of section 20.

## 17. BootstrapLock

| Action | Code |
| --- | --- |
| `BeginLock`, `Enter`, `Leave` | `BootstrapLock::resolve`, `compose`: depth first, each workflow once |
| `Discover`, `Choose`, `Capture`, `Save` | the candidates, the selected, `Proof::capture`, `save` |
| `Load`, `Verify` | `load`, `Proof::verify` |
| `Open`, `ReadManifest`, `Ready` | `processors`, `load_locked` |
| `StartStep`, `Spawn`, `UseArtifact`, `Finish`, `Accept` | `ProcessPlugin::process` and the tool it runs |
| `StepFails`, `Fail`, `Edit` | every bail; people |

`LoadedIsCurrent` compares a lock that loaded with a declarative reading of the
files as they were when the lock was read (`Composed`, the least set of workflows
that is closed under presets, without the order of the recursion): the same workflows, sources and tools, with proofs of just these files.
`AcceptedIsLocked`: outputs are accepted only from a run whose manifest, program
and artifacts were those of the lock. A digest is the version it is of, and people
never return to an earlier version: a file that is changed for the length of a run
and changed back is beyond the proofs. Two workflows, two tools, two other files,
three versions that introduce a cycle, a second name of a directory, a tool that
takes over an identity, and an artifact more; two edits; lock, load and lock again
with one process, because locks and files are only replaced as wholes.

## 18. The suites

`Authoring` (`MCAuthoring`, run `root_authority`) and `Artifacts` (`MCArtifacts`, run
`publication`) check one component per behaviour, chosen by `part`; `Development`
(`MCDevelopment`, run `development`) chooses by `command`. An invariant of one
component is guarded by its `part`. `Rests` lets a component whose bounded commands
are spent stutter, so that deadlock stays checked for the others. `AuthoringInit`
lets the components that are not chosen begin anywhere, as the theorems have it;
`MCInit` fixes one of their initial states for TLC, which is enough because they
do not take steps. `Clients` and `Processes` are exchanged by the symmetry of
`MCAuthoring`, where no property is about liveness.

The constants of `Authoring` have named assumptions, which TLC evaluates on the
samples: a digest is of one Bundle (`DigestAssumption`); files, requests and
Bundles are of their types and the value for nothing is none of them
(`DifferencesAssumption`, `StoreAssumption`, `CatalogAssumption`); what a Host lets
an App select is among what is requested (`SelectableAssumption`); declared
implementations are a list (`ProjectsAssumption`). So have those of `Artifacts`: the
values for nothing and for somebody's own work are none of the others, and the first
contents of the sources make an App (`OutputsAssumption`, `WorkspaceAssumption`); a
manifest that is not refused names workflows, directories and files that there can
be (`ToolsAssumption`); contracts are generated from contracts that have a description
(`ContractsAssumption`); and the Plugin Root that is edited is one that `RootTransaction`
speaks of (`EditedAssumption`).

## 19. Proofs

Every theorem is about the specification itself, for every value of the constants
that satisfies the named assumptions of its modules. Where one needs more - that
nobody edits by hand while a command runs, that a pid is not given out again too
early - the hypothesis is in its statement and named here. Each invariant that
is not inductive as it stands is joined with what makes it so; the conjuncts are
named after what they speak of. A preservation lemma has one step per action, and
a lemma about bystanders takes every process that does not move.

| Module | Theorems | Hypotheses |
| --- | --- | --- |
| `RootTransaction_proofs` | `TypeCorrect`, `SettledCorrect` | `RootAssumptions`, as in the next three rows |
| | `RecoveryNeverRefused`, `EditsSurvive` | no edit while a command runs |
| | `RootIsAtomic`, `RestingRootResolves` | the same |
| | `SnapshotsAreRoots` | the same; the lock file exists |
| `Authoring_proofs` | `AuthorityTypes`, `AuthoringTypesHold`, `WhatIsWrittenResolves`, `InstalledBundlesAreKept`, `AppsRunWhatIsAdmitted`, `ChoicesAreAsked`, `BundlesStateTheirContract`, `OneCatalogHistory` | |
| | `CommitsAreConfirmed`, `PublishesOntoReviewed`, `ResolvesUnderPresentHost`, `CommandsKeepTheRootWhole` | `NothingRaces` |
| `Artifacts_proofs` | all | |
| `EngineSession_proofs` | `SessionTypes`, `CurrentFromItsInput`, `OutputsOfThisInput`, `WatchTells` | |
| `CompilerProcess_proofs` | `ProcessTypes` | |
| | `CallsCleanUp`, `StrangersAreSafe` | `Reuse = FALSE`, `SlotsAreOwn` |
| `Development_proofs` | `DevelopmentTypes`, `OneHost`, `OneMoment`, `AppDevIsSafe`, `OneHostOfTheLastBuild` | |

### RootTransaction_proofs

What is assumed of the constants is `RootAssumptions`, a hypothesis of each theorem:
two modules use them with constants of their own. `MCRootTransaction` and `Artifacts`
state it of theirs.

* `StructureCorrect`, `TypeCorrect`: `TypeOK` is not inductive, because what
  `WriteGuard` writes is the writer's `txn`. `StructureInv` adds `WriterInv`
  (who holds the lock; where a writer is determines guard, record, plan and the
  paths still to do) and `RecordInv` (old and new bytes for the same paths; a
  guard with an identity names a record). It does not mention `disk`, so it
  holds with people editing at any moment.
* `RecoveryNeverRefused` and `EditsSurvive`, when people edit only while no
  command runs: `CommandInv` adds `DiskInv`, which says of each path of a
  running transaction whether it holds its old or its new bytes. A recovering
  writer has seen that all its paths hold one or the other.
* `RootIsAtomic`: the transaction implements `AtomicRoot`. The root that the
  mapping shows is the one on disk, or, behind a guard, the one that recovery will
  bring back; it changes at the rename that removes the guard and in no other step
  of a command. `PublishInv` adds what the command means to write
  (`IntentInv`). A change with no guard is of one path, or it is the removal of an
  instance, which is two steps of `AtomicRoot` (`DirectAssumption`, a part of
  `RootAssumptions`, has just the two kinds of the code): `IntentInv` says that what
  is left of it to do still leads to a root the Host Catalog resolves.
* `RestingRootResolves`: while nobody edits, the root between commands is one the
  Host Catalog has resolved (`RootInv`): each command resolves under the lock what
  it writes. The exception is `half`, the root that a removal stopped between its two
  files has left, until the root is changed again.
* `SnapshotsAreRoots`: what a reader returns was the root at one moment, and
  one the Host Catalog has resolved unless it is such a half. `SharedInv`
  says that a reader holds the shared lock from before it lists the root, and that
  what it has read is still there. It asks that the lock file exists; the first
  reader of a root finds none, goes unlocked, and is the finding of the run
  `unlocked_reader`.

### Authoring_proofs

The theorems are about `Authoring`, in which any of five kinds of command may run;
each follows from an invariant of its kind, because the others leave its
variables alone.

* Reviewed changes (`AuthorityTypes` for any edits; the other four under
  `NothingRaces`: people and installers of Hosts wait until no command runs, as
  the run has it). `ProgressInv`: who reviews has a proposal and has read the root.
  `LockInv`: one command has the lock, and the Host it loaded is the present one.
  `Fenced`: what a command has established under the lock - the base, the files it
  read, the resolution - stays true until it writes, and what it has written is
  the candidate. None of the properties mentions the lock, and none is inductive
  without it.
* `CommandsKeepTheRootWhole`: `RootAuthority` implements `AtomicRoot`, with the change
  sets that clients ask for, their dependency selections filled in by a Host, and the
  roots that some Host resolves. `PublishedInv` follows a change set from the request
  through the proposal to the write. `RootIsAtomic` is the other half: one step there
  is what a `RootTransaction` makes of its guard, record and renames, so the write that
  is a single step here may be. The two are not composed in one specification. No run
  states this refinement; with edits or Host changes that race, it is false.
* The signed catalog. `HistoryInv`: everything accepted is of one history of which
  the checkpoint is the newest revision, and names the identity of every Release
  that was ever accepted. `SelectedInv`: what is being installed was accepted, and
  its archive has the manifest that was signed. The snapshot in memory says nothing
  by itself, and a consumer that restarts has the checkpoint only; that these agree
  makes "a withdrawn Release does not come back" inductive.
* The files of a Plugin Root. `DifferencesInv`: types, and that the files read back
  as the Root that the last command resolved. `ReadsBack` is the reason: whatever a
  command writes is a Root, and a Root is read as itself. `AdmittedRuns` needs no
  invariant beyond that: a person may leave any files, and whatever loads was
  resolved. `AllChangeAsAsked` takes each command that writes choices.
* Bundles: the theorems of `PluginStore_proofs`, through an instance of that module
  with the same constants (`SameStore`).
* Plugin projects. `ProjectInv` follows one command. `WellFormed` is about the steps
  it has left: a Process describes itself in the step before it is bundled, and a
  project that is not composite bundles once for each of its implementations.
  `DescribedInv`: the Process about to be bundled is the one that described itself,
  or the command is marked. `BundlesInv`: each Bundle made states what its code
  exposes. `ResultInv` carries this through `Promoted` into the Contract of all of
  them. The plan is a sequence of sequences of steps because what a concatenation
  over all of them does is out of the prover's reach; that each part is well formed
  is not.

### PluginStore_proofs

`StoreIsKept`, and from it `StoreTypesHold`, `AppAlwaysResolves`, `BundlesAreKept` and
`ReportsAreTrue`, when the values that stand for nothing, for a torn and for a
damaged file are none of the others (`NamesApart`; an assumption of `Authoring`).
`StoreInv` joins the property with, per command: `JobInv` (what it knows of its own
work), `PreparedInv` (what was resolved under the lock still resolves), `RetainInv`
(a copy fills a place that was empty, and a Bundle is replaced only when it is in
the store, whole), `ParentInv` and `LandedInv`. `RetainInv` is where a kill in the
middle of a copy matters: the place then holds `Torn`, which nobody takes for the
Bundle. Two overlapping cases of `AfterRetain`, of which TLC had always taken the
first, were found here and are now disjoint.

### Artifacts_proofs

The theorems are about any behaviour of the suite, or of `Publication` by itself, with
no assumption on what is edited, changed or stopped. A kind that is not chosen does not
move (`OneKindSteps`), so that the invariants of all kinds hold side by side;
`ArtifactTypes` collects their types.

Publication:

* `PublicationTypes`, `NamedGenerationsComplete`, `ConsumersServed`: `StoreInv`
  joins the types, `Complete` (a directory has just its files, or lacks one of
  them because somebody changed it), `PublisherInv` (only the holder of the
  lock is inside; past the verification or the rename its target is whole or was
  changed later) and `ConsumerInv` (while nothing is changed, `current.json` and what
  a consumer has read from it name whole generations). Completeness alone says nothing of
  what `current.json` may become: that needs the publisher's position, and the
  lock to keep it while another publisher works.
* `ReturnsWhatIsSelected`, `DamagedNeverSelected`: action properties from the
  same invariant. The publisher verified the directory under the lock; what somebody
  changed after that is in `late`, and the statements say so, because the code selects
  and returns it.
* `StoreImplemented`: every step is a step of `GenerationStore` or a stutter. A
  verification is a `Check` and the rename of `current.json` a `Select`: in between
  the generation may be damaged, and there is no atomic step that the two implement.

Outputs of builds (`OutputsWhole`, `FirstOutput`):

* `AppsInv` follows each process. `HostJob`: what is staged for a Host output
  is described as it was staged, and resolves before it is published. `DistributionJob`: what was copied
  of a build that nobody meddled with is the build's. `LocalJob` is the substance of
  the third property: a file made from a source is of the content that was digested,
  or the source has moved on since the digest, which the comparison at the end
  notices; and there was a moment that no digest is later than and that every source
  compared so far still agrees with. This rests on the order of contents: until
  somebody changes a source back, each edit is later than everything that was read
  (`MomentsInv`). Afterwards the property asks for nothing, because the digests of
  the code cannot tell.
* A new workspace. `OwnerInv` says what a process at each step has put in place and
  will take back; `PlacedInv`, while no init was killed, that each directory that is
  there has an owner on its way or was reported. `InitIsWhole` is about processes that
  returned, and follows from the two.

The lock of local tools (`ToolsLocked`):

* The composition of workflows is a computation of many steps over data that change
  while it runs; no recursive definition is reasoned about. `StackInv` is the
  invariant of a depth-first walk: the stack is a path of presets from the workflow
  asked for, with no workflow twice, and the presets of an entry before the one it has
  come to are left. `ComposingJob`: what is visited is on the stack or left, what is
  left has its presets left, and every set of workflows that is closed under presets
  and holds the first one holds all that is visited (`Needed`). When the stack is
  empty these make the workflows that were left the least closed set
  (`ComposedOfTop`), which is what the declarative reading (`Composed`) says.
* `CandidateInv`, `FoundInv` and `CapturingJob` take the roots to tools, and the
  tools to proofs: what a selected tool consists of is proved or still to be done, and
  unless the lock is marked (`slipped`) the proof of a manifest is of the version
  that was read. A lock that is saved is `LockWhole`.
* `LockFits`: every proof is of a version that the file has had. Versions only grow,
  so a file that equals its proof when it is compared has equalled it since it was
  captured; this is why `LoadedInv` can speak of `began`, the files as they were when
  the lock was read, although each of them is compared later than that, and why the
  comparisons after a run (`RunInv`) say what the run had used before them.

Generated files (`ContractsSynchronized`):

* `SyncLock`: who works has the lock, and nobody else has read anything. So `found`,
  the files when the lock was taken, are the files until the first one is installed.
* `StagedInv` is the argument for one moment. The version a contract is staged from
  was read between the digest of its package and the comparison (`Between`), and
  versions only grow: one that compares equal was that version all the time. While
  the comparisons go on there is a moment that no digest is later than and that agrees
  with every package compared so far; an edit, which adds a moment, changes none of
  them. A contract that projects the descriptor of one that was not asked for
  (`Extracted`) is of the descriptor that was found instead, and needs no moment.
* `StagedAlike`: two contracts that use one description are staged alike, so that the
  order in which the baselines are written does not matter.
* `InstallInv`: each file that may change is as it was found or as it was staged, by
  whether it is still to be done, on the way there and on the way back. It gives both
  halves of `GeneratedTogether`.
* `CompatInv`: what a contract may be compared with next - its baseline, or without
  one the descriptor that was extracted - and what is staged may follow what was
  accepted last. `ChangesCompatibly` is about successes, and says nothing of the
  failures between them, which leave new files behind old baselines or remove a
  baseline; this is what has to survive these.

Edits beside a change of several files (`NothingOverwritten`): `EditedBehaves` takes a
behaviour of the suite to one of `RootTransaction`, whose theorems `EditsSurvive` and
`TypeCorrect` come through an instance.

### EngineSession_proofs

`SessionInv` follows an execution. `OutputsInv`: the outputs so far are those of the
planned steps that have run, each made after all it depends on (`MadeBy`), from the
snapshot of this execution. `CacheInv`: an entry is what its key asks for, of a
processor that declares all it uses; without that an output from the cache could
be of other tools. `IdleInv`: a failed or cancelled execution leaves nothing behind.
`CurrentFromItsInput`, `OutputsOfThisInput` and `WatchTells` (with `ToldInv`) follow.
`StepsFindTheirInputs`: a plan that `PlanErrors` accepts never reads an output that
is not there, and one of its steps can always run; the least identity among the
steps left is such a step, by well-founded induction on identities, which
`PlansAssumption` makes numbers. `CacheStaysBounded` is about the cache's limits.
Both are proved and not run.

### CompilerProcess_proofs

`OwnerInv`: while a call has its compiler's pid registered, that pid is its
compiler's. `RegistryInv` and `SlotInv` say the same of the registry and of the slot
that shutdown reads. `LiveInv`: whatever lives and is not a stranger belongs to a
call that has still to stop it. Together with the types these are `ProcessInv`, from
which `CallsCleanUp` and `StrangersAreSafe` follow. They need that a pid is not given
out between its reaping and the end of its guard (`Reuse = FALSE`; with `TRUE`, TLC
finds a stranger that is signalled) and that each call has a slot of its own
(`SlotsAreOwn`).

### Development_proofs

* `OneHost`, `HostsOnlyForward`: `LoopInv` joins `BuildInv` (the child works only
  while the loop waits for it; the loop replaces only after a success),
  `GenerationInv` (the generation just built is on disk and newer than the current
  one) and `HostInv` (the only Host is the one the loop holds, and it is the current
  one except between spawn and `remove_dir_all`). `alive \subseteq outputs` alone is
  not inductive: `Retire` removes a directory, and only `GenerationInv` says it is
  another one.
* `OneMoment`: `BuiltFromOneMoment`. `Moment` is about a build that is under way:
  there is a state of the sources, after the last digest and before the first
  compilation, that every digest precedes and every compiled input follows; a path
  that compares equal did not change in between, because a version only grows.
  `past`, the states that there were, is the history the property itself speaks of.
  The second half is about what the digests leave out. `ListingInv`: what
  `cargo metadata` has still to read contains every dependency of what it has read.
  `ClosedInv`: so the list is closed under the manifests as they were read, and what
  `cargo build` reaches leaves it only through a manifest that names another
  dependency when it is compiled. When a digest is of the manifest that was read and
  the comparisons succeed, there is no such manifest.
* `DevelopmentTypes`, `AppDevIsSafe`, `OneHostOfTheLastBuild`: `EitherCommand` takes a
  behaviour of `Development` to one of `DevLoop` and to one of `PluginDev`, of which
  one does not move; the theorems of `PluginDev_proofs` come through an instance.

### PluginDev_proofs

`NothingIsSwallowed`, `OnlyTheLastBuild`, `SessionTypesHold`, for all files, edits and
faults: `SessionInv` follows what a fingerprint becomes. One that will become a
baseline with no rebuild to follow (`BaselineIsBuilt` at the top of the loop) is
bounded by `tried`; while a fingerprint is taken it is bounded by the versions on
disk, and the build that a change leads to raises `tried` to these. The Host's
part says where in the loop there may be one.

### What proving changed

* `ChoicesChangeAsAsked` held only for the requests the samples had: a request that
  names a whole set and leaves a saved choice out gives that choice back to the
  Host. The property now says what such a request asks for, and the samples have one.
* `AfterRetain`, above.
* `Composed` was a recursion of as many levels as the code admits; a lock that is
  deeper is refused, so it is now the least closed set itself.
* `BootstrapLock` and `ContractSync` counted edits by a sum over the versions of all
  files; they count them in a variable.
* `ContractSync` is of one moment only because every contract with a source is
  generated from itself; the configuration had that, and the assumption now says it.
* `PluginBuild` listed the steps of a command as one sequence, flattened; it now
  lists them per implementation.

### Only model-checked

Liveness (`GuardResolved`, `WatchCatchesUp`, `CallsReturn`, `EditsAreBuilt`), which
the prover cannot reach. The violations of section 20 are counterexamples. The
symmetry that some runs use is TLC's; the theorems do not need it.

## 20. Findings

Each is a run whose property is violated; `PROJECT.json` quotes the text that
the code contradicts.

* A stop between creating and writing the guard leaves a root that no command
  recovers (`torn_guard`).
* A kill between writing and renaming a temporary file leaves a root that no
  command reads (`killed_write`).
* The first command of a root races an unlocked reader (`unlocked_reader`).
* Removing the difference of an Instance that has resources of its own succeeds
  and leaves a root that no later command reads (`removed_difference`).
* An edit of a path dependency during the first build that uses it is never
  built (`dependency_edits`).

Observations that no text of the repository contradicts; where a property would
be refuted by one, the property names it as an exception:

* `plugins configure` inspects the root before it locks it, and fails on a guard with
  the message that a configuration command recovers it (`lib.rs` 506-511, 1186):
  section 3. It has no run because `GuardResolved` leaves those commands out and
  the other promise of the message is what `torn_guard` refutes.
* A stop between the two removals of `remove_instance_difference` leaves a root that
  nobody resolved and no guard (section 3); `lib.rs` 1-6 calls every operation of
  the module atomic.
* An edit between the read of a path's old bytes and its rename is lost; a Host
  replaced while a proposal is built gives it two Hosts (a hazard).
* A generation that is damaged between its verification and the rename of
  `current.json` is selected (`publication.rs` 111-126, section 5).
* `app build` publishes a `plugins/` of several moments when it resolves
  (`assemble.rs` 73-75 and 321, section 13).
* A manifest that is edited between `cargo metadata` and its digest can bring in a
  dependency that is neither compared nor watched, and the path dependencies of an
  App without native Plugins have no digest (`local_host.rs` 70-95 and 257-260,
  `assemble.rs` 133-141, section 8).
* The development loop swallows a Ctrl-C that arrives during the debounce or
  while a Host is drained.
* `compose` and `resolve` read a manifest first and capture its proof later
  (`bootstrap.rs` 111-130 and 187-207): an edit in between gives a lock that
  loads, but is not of what it proves (`slipped`), and a run may then use an
  artifact that is not proved. `load` accepts the lock of another workflow that
  has the one that was asked for as a preset, although its message is about "a
  different workflow".
* `plugin pack` and `plugin dev` in one project share executables: a Process can
  be replaced between its description and its copy. Two packs that found the
  output free replace one another's Bundle, and the first then fails when it
  reopens it. A Bun program is compiled from sources later than those that were
  type-checked. A Cargo manifest whose `lenso-cli` runtime is "bun" ends `plugin
  check` in `unreachable!` (`plugin.rs` 599).
* A torn projection is left alone or taken for an authored file by the next
  generation of contracts.
* Discovery stops at a Plugin's directory, but `plugin_sources` that name a
  directory inside of one register it all the same, and its depth limit depends
  on the order of the sources.
* `lenso app add` reads and writes `lenso.toml` without a lock: of two at a time
  one is lost.

## 21. Not modelled

Everything marked so in `PROJECT.json`, for the reason given there. Text
generation, discovery of source trees, parsing of archives and documents, and the
printing of the command line are sequential passes over one input with no state
between calls: tests reach them well, and a model would repeat the code. The
scaffolds of `plugin new` and of contracts stage a tree and rename it, as section
13 has it. The Wasm processor is one call into a host that always shuts down;
the binaries parse arguments. Cryptography is taken as given. Power loss is not
modelled: which directory entries survive it is decided by the file system.
