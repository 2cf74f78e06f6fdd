---------------------------- MODULE PluginStore ----------------------------
(***************************************************************************)
(* `lenso app plugins add | install | update | rollback | remove`: the     *)
(* Plugin Bundles under plugins/, the retained archives under              *)
(* .lenso/plugin-store and the trash, as several processes change them.    *)
(*                                                                         *)
(* A command copies its Bundle to a staging directory of its own, takes    *)
(* the authoring lock, verifies the copy and resolves the App it would     *)
(* make, retains archives (fs::copy: a copy that is cut short leaves a     *)
(* torn file) and commits with one rename.  A process may be killed or get *)
(* an I/O error at each step; the lock goes with the process.              *)
(***************************************************************************)
EXTENDS Naturals, FiniteSets

CONSTANTS
  Processes,
  Plugins,
  Versions,
  Builds,       \* what the bytes of two Bundles of one version may differ in
  Unmade,       \* Bundles of these that nobody has made
  Foreign,      \* Bundles whose archive, made again, is not the published one
  Resolvable,   \* the choices of a version per Plugin that make an App
  MaxCommands,
  MaxFaults,
  None,
  Torn,         \* a file whose copy was cut short
  Damaged       \* a source that was edited while it was copied

Bundles == [plugin: Plugins, version: Versions, build: Builds] \ Unmade
Archives == [bundle: Bundles, made: {"published", "again"}]

VARIABLES
  visible,    \* plugins/<id>/bundle of each Plugin
  directory,  \* the Plugins that have a directory under plugins/
  store,      \* .lenso/plugin-store/<id>/<version>.lenso-plugin
  trash,      \* .lenso/trash, by the Bundles in it
  lock,       \* who holds .lenso/authoring.lock
  pc,
  job,        \* the command of a process
  staged,     \* its staging directory
  result,     \* what its last command reported
  landed,     \* whether its last command changed plugins/
  held,       \* every Bundle that was ever visible
  commands,
  faults

rootVars == <<visible, directory, trash, held>>
vars == <<visible, directory, store, trash, lock, pc, job, staged, result, landed,
          held, commands, faults>>

Ops == {"add", "install", "update", "rollback", "remove"}
Idle == [op |-> "add", plugin |-> None, version |-> None, archive |-> None, made |-> FALSE]

TypeOK ==
  /\ visible \in [Plugins -> Bundles \union {None}]
  /\ \A q \in Plugins: visible[q] # None => visible[q].plugin = q
  /\ {q \in Plugins: visible[q] # None} \subseteq directory /\ directory \subseteq Plugins
  /\ store \in [Plugins \X Versions -> Archives \union {None, Torn}]
  /\ trash \subseteq Bundles /\ held \subseteq Bundles
  /\ lock \in Processes \union {None}
  /\ pc \in [Processes -> {"idle", "staged", "current", "copying current", "new",
                           "copying new", "parent", "publish", "retire"}]
  /\ \A p \in Processes: pc[p] \notin {"idle", "staged"} <=> lock = p
  /\ job \in [Processes -> [op: Ops, plugin: Plugins \union {None},
                            version: Versions \union {None}, archive: Archives \union {None},
                            made: BOOLEAN]]
  /\ staged \in [Processes -> Bundles \union {None, Damaged}]
  /\ result \in [Processes -> {None, "done", "failed", "killed"}]
  /\ landed \in [Processes -> BOOLEAN]
  /\ commands \in 0..MaxCommands /\ faults \in 0..MaxFaults

\* The version of each Plugin, which is all that resolution tells apart.
Choice(bundles) == [q \in Plugins |-> IF bundles[q] = None THEN None ELSE bundles[q].version]
BundlesResolve(bundles) == Choice(bundles) \in Resolvable

\* archive_bundle: regular files in name order with a constant time, hence
\* the published bytes, unless another tool made the published archive.
Again(b) == [bundle |-> b, made |-> IF b \in Foreign THEN "again" ELSE "published"]
Published(b) == [bundle |-> b, made |-> "published"]

Init ==
  /\ visible \in [Plugins -> Bundles \union {None}]
  /\ \A q \in Plugins: visible[q] # None => visible[q].plugin = q
  /\ BundlesResolve(visible)
  /\ directory \in SUBSET Plugins
  /\ \A q \in Plugins: visible[q] # None => q \in directory
  /\ store = [at \in Plugins \X Versions |-> None]
  /\ trash = {} /\ lock = None
  /\ pc = [p \in Processes |-> "idle"] /\ job = [p \in Processes |-> Idle]
  /\ staged = [p \in Processes |-> None] /\ result = [p \in Processes |-> None]
  /\ landed = [p \in Processes |-> FALSE]
  /\ held = {visible[q]: q \in Plugins} \ {None}
  /\ commands = 0 /\ faults = 0

-----------------------------------------------------------------------------
(* How a command ends. Leaving a scope drops the staging directory and the  *)
(* lock; a process that is killed loses only the lock, and what it left in  *)
(* a staging directory no one reads.                                        *)

Ends(p, outcome) ==
  /\ pc' = [pc EXCEPT ![p] = "idle"]
  /\ job' = [job EXCEPT ![p] = Idle]
  /\ staged' = [staged EXCEPT ![p] = None]
  /\ result' = [result EXCEPT ![p] = outcome]
  /\ lock' = IF lock = p THEN None ELSE lock

Goes(p, to) ==
  /\ pc' = [pc EXCEPT ![p] = to]
  /\ UNCHANGED <<lock, job, staged, result>>

(* The start of a command, up to the staging directory: nothing is locked.  *)

Begins(p, op, plugin, version) ==
  /\ pc[p] = "idle" /\ commands < MaxCommands
  /\ commands' = commands + 1
  /\ job' = [job EXCEPT ![p] = [op |-> op, plugin |-> plugin, version |-> version,
                                archive |-> None, made |-> FALSE]]
  /\ result' = [result EXCEPT ![p] = None]
  /\ landed' = [landed EXCEPT ![p] = FALSE]

Stages(p, copy) ==
  /\ pc' = [pc EXCEPT ![p] = "staged"]
  /\ staged' = [staged EXCEPT ![p] = copy]
  /\ UNCHANGED <<rootVars, store, lock, faults>>

\* `plugins add`: a Bundle of the author's, which an editor may be changing.
Add(p) ==
  \E copy \in Bundles \union {Damaged}:
    /\ Begins(p, "add", None, None)
    /\ Stages(p, copy)

\* `plugins install` and `update`: the catalog lists one Release of this
\* identity; the archive has the digest it names, and may hold another Bundle.
Fetch(p, op) ==
  \E release, content \in Bundles:
    /\ pc[p] = "idle" /\ commands < MaxCommands
    /\ commands' = commands + 1
    /\ job' = [job EXCEPT ![p] = [op |-> op, plugin |-> release.plugin,
                 version |-> release.version, archive |-> Published(release),
                 made |-> FALSE]]
    /\ result' = [result EXCEPT ![p] = None]
    /\ landed' = [landed EXCEPT ![p] = FALSE]
    /\ content.plugin = release.plugin
    /\ Stages(p, content)

\* `plugins rollback`: the retained archive is extracted before the lock is
\* taken, so that another process may be writing it.
Rollback(p) ==
  \E q \in Plugins, v \in Versions:
    /\ Begins(p, "rollback", q, v)
    /\ store[q, v] \notin {None, Torn}
    /\ Stages(p, store[q, v].bundle)

RollbackUnavailable(p) ==
  \E q \in Plugins, v \in Versions:
    /\ pc[p] = "idle" /\ commands < MaxCommands
    /\ store[q, v] \in {None, Torn}
    /\ commands' = commands + 1
    /\ landed' = [landed EXCEPT ![p] = FALSE]
    /\ Ends(p, "failed")
    /\ UNCHANGED <<rootVars, store, faults>>

-----------------------------------------------------------------------------
(* prepare_bundle_mutation, under the lock from here to the commit.         *)

\* Mutant: a Bundle that replaces another is taken to fit as that one did.
AdmissibleAlone(op, b) ==
  /\ (op \in {"add", "install"}) <=> (visible[b.plugin] = None)
  /\ op \in {"update", "rollback"} \/ BundlesResolve([visible EXCEPT ![b.plugin] = b])

\* resolve_bundle_mutation: an added Bundle is the first of its Plugin, any
\* other replaces one, and the App with it resolves.
Admissible(op, b) ==
  /\ (op \in {"add", "install"}) <=> (visible[b.plugin] = None)
  /\ BundlesResolve([visible EXCEPT ![b.plugin] = b])

\* The Bundle is the one the command is about: what the catalog announced, or
\* the Release that was asked for.
Expected(j, b) ==
  CASE j.op = "add" -> TRUE
    [] j.op = "rollback" -> b.plugin = j.plugin /\ b.version = j.version
    [] OTHER -> b = j.archive.bundle

AfterPrepare(op) == CASE op = "add" -> "parent"
                      [] op = "install" -> "new"
                      [] OTHER -> "current"

Prepare(p) ==
  /\ pc[p] = "staged" /\ lock = None
  /\ staged[p] # Damaged
  /\ Admissible(job[p].op, staged[p]) /\ Expected(job[p], staged[p])
  /\ lock' = p
  /\ pc' = [pc EXCEPT ![p] = AfterPrepare(job[p].op)]
  /\ UNCHANGED <<rootVars, store, job, staged, result, landed, commands, faults>>

Refuse(p) ==
  /\ pc[p] = "staged" /\ lock = None
  /\ \/ staged[p] = Damaged
     \/ staged[p] # Damaged /\ ~Admissible(job[p].op, staged[p])
     \/ staged[p] # Damaged /\ ~Expected(job[p], staged[p])
  /\ Ends(p, "failed")
  /\ UNCHANGED <<rootVars, store, landed, commands, faults>>

-----------------------------------------------------------------------------
(* retain_current_bundle and retain_archive. A retained file is never       *)
(* replaced: it is equal to the new one, or the command fails.              *)

Retained(p) == IF pc[p] \in {"current", "copying current"}
               THEN Again(visible[staged[p].plugin])
               ELSE job[p].archive
Place(p) == <<Retained(p).bundle.plugin, Retained(p).bundle.version>>
AfterRetain(p) == CASE pc[p] \in {"new", "copying new"} /\ job[p].op = "install" -> "parent"
                    [] pc[p] \in {"current", "copying current"} /\ job[p].op = "update" -> "new"
                    [] OTHER -> "publish"

\* Mutant: a file of the name is taken for the archive.
RetainedUnread(p) ==
  /\ pc[p] \in {"current", "new"}
  /\ store[Place(p)] # None
  /\ Goes(p, AfterRetain(p))
  /\ UNCHANGED <<rootVars, store, landed, commands, faults>>

AlreadyRetained(p) ==
  /\ pc[p] \in {"current", "new"}
  /\ store[Place(p)] = Retained(p)
  /\ Goes(p, AfterRetain(p))
  /\ UNCHANGED <<rootVars, store, landed, commands, faults>>

DifferentBytes(p) ==
  /\ pc[p] \in {"current", "new"}
  /\ store[Place(p)] \notin {None, Retained(p)}
  /\ Ends(p, "failed")
  /\ UNCHANGED <<rootVars, store, landed, commands, faults>>

StartCopy(p) ==
  /\ pc[p] \in {"current", "new"}
  /\ store[Place(p)] = None
  /\ store' = [store EXCEPT ![Place(p)] = Torn]
  /\ Goes(p, IF pc[p] = "current" THEN "copying current" ELSE "copying new")
  /\ UNCHANGED <<rootVars, landed, commands, faults>>

FinishCopy(p) ==
  /\ pc[p] \in {"copying current", "copying new"}
  /\ store' = [store EXCEPT ![Place(p)] = Retained(p)]
  /\ Goes(p, AfterRetain(p))
  /\ UNCHANGED <<rootVars, landed, commands, faults>>

-----------------------------------------------------------------------------
(* commit_staged_bundle_with: the parent of a first Bundle, the rename (of  *)
(* no existing file, or an exchange), the removal of the retired Bundle.    *)

MakeParent(p) ==
  /\ pc[p] = "parent"
  /\ directory' = directory \union {staged[p].plugin}
  /\ pc' = [pc EXCEPT ![p] = "publish"]
  /\ job' = [job EXCEPT ![p].made = staged[p].plugin \notin directory]
  /\ UNCHANGED <<visible, trash, held, store, lock, staged, result, landed, commands, faults>>

Replaces(p) == job[p].op \in {"update", "rollback"}

Publish(p) ==
  LET q == staged[p].plugin IN
  /\ pc[p] = "publish"
  /\ visible' = [visible EXCEPT ![q] = staged[p]]
  /\ held' = held \union {staged[p]}
  /\ landed' = [landed EXCEPT ![p] = TRUE]
  /\ IF Replaces(p)
     THEN /\ pc' = [pc EXCEPT ![p] = "retire"]
          /\ staged' = [staged EXCEPT ![p] = visible[q]]
          /\ UNCHANGED <<lock, job, result>>
     ELSE Ends(p, "done")
  /\ UNCHANGED <<directory, trash, store, commands, faults>>

\* The exchange was the commit: a retired Bundle that cannot be removed is a
\* warning and stays in its hidden directory.
RetireOutcome(removed) == "done"

Retire(p) ==
  /\ pc[p] = "retire"
  /\ \E removed \in BOOLEAN: Ends(p, RetireOutcome(removed))
  /\ UNCHANGED <<rootVars, store, landed, commands, faults>>

-----------------------------------------------------------------------------
(* remove_plugin: the whole directory moves to the trash, if the App        *)
(* without the Plugin resolves. Under the lock nobody sees its steps.       *)

Remove(p) ==
  \E q \in Plugins:
    /\ pc[p] = "idle" /\ lock = None /\ commands < MaxCommands
    /\ commands' = commands + 1
    /\ IF BundlesResolve([visible EXCEPT ![q] = None]) /\ q \in directory
       THEN /\ visible' = [visible EXCEPT ![q] = None]
            /\ directory' = directory \ {q}
            /\ trash' = trash \union ({visible[q]} \ {None})
            /\ landed' = [landed EXCEPT ![p] = TRUE]
            /\ result' = [result EXCEPT ![p] = "done"]
       ELSE /\ landed' = [landed EXCEPT ![p] = FALSE]
            /\ result' = [result EXCEPT ![p] = "failed"]
            /\ UNCHANGED <<visible, directory, trash>>
    /\ UNCHANGED <<held, store, lock, pc, job, staged, faults>>

-----------------------------------------------------------------------------
(* Faults. Before the commit an I/O error ends the command; a torn copy     *)
(* stays. A failed rename takes an empty parent it made along.              *)

Error(p) ==
  /\ pc[p] \notin {"idle", "publish", "retire"} /\ faults < MaxFaults
  /\ faults' = faults + 1
  /\ Ends(p, "failed")
  /\ UNCHANGED <<rootVars, store, landed, commands>>

PublishFails(p) ==
  /\ pc[p] = "publish" /\ faults < MaxFaults
  /\ faults' = faults + 1
  /\ directory' = directory \ (IF job[p].made THEN {staged[p].plugin} ELSE {})
  /\ Ends(p, "failed")
  /\ UNCHANGED <<visible, trash, held, store, landed, commands>>

Kill(p) ==
  /\ pc[p] # "idle" /\ faults < MaxFaults
  /\ faults' = faults + 1
  /\ Ends(p, "killed")
  /\ UNCHANGED <<rootVars, store, landed, commands>>

Step(p) ==
  \/ Add(p) \/ Fetch(p, "install") \/ Fetch(p, "update")
  \/ Rollback(p) \/ RollbackUnavailable(p) \/ Remove(p)
  \/ Prepare(p) \/ Refuse(p)
  \/ AlreadyRetained(p) \/ DifferentBytes(p) \/ StartCopy(p) \/ FinishCopy(p)
  \/ MakeParent(p) \/ Publish(p) \/ Retire(p)
  \/ Error(p) \/ PublishFails(p) \/ Kill(p)

Next == \E p \in Processes: Step(p)

Spec == Init /\ [][Next]_vars

-----------------------------------------------------------------------------
\* The App that plugins/ holds resolves at each moment, whoever changes it:
\* a command resolves the App it makes against the root it will change.
RootResolves == BundlesResolve(visible)

\* A Bundle that was visible once is visible, whole in the store under its
\* version, or in the trash: an update or a rollback overwrites nothing that
\* cannot be brought back, whatever fails or is killed on the way.
NothingIsLost ==
  \A b \in held:
    \/ visible[b.plugin] = b
    \/ store[b.plugin, b.version] \notin {None, Torn} /\ store[b.plugin, b.version].bundle = b
    \/ b \in trash

\* A command reports success exactly when it changed plugins/: an error after
\* the rename is not an error of the command, and nothing before it is success.
ReportsItsCommit ==
  \A p \in Processes:
    pc[p] = "idle" /\ result[p] \in {"done", "failed"} => (result[p] = "done") = landed[p]
=============================================================================
