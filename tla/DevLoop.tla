------------------------------ MODULE DevLoop ------------------------------
(***************************************************************************)
(* `lenso app dev`: a loop that builds the App in a child process, drains  *)
(* the Host of the previous generation, starts the next one and waits for  *)
(* notifications about the App, the plugin sources its lenso.toml names    *)
(* and the path dependencies a build has found.  People save files at any  *)
(* moment, also while a build reads them.                                  *)
(*                                                                         *)
(* A source root is modelled by a version that grows with each edit, and a *)
(* digest by the version it is of; a generation is its revision.  The App's*)
(* directory is two roots: App stands for its projects, which a build      *)
(* digests, and Intent for lenso.toml and plugins/.  What lenso.toml names *)
(* is discovered and watched; Shared sources are built only once plugins/  *)
(* enables them, and here it does not.  Ctrl-C pressed where the loop does *)
(* not listen changes nothing and is no action.                            *)
(***************************************************************************)
EXTENDS Naturals, Sequences, FiniteSets

CONSTANTS
  App,        \* the projects in the App's own directory
  Intent,     \* lenso.toml and plugins/ in that directory
  Deps,       \* source roots outside it
  Declared,   \* the plugin_sources of each version of Intent
  Native,     \* versions of App with a native Plugin that has to be linked
  Uses,       \* the path dependencies each version of a root's manifest names
  Malformed,  \* versions of Intent whose lenso.toml does not parse
  Remembered, \* what watch-roots.json may name when the loop starts
  QueueSize,  \* the capacity of the channel of notifications
  MaxEdits,   \* for each root, a bound on its edits
  MaxFaults   \* bound on watcher errors, failing system calls and Host exits

Sources == {App} \union Deps
Roots == Sources \union {Intent}

ASSUME RootAssumption ==
  App \notin Deps /\ Intent \notin Sources /\ MaxEdits \in [Roots -> Nat]
ASSUME AppAssumption ==
  /\ Declared \in [0 .. MaxEdits[Intent] -> SUBSET Deps]
  /\ Malformed \subseteq (0 .. MaxEdits[Intent]) \ {0}
  /\ Native \subseteq 0 .. MaxEdits[App]
  /\ \A r \in Sources : Uses[r] \in [0 .. MaxEdits[r] -> SUBSET Deps]
  /\ Remembered \subseteq SUBSET Deps
ASSUME BoundAssumption == QueueSize \in Nat \ {0} /\ MaxFaults \in Nat

VARIABLES
  version,    \* of each root, on disk
  watched,    \* the roots the watcher looks at
  raised,     \* roots with a notification on its way to the channel
  queue,      \* the channel
  watchRoots, \* .lenso/host-cache/watch-roots.json
  pc,         \* where the loop is
  build,      \* where the child process of the build is
  picked,     \* the selection that build has discovered
  todo,       \* roots the present pass of the build has still to read
  done,       \* sources whose manifest it has read, or that it has compiled
  graph,      \* the path dependencies it has a digest of
  tried,      \* the versions when the last build was started
  listed,     \* the versions of the manifests cargo metadata has read
  seen,       \* the digests that build took
  compiled,   \* the versions that were compiled
  revision,   \* of the last build
  outputs,    \* generations whose directory exists
  current,    \* current_output, 0 for none
  host,       \* the Host the loop holds, 0 for none
  alive,      \* the Host processes that run
  result,     \* what dev returned
  past,       \* every state the sources were in together
  faults

diskVars == <<version, past>>
watchVars == <<watched, raised, queue>>
readVars == <<picked, listed, seen, compiled>>
buildVars == <<watchRoots, build, todo, done, graph, readVars>>
hostVars == <<outputs, current, host, alive>>
loopVars == <<pc, tried, revision, result>>
vars == <<diskVars, watchVars, buildVars, hostVars, loopVars, faults>>

\* The sources as they are together now.
Present == [r \in Sources |-> version[r]]

\* The convention plan of a fresh discovery, as far as a build depends on it.
Selection == [declared |-> Declared[version[Intent]], native |-> version[App] \in Native]

-----------------------------------------------------------------------------
(* dev: the temporary directory, the first watcher, no Host.               *)

Init ==
  /\ version = [r \in Roots |-> 0]
  /\ past = {Present}
  /\ watchRoots \in Remembered
  /\ watched = {App, Intent} \union Declared[0] \union watchRoots
  /\ raised = {} /\ queue = <<>>
  /\ pc = "begin" /\ build = "none" /\ result = "none"
  /\ picked = Selection
  /\ todo = {} /\ done = {} /\ graph = {}
  /\ tried = version /\ listed = version /\ seen = version /\ compiled = version
  /\ revision = 0 /\ current = 0 /\ host = 0
  /\ outputs = {} /\ alive = {}
  /\ faults = 0

(* What dev leaves behind: the Host it holds is killed when its handle is  *)
(* dropped, and the generations go with their temporary directory.         *)
End(why) ==
  /\ pc' = "ended" /\ result' = why
  /\ alive' = {} /\ outputs' = {} /\ host' = 0 /\ current' = 0

Fault == faults < MaxFaults /\ faults' = faults + 1

-----------------------------------------------------------------------------
(* The child process: app build.                                           *)

StartBuild ==
  /\ pc = "begin"
  /\ revision' = revision + 1
  /\ tried' = version
  /\ pc' = "building" /\ build' = "discovering"
  /\ UNCHANGED <<diskVars, watchVars, watchRoots, todo, done, graph, readVars,
                 hostVars, result, faults>>

\* Discovery; plugins/, copied then, is never compared and leaves no trace here.
Discover ==
  /\ build = "discovering"
  /\ IF version[Intent] \in Malformed
     THEN build' = "failed" /\ UNCHANGED picked
     ELSE build' = "digesting" /\ picked' = Selection
  /\ UNCHANGED <<diskVars, watchVars, watchRoots, todo, done, graph, listed, seen,
                 compiled, hostVars, loopVars, faults>>

\* The App's own projects.  Only native Plugins are linked into a generated Host;
\* without one no path dependency has a digest.
DigestApp ==
  /\ build = "digesting"
  /\ seen' = [seen EXCEPT ![App] = version[App]]
  /\ todo' = {App} /\ done' = {}
  /\ IF picked.native
     THEN build' = "listing" /\ UNCHANGED graph
     ELSE build' = "compiling" /\ graph' = {}
  /\ UNCHANGED <<diskVars, watchVars, watchRoots, picked, listed, compiled, hostVars,
                 loopVars, faults>>

\* What Cargo has still to read when it has read the manifest of r.
Follow(r) ==
  /\ done' = done \union {r}
  /\ todo' = (todo \union Uses[r][version[r]]) \ done'

\* cargo metadata goes from manifest to manifest.
ReadManifest(r) ==
  /\ build = "listing" /\ r \in todo
  /\ Follow(r)
  /\ listed' = [listed EXCEPT ![r] = version[r]]
  /\ UNCHANGED <<diskVars, watchVars, watchRoots, build, graph, picked, seen, compiled,
                 hostVars, loopVars, faults>>

\* The list of roots is rewritten before the digests are taken.
WriteRoots ==
  /\ build = "listing" /\ todo = {}
  /\ build' = "hashing"
  /\ graph' = done \ {App} /\ watchRoots' = graph' /\ todo' = graph'
  /\ UNCHANGED <<diskVars, watchVars, done, readVars, hostVars, loopVars, faults>>

Hash(r) ==
  /\ build = "hashing" /\ r \in todo
  /\ todo' = todo \ {r}
  /\ seen' = [seen EXCEPT ![r] = version[r]]
  /\ UNCHANGED <<diskVars, watchVars, watchRoots, build, done, graph, picked, listed,
                 compiled, hostVars, loopVars, faults>>

\* The end of one pass over the roots and the start of the next.
NextPass ==
  /\ todo = {}
  /\ \/ build = "hashing" /\ build' = "compiling" /\ todo' = {App} /\ done' = {}
     \/ build = "compiling" /\ build' = "checking" /\ todo' = graph /\ UNCHANGED done
     \/ build = "checking" /\ build' = "publishing" /\ UNCHANGED <<todo, done>>
  /\ UNCHANGED <<diskVars, watchVars, watchRoots, graph, readVars, hostVars, loopVars,
                 faults>>

\* cargo build reads the manifests again, and the sources with them.
Compile(r) ==
  /\ build = "compiling" /\ r \in todo
  /\ Follow(r)
  /\ compiled' = [compiled EXCEPT ![r] = version[r]]
  /\ UNCHANGED <<diskVars, watchVars, watchRoots, build, graph, picked, listed, seen,
                 hostVars, loopVars, faults>>

\* A file cannot be read or Cargo rejects a manifest; the sources do not compile, a
\* manifest has changed the selection, or what is staged does not resolve.
BuildFails ==
  /\ build \in {"discovering", "digesting", "listing", "hashing", "compiling", "publishing"}
  /\ build' = "failed"
  /\ UNCHANGED <<diskVars, watchVars, watchRoots, todo, done, graph, readVars, hostVars,
                 loopVars, faults>>

Unchanged(r) == version[r] = seen[r]

\* "changed during build; retry after edits settle".
Check(r) ==
  /\ build = "checking" /\ r \in todo
  /\ todo' = todo \ {r}
  /\ build' = IF Unchanged(r) THEN build ELSE "failed"
  /\ UNCHANGED <<diskVars, watchVars, watchRoots, done, graph, readVars, hostVars,
                 loopVars, faults>>

PublishUnchecked ==
  /\ build = "publishing"
  /\ build' = "succeeded" /\ outputs' = outputs \union {revision}
  /\ UNCHANGED <<diskVars, watchVars, watchRoots, todo, done, graph, readVars, current,
                 host, alive, loopVars, faults>>

\* The selection and the App's own projects are compared last, plugins/ is not; the
\* output appears by a rename.
PublishOutput ==
  /\ build = "publishing"
  /\ IF version[Intent] \notin Malformed /\ Selection = picked /\ Unchanged(App)
     THEN build' = "succeeded" /\ outputs' = outputs \union {revision}
     ELSE build' = "failed" /\ UNCHANGED outputs
  /\ UNCHANGED <<diskVars, watchVars, watchRoots, todo, done, graph, readVars, current,
                 host, alive, loopVars, faults>>

BuildStep ==
  \/ Discover \/ DigestApp \/ WriteRoots \/ NextPass \/ BuildFails
  \/ PublishOutput
  \/ \E r \in Sources : ReadManifest(r) \/ Hash(r) \/ Compile(r) \/ Check(r)

-----------------------------------------------------------------------------
(* dev: the loop.                                                          *)

Running == host # 0 /\ host \in alive

ReplaceAnyway ==
  /\ pc = "building" /\ build \in {"failed", "succeeded"}
  /\ watched' = watched \union watchRoots
  /\ pc' = "replacing"
  /\ UNCHANGED <<diskVars, raised, queue, buildVars, hostVars, tried, revision,
                 result, faults>>

WatchAfterBuild ==
  /\ pc = "building" /\ build \in {"failed", "succeeded"}
  /\ watched' = watched \union watchRoots
  /\ raised' = {} /\ queue' = <<>>
  /\ pc' = IF build = "succeeded" THEN "replacing" ELSE "waiting"
  /\ UNCHANGED <<diskVars, buildVars, hostVars, tried, revision, result, faults>>

\* The build is over; dependencies it has listed are watched from now on.
BuildEnds ==
  /\ pc = "building" /\ build \in {"failed", "succeeded"}
  /\ watched' = watched \union watchRoots
  /\ pc' = IF build = "succeeded" THEN "replacing" ELSE "waiting"
  /\ UNCHANGED <<diskVars, raised, queue, buildVars, hostVars, tried, revision,
                 result, faults>>

\* stop: SIGTERM and the wait for the Host that is replaced.
Drain ==
  /\ pc = "replacing" /\ Running
  /\ alive' = alive \ {host}
  /\ UNCHANGED <<diskVars, watchVars, buildVars, outputs, current, host, loopVars,
                 faults>>

StartHost ==
  /\ pc = "replacing" /\ ~Running
  /\ host' = revision
  /\ alive' = alive \union {revision}
  /\ pc' = "retiring"
  /\ UNCHANGED <<diskVars, watchVars, buildVars, outputs, current, tried, revision,
                 result, faults>>

\* The directory of the previous generation.
Retire ==
  /\ pc = "retiring"
  /\ outputs' = outputs \ {current}
  /\ current' = revision
  /\ pc' = "waiting"
  /\ UNCHANGED <<diskVars, watchVars, buildVars, host, alive, tried, revision,
                 result, faults>>

\* try_wait finds that the Host has exited by itself.
ForgetHost ==
  /\ pc = "waiting" /\ host # 0 /\ ~Running
  /\ host' = 0
  /\ UNCHANGED <<diskVars, watchVars, buildVars, outputs, current, alive, loopVars,
                 faults>>

Receive ==
  /\ pc = "waiting" /\ queue # <<>>
  /\ IF Head(queue) = "event"
     THEN /\ pc' = "debouncing" /\ queue' = Tail(queue)
          /\ UNCHANGED <<hostVars, result>>
     ELSE End("failed") /\ queue' = Tail(queue)
  /\ UNCHANGED <<diskVars, watched, raised, buildVars, tried, revision, faults>>

\* The end of the sleep: what is queued by then belongs to the same rebuild.
Coalesce ==
  /\ pc = "debouncing"
  /\ queue' = <<>>
  /\ pc' = "rewatching"
  /\ UNCHANGED <<diskVars, watched, raised, buildVars, hostVars, tried, revision,
                 result, faults>>

\* A new watcher with a new channel, or the old ones if lenso.toml is invalid.
Rewatch ==
  /\ pc = "rewatching"
  /\ IF version[Intent] \in Malformed
     THEN UNCHANGED watchVars
     ELSE /\ watched' = {App, Intent} \union Declared[version[Intent]] \union watchRoots
          /\ raised' = {} /\ queue' = <<>>
  /\ pc' = "begin"
  /\ UNCHANGED <<diskVars, buildVars, hostVars, tried, revision, result, faults>>

\* Ctrl-C while the build runs or the loop waits: the build's group is stopped.
Interrupt ==
  /\ pc \in {"building", "waiting"}
  /\ pc' = "leaving" /\ build' = "none"
  /\ UNCHANGED <<diskVars, watchVars, watchRoots, todo, done, graph, readVars,
                 hostVars, tried, revision, result, faults>>

DrainLast ==
  /\ pc = "leaving" /\ Running
  /\ alive' = alive \ {host}
  /\ UNCHANGED <<diskVars, watchVars, buildVars, outputs, current, host, loopVars,
                 faults>>

LeaveAtOnce ==
  /\ pc = "leaving"
  /\ End("stopped")
  /\ UNCHANGED <<diskVars, watchVars, buildVars, tried, revision, faults>>

Leave ==
  /\ pc = "leaving" /\ ~Running
  /\ End("stopped")
  /\ UNCHANGED <<diskVars, watchVars, buildVars, tried, revision, faults>>

\* A system call fails, a process does not stop in time or ends with an error.
Fail ==
  /\ pc \in {"begin", "building", "replacing", "retiring", "waiting", "leaving"}
  /\ Fault
  /\ End("failed")
  /\ build' = "none"
  /\ UNCHANGED <<diskVars, watchVars, watchRoots, todo, done, graph, readVars, tried,
                 revision>>

LoopStep ==
  \/ StartBuild \/ BuildEnds \/ Drain \/ StartHost \/ Retire \/ ForgetHost
  \/ Receive \/ Coalesce \/ Rewatch \/ DrainLast \/ Leave

-----------------------------------------------------------------------------
(* The file system's notifications, people and the Host.                   *)

PushedAlways(kind) == Append(queue, kind)

\* A full channel drops what the watcher hands it.
Pushed(kind) == IF Len(queue) < QueueSize THEN Append(queue, kind) ELSE queue

Deliver(r) ==
  /\ pc # "ended" /\ r \in raised
  /\ raised' = raised \ {r}
  /\ queue' = Pushed("event")
  /\ UNCHANGED <<diskVars, watched, buildVars, hostVars, loopVars, faults>>

WatcherError ==
  /\ pc # "ended" /\ Fault
  /\ queue' = Pushed("error")
  /\ UNCHANGED <<diskVars, watched, raised, buildVars, hostVars, loopVars>>

Edit(r) ==
  /\ pc # "ended" /\ version[r] < MaxEdits[r]
  /\ version' = [version EXCEPT ![r] = @ + 1]
  /\ past' = past \union {Present'}
  /\ raised' = raised \union ({r} \intersect watched)
  /\ UNCHANGED <<watched, queue, buildVars, hostVars, loopVars, faults>>

HostExits ==
  /\ pc # "ended" /\ Running /\ Fault
  /\ alive' = alive \ {host}
  /\ UNCHANGED <<diskVars, watchVars, buildVars, outputs, current, host, loopVars>>

Next ==
  \/ LoopStep \/ BuildStep \/ Interrupt \/ Fail \/ WatcherError \/ HostExits
  \/ \E r \in Roots : Deliver(r) \/ Edit(r)

Notify == \E r \in Roots : Deliver(r)

Spec == Init /\ [][Next]_vars

\* The loop, its child and the notification thread are scheduled; builds and
\* stops end, the latter because of their time limit.
FairSpec ==
  /\ Spec
  /\ WF_vars(LoopStep) /\ WF_vars(BuildStep) /\ WF_vars(Notify)

-----------------------------------------------------------------------------
(* Properties                                                              *)

TypeOK ==
  /\ {version, tried, listed, seen, compiled} \subseteq [Roots -> Nat]
  /\ {watched, raised} \subseteq SUBSET Roots
  /\ {watchRoots, graph} \subseteq SUBSET Deps
  /\ queue \in UNION {[1 .. n -> {"event", "error"}] : n \in 0 .. QueueSize}
  /\ pc \in {"begin", "building", "replacing", "retiring", "waiting", "debouncing",
             "rewatching", "leaving", "ended"}
  /\ build \in {"none", "discovering", "digesting", "listing", "hashing",
                "compiling", "checking", "publishing", "failed", "succeeded"}
  /\ picked \in [declared : SUBSET Deps, native : BOOLEAN]
  /\ {todo, done} \subseteq SUBSET Sources
  /\ {revision, current, host, faults} \subseteq Nat
  /\ outputs \union alive \subseteq 1 .. revision
  /\ result \in {"none", "stopped", "failed"}

(* A generation is built from sources as they were together at one moment, *)
(* although the build reads them one after another while people edit them, *)
(* as far as it has digests: of the App's projects and, if one is native,  *)
(* of the path dependencies cargo metadata has listed; and the digests it  *)
(* publishes with the output are of that moment, too.  What it compiles    *)
(* then is all of that kind, unless a dependency's manifest was edited     *)
(* after it was listed and before its digest: such an edit can bring in a  *)
(* dependency that nothing compares (the digests of local_host::generate   *)
(* and assemble).  plugins/ is copied once and never compared.             *)
BuiltFromOneMoment ==
  build = "succeeded" =>
    /\ \E v \in past : \A r \in done \intersect (graph \union {App}) :
         compiled[r] = v[r] /\ seen[r] = v[r]
    /\ picked.native /\ (\A r \in graph : listed[r] = seen[r])
         => done \subseteq graph \union {App}

(* One Host runs at a time, from a directory that exists (the order of     *)
(* stop, spawn and remove_dir_all in dev).                                 *)
OneHostWithItsFiles ==
  /\ Cardinality(alive) <= 1
  /\ alive \subseteq outputs

(* An edit of a watched root is followed by a build that starts after it,  *)
(* whenever it is made and whatever is queued then, unless dev ends (dev:  *)
(* the watcher is retained while building, its channel drained, and both   *)
(* replaced before the next build).                                        *)
WatchedEditsAreBuilt ==
  \A r \in Roots : r \in raised ~> (tried[r] = version[r] \/ pc = "ended")

(* While somebody keeps editing, failed builds or not, the Host that runs  *)
(* is replaced only by one of a newer generation, and dev ends well only   *)
(* when the Host was drained and the build stopped (dev, stop).            *)
HostsGoForward ==
  [][/\ alive' \subseteq alive \/ \A h \in alive' : h > current /\ alive = {}
     /\ result' = "stopped" => alive = {} /\ build = "none"]_vars

(* What the comment in dev says of edits during compilation, stated of the *)
(* path dependencies: one that is edited after a build took its digest is  *)
(* followed by another build, unless dev ends or the App no longer uses it.*)
EditsDuringCompilationAreQueued ==
  \A r \in Deps :
    (r \in graph /\ seen[r] < version[r])
      ~> (r \notin graph \/ tried[r] = version[r] \/ pc = "ended")
=============================================================================
